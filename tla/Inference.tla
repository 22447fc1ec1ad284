------------------------------ MODULE Inference ------------------------------
(***************************************************************************)
(* DetectImageWithYoloFromImage of yolo.go, the gRPC client of             *)
(* client_grpc.go and the TensorRT service of analysis_py/server.py: the   *)
(* inference goroutines choose the engine from the configuration of the    *)
(* moment, the service answers with a pool of threads over two lists of    *)
(* execution contexts and CUDA streams, used as stacks under one lock.     *)
(*                                                                         *)
(* The sessions of the ONNX engine are those of SessionPool; here a call   *)
(* to it has an outcome only.                                              *)
(***************************************************************************)
EXTENDS Integers, Sequences, FiniteSets

CONSTANTS
  Callers,    \* inference goroutines
  Threads,    \* max_workers of the ThreadPoolExecutor (16 in the code)
  NumPairs,   \* CONTEXT_NUM (18 in the code)
  NoThing,    \* nobody, no context
  MaxReloads  \* bound: changes of infer-engine

InferenceAssumption ==
  /\ NumPairs \in Nat /\ NoThing \notin Callers \union (1 .. NumPairs)
  /\ IsFiniteSet(Threads) /\ Cardinality(Threads) <= NumPairs

Pairs == 1 .. NumPairs
Engines == {"onnx", "tensorrt", "other"}

VARIABLES
  engine,    \* Onnx.InferEngine ("" is read as "onnx")
  started,   \* the engine main prepared
  reloads,
  caller,    \* per caller: "idle" or "sent"
  answer,    \* per caller: how its last call ended
  panicked,
  up,        \* the service runs
  queue,     \* requests no thread has taken yet
  at,        \* per thread: where it is in InferService.Infer
  serves,    \* per thread: the caller of its request
  contexts, streams,  \* TensorRTInfer.contexts and .streams
  ctx, stream,        \* per thread: its local variables of infer
  starved    \* a thread popped from an empty list

go == <<engine, started, reloads, panicked>>
calls == <<caller, answer, queue>>
threads == <<up, at, serves>>
lists == <<contexts, streams, ctx, stream, starved>>
vars == <<go, calls, threads, lists>>

TypeOK ==
  /\ engine \in Engines /\ started \in Engines /\ reloads \in 0 .. MaxReloads
  /\ caller \in [Callers -> {"idle", "sent"}]
  /\ answer \in [Callers -> {"none", "boxes", "empty", "error"}]
  /\ panicked \in BOOLEAN /\ up \in BOOLEAN /\ starved \in BOOLEAN
  /\ queue \in Seq(Callers)
  /\ at \in [Threads -> {"idle", "parse", "get", "run", "failed", "post"}]
  /\ serves \in [Threads -> Callers \union {NoThing}]
  /\ contexts \in Seq(Pairs) /\ streams \in Seq(Pairs)
  /\ Len(contexts) <= NumPairs /\ Len(streams) <= NumPairs
  /\ ctx \in [Threads -> Pairs \union {NoThing}] /\ stream \in [Threads -> Pairs \union {NoThing}]

AllPairs == [i \in Pairs |-> i]

\* A process: main prepares the engine it is configured for.
Init ==
  /\ engine \in Engines \ {"other"} /\ started = engine /\ reloads = 0
  /\ caller = [c \in Callers |-> "idle"] /\ answer = [c \in Callers |-> "none"]
  /\ panicked = FALSE
  /\ up = TRUE /\ queue = << >>
  /\ at = [t \in Threads |-> "idle"] /\ serves = [t \in Threads |-> NoThing]
  /\ contexts = AllPairs /\ streams = AllPairs
  /\ ctx = [t \in Threads |-> NoThing] /\ stream = [t \in Threads |-> NoThing]
  /\ starved = FALSE

-----------------------------------------------------------------------------
(* The server program.                                                      *)

\* Hot reload.
Reload(e) ==
  /\ ~panicked /\ reloads < MaxReloads /\ e # engine
  /\ engine' = e /\ reloads' = reloads + 1
  /\ UNCHANGED <<started, panicked, calls, threads, lists>>

Ends(c, outcome) ==
  /\ answer' = [answer EXCEPT ![c] = outcome]
  /\ UNCHANGED <<caller, queue>>

\* The session path; without the pool, which only a start with "onnx" fills, it
\* is an error.
DetectOnnx(c) ==
  /\ engine = "onnx"
  /\ \E o \in {"boxes", "error"} : (started = "onnx" \/ o = "error") /\ Ends(c, o)
  /\ UNCHANGED <<go, threads, lists>>

DetectOther(c) ==
  /\ engine = "other" /\ Ends(c, "error")
  /\ UNCHANGED <<go, threads, lists>>

\* grpc.Infer: InitGrpcClient has run only if main started with "tensorrt"; else
\* client is nil.  The call has no deadline; without a service it fails at once.
DetectTensorRT(c) ==
  /\ engine = "tensorrt"
  /\ IF started # "tensorrt"
     THEN panicked' = TRUE /\ UNCHANGED <<engine, started, reloads, calls>>
     ELSE /\ UNCHANGED go
          /\ IF up THEN /\ caller' = [caller EXCEPT ![c] = "sent"]
                        /\ queue' = Append(queue, c) /\ UNCHANGED answer
                   ELSE Ends(c, "error")
  /\ UNCHANGED <<threads, lists>>

DetectImageWithYoloFromImage(c) ==
  /\ ~panicked /\ caller[c] = "idle"
  /\ DetectOnnx(c) \/ DetectOther(c) \/ DetectTensorRT(c)

-----------------------------------------------------------------------------
(* The service.                                                             *)

\* Mutation: the newest request first.
AcceptNewest(t) ==
  /\ at[t] = "idle" /\ queue # << >>
  /\ at' = [at EXCEPT ![t] = "parse"]
  /\ serves' = [serves EXCEPT ![t] = queue[Len(queue)]]
  /\ queue' = SubSeq(queue, 1, Len(queue) - 1)
  /\ UNCHANGED <<go, caller, answer, up, lists>>

\* The executor hands its queue out in order.
Accept(t) ==
  /\ at[t] = "idle" /\ queue # << >>
  /\ at' = [at EXCEPT ![t] = "parse"]
  /\ serves' = [serves EXCEPT ![t] = Head(queue)] /\ queue' = Tail(queue)
  /\ UNCHANGED <<go, caller, answer, up, lists>>

Goto(t, l) == at' = [at EXCEPT ![t] = l] /\ UNCHANGED <<up, serves>>

\* The image is decoded and placed; an exception ends in the handler of Infer.
Preprocess(t) ==
  /\ at[t] = "parse"
  /\ \E l \in {"get", "failed"} : Goto(t, l)
  /\ UNCHANGED <<go, calls, lists>>

\* Mutation: the lists are used as queues at one end and as stacks at the other.
get_resourceFront(t) ==
  /\ at[t] = "get" /\ contexts # << >>
  /\ Goto(t, "run")
  /\ ctx' = [ctx EXCEPT ![t] = contexts[Len(contexts)]]
  /\ contexts' = SubSeq(contexts, 1, Len(contexts) - 1)
  /\ stream' = [stream EXCEPT ![t] = Head(streams)] /\ streams' = Tail(streams)
  /\ UNCHANGED <<go, calls, starved>>

\* pop of an empty list is an IndexError, handled like every exception.
get_resource(t) ==
  /\ at[t] = "get"
  /\ IF contexts = << >>
     THEN starved' = TRUE /\ Goto(t, "failed") /\ UNCHANGED <<contexts, streams, ctx, stream>>
     ELSE /\ Goto(t, "run")
          /\ ctx' = [ctx EXCEPT ![t] = contexts[Len(contexts)]]
          /\ contexts' = SubSeq(contexts, 1, Len(contexts) - 1)
          /\ stream' = [stream EXCEPT ![t] = streams[Len(streams)]]
          /\ streams' = SubSeq(streams, 1, Len(streams) - 1)
          /\ UNCHANGED starved
  /\ UNCHANGED <<go, calls>>

\* Mutation: the handler of a failed execution releases, and so does finally.
release_resourceTwice(t) ==
  /\ at[t] = "run" /\ Goto(t, "failed")
  /\ contexts' = contexts \o <<ctx[t], ctx[t]>>
  /\ streams' = streams \o <<stream[t], stream[t]>>
  /\ ctx' = [ctx EXCEPT ![t] = NoThing] /\ stream' = [stream EXCEPT ![t] = NoThing]
  /\ UNCHANGED <<go, calls, starved>>

\* The execution ends well or raises; finally gives both back.
release_resource(t) ==
  /\ at[t] = "run"
  /\ \E l \in {"post", "failed"} : Goto(t, l)
  /\ contexts' = Append(contexts, ctx[t]) /\ streams' = Append(streams, stream[t])
  /\ ctx' = [ctx EXCEPT ![t] = NoThing] /\ stream' = [stream EXCEPT ![t] = NoThing]
  /\ UNCHANGED <<go, calls, starved>>

Reply(t, outcome) ==
  /\ at' = [at EXCEPT ![t] = "idle"] /\ serves' = [serves EXCEPT ![t] = NoThing]
  /\ caller' = [caller EXCEPT ![serves[t]] = "idle"]
  /\ answer' = [answer EXCEPT ![serves[t]] = outcome]
  /\ UNCHANGED <<go, queue, up, lists>>

\* Postprocessing may raise, too: a class without a label.
Postprocess(t) ==
  /\ at[t] = "post"
  /\ \/ Reply(t, "boxes")
     \/ Goto(t, "failed") /\ UNCHANGED <<go, calls, lists>>

\* The answer to a failure is a response without boxes.
Except(t) == at[t] = "failed" /\ Reply(t, "empty")

Serve(t) ==
  /\ up
  /\ \/ Accept(t) \/ Preprocess(t) \/ get_resource(t) \/ release_resource(t)
     \/ Postprocess(t) \/ Except(t)

\* The service ends: every call under way returns with an error.
Down ==
  /\ up /\ up' = FALSE
  /\ queue' = << >> /\ at' = [t \in Threads |-> "idle"]
  /\ serves' = [t \in Threads |-> NoThing]
  /\ contexts' = AllPairs /\ streams' = AllPairs
  /\ ctx' = [t \in Threads |-> NoThing] /\ stream' = [t \in Threads |-> NoThing]
  /\ caller' = [c \in Callers |-> "idle"]
  /\ answer' = [c \in Callers |-> IF caller[c] = "sent" THEN "error" ELSE answer[c]]
  /\ UNCHANGED <<go, starved>>

Start ==
  /\ ~up /\ up' = TRUE
  /\ UNCHANGED <<go, calls, at, serves, lists>>

Next ==
  \/ \E e \in Engines : Reload(e)
  \/ \E c \in Callers : DetectImageWithYoloFromImage(c)
  \/ \E t \in Threads : Serve(t)
  \/ Down \/ Start

\* The threads of the service run and an execution on the GPU ends.
Spec == Init /\ [][Next]_vars /\ \A t \in Threads : WF_vars(Serve(t))

-----------------------------------------------------------------------------
(* Properties.                                                              *)

\* With at least as many contexts as threads no thread ever pops from an empty list,
\* however many executions raised before: every one gave its context back.
NeverStarved == ~starved

\* A context always comes with the stream it was made with, in whatever order the
\* threads return them: an execution is never synchronised on another one's stream.
PairsKept ==
  /\ contexts = streams
  /\ \A t \in Threads : ctx[t] = stream[t]

\* Only a hot reload can break the program here: it has to be started with another
\* engine and switched to "tensorrt", for which main has prepared no client.
PanicNeedsSwitch == panicked => started # "tensorrt" /\ reloads > 0

\* A caller that waits has its request in one place, in the queue or with one thread,
\* and no other caller has one: an answer never goes to another call than its own.
OneRequestEach ==
  /\ \A i, j \in DOMAIN queue : queue[i] = queue[j] => i = j
  /\ \A t, u \in Threads : serves[t] = serves[u] /\ serves[t] # NoThing => t = u
  /\ \A t \in Threads, i \in DOMAIN queue : serves[t] # queue[i]
  /\ \A c \in Callers :
       caller[c] = "sent" <=> \/ \E i \in DOMAIN queue : queue[i] = c
                              \/ \E t \in Threads : serves[t] = c

\* The four together: what a caller and the operator of the service rely on.
ServiceSound == NeverStarved /\ PairsKept /\ OneRequestEach /\ PanicNeedsSwitch

\* Every call ends although it has no deadline, with callers that call again and
\* again and fewer threads than callers: as long as the GPU works.
CallsEnd == \A c \in Callers : caller[c] = "sent" ~> caller[c] = "idle"

\* The lists with their lock are an Allocator of contexts.
A == INSTANCE Allocator
       WITH Clients <- Threads, Resources <- Pairs, Nothing <- NoThing,
            free <- {contexts[i] : i \in DOMAIN contexts}, holds <- ctx, closed <- FALSE
ImplementsAllocator == A!Spec
=============================================================================
