-------------------------- MODULE InferenceProofs --------------------------
(* For any number of callers, threads and contexts, with no fewer contexts  *)
(* than threads: the TensorRT service never runs out of contexts, keeps     *)
(* each with its stream, answers every caller its own request, and its      *)
(* lists are an Allocator.  For any number of workers and sessions: the     *)
(* pool of ONNX sessions shares, loses and revives none, and is an          *)
(* Allocator, too.                                                          *)
EXTENDS MCInference, FiniteSetTheorems, SequenceTheorems, TLAPS

Running == {t \in Threads : at[t] = "run"}

\* The two lists and the local variables of the threads.
ListsOK ==
  /\ contexts \in Seq(Pairs) /\ streams \in Seq(Pairs)
  /\ ctx \in [Threads -> Pairs \union {NoThing}]
  /\ stream \in [Threads -> Pairs \union {NoThing}]
  /\ at \in [Threads -> {"idle", "parse", "get", "run", "failed", "post"}]
  /\ starved \in BOOLEAN

\* A thread has a context while it runs, and only then.
RunHolds == \A t \in Threads : at[t] = "run" <=> ctx[t] # NoThing

\* Every context is on the list or with a running thread.
Conserved == Len(contexts) + Cardinality(Running) = NumPairs

\* No context is twice on the list, on the list and with a thread, or with two threads.
Exclusive ==
  /\ \A i, j \in DOMAIN contexts : contexts[i] = contexts[j] => i = j
  /\ \A t \in Threads, i \in DOMAIN contexts : ctx[t] # contexts[i]
  /\ \A t, u \in Threads : ctx[t] = ctx[u] /\ ctx[t] # NoThing => t = u

ListInv == ListsOK /\ PairsKept /\ RunHolds /\ Conserved /\ Exclusive

ServiceInv == InferenceAssumption /\ ListInv /\ NeverStarved

LEMMA RunningFinite ==
  ASSUME InferenceAssumption
  PROVE  IsFiniteSet(Running) /\ Cardinality(Running) \in Nat
<1>1. Running \in SUBSET Threads
  BY DEF Running
<1> QED
  BY <1>1, FS_Subset, FS_CardinalityType DEF InferenceAssumption

-----------------------------------------------------------------------------
\* A fresh service: all contexts on the list, none with a thread.
Fresh ==
  /\ contexts = AllPairs /\ streams = AllPairs
  /\ at = [t \in Threads |-> "idle"]
  /\ ctx = [t \in Threads |-> NoThing] /\ stream = [t \in Threads |-> NoThing]
  /\ starved \in BOOLEAN

LEMMA FreshLists == InferenceAssumption /\ Fresh => ListInv
<1> SUFFICES ASSUME InferenceAssumption, Fresh
             PROVE  ListInv
  OBVIOUS
<1> USE DEF Fresh
<1>1. AllPairs \in Seq(Pairs) /\ Len(AllPairs) = NumPairs /\ DOMAIN AllPairs = Pairs
  BY DEF AllPairs, Pairs, InferenceAssumption
<1>2. \A i \in Pairs : AllPairs[i] = i
  BY DEF AllPairs
<1>3. ListsOK
  BY <1>1 DEF ListsOK
<1>4. Running = {}
  BY DEF Running
<1>5. Conserved
  BY <1>1, <1>4, FS_EmptySet DEF Conserved, InferenceAssumption
<1>6. Exclusive
  BY <1>1, <1>2 DEF Exclusive, InferenceAssumption, Pairs
<1> QED
  BY <1>3, <1>5, <1>6 DEF ListInv, PairsKept, RunHolds

LEMMA FreshListsNext == InferenceAssumption' /\ Fresh' => ListInv'
BY FreshLists, PTL

LEMMA InitLists == InferenceAssumption /\ Init => ServiceInv
<1> SUFFICES ASSUME InferenceAssumption, Init
             PROVE  ServiceInv
  OBVIOUS
<1>1. ListInv
  BY FreshLists DEF Init, Fresh
<1> QED
  BY <1>1 DEF Init, ServiceInv, NeverStarved

\* A step that leaves the lists alone, and no thread starts or ends to run.
LEMMA QuietKeeps ==
  ASSUME ListInv, UNCHANGED lists, ListsOK',
         \A t \in Threads : at'[t] = "run" <=> at[t] = "run"
  PROVE  ListInv'
<1>1. Running' = Running
  BY DEF Running
<1> QED
  BY <1>1 DEF ListInv, lists, PairsKept, RunHolds, Conserved, Exclusive

-----------------------------------------------------------------------------
\* What is left of a list when its last element is taken.
LEMMA PopLast ==
  ASSUME NEW S, NEW s \in Seq(S), s # << >>
  PROVE  LET p == SubSeq(s, 1, Len(s) - 1) IN
         /\ s[Len(s)] \in S /\ Len(s) \in DOMAIN s
         /\ p \in Seq(S) /\ Len(p) = Len(s) - 1
         /\ DOMAIN p = 1 .. Len(s) - 1
         /\ \A i \in DOMAIN p : i \in DOMAIN s /\ i # Len(s) /\ p[i] = s[i]
<1> DEFINE p == SubSeq(s, 1, Len(s) - 1)
<1>1. Len(s) \in Nat /\ Len(s) >= 1 /\ DOMAIN s = 1 .. Len(s)
  OBVIOUS
<1>2. \A i \in 1 .. Len(s) - 1 : s[i] \in S
  BY <1>1
<1>3. /\ p \in Seq(S)
      /\ Len(p) = IF 1 <= Len(s) - 1 THEN Len(s) - 1 - 1 + 1 ELSE 0
      /\ \A i \in 1 .. Len(s) - 1 - 1 + 1 : p[i] = s[1 + i - 1]
  BY <1>1, <1>2, SubSeqProperties
<1>4. Len(p) = Len(s) - 1
  BY <1>1, <1>3
<1>5. DOMAIN p = 1 .. Len(s) - 1
  BY <1>3, <1>4
<1>6. \A i \in 1 .. Len(s) - 1 : p[i] = s[i]
  BY <1>1, <1>3
<1> QED
  BY <1>1, <1>3, <1>4, <1>5, <1>6

\* Taking a context and its stream.
LEMMA GetKeeps ==
  ASSUME InferenceAssumption, ListInv, NEW t \in Threads, get_resource(t), contexts # << >>
  PROVE  ListInv'
<1> DEFINE n == Len(contexts)
           last == contexts[n]
<1>1. /\ at[t] = "get" /\ at' = [at EXCEPT ![t] = "run"]
      /\ ctx' = [ctx EXCEPT ![t] = last]
      /\ contexts' = SubSeq(contexts, 1, n - 1)
      /\ stream' = [stream EXCEPT ![t] = streams[Len(streams)]]
      /\ streams' = SubSeq(streams, 1, Len(streams) - 1)
      /\ starved' = starved
  BY DEF get_resource, Goto
<1>2. contexts = streams /\ contexts' = streams'
  BY <1>1 DEF ListInv, PairsKept
<1>3. /\ last \in Pairs /\ n \in DOMAIN contexts
      /\ contexts' \in Seq(Pairs) /\ Len(contexts') = n - 1
      /\ \A i \in DOMAIN contexts' :
           i \in DOMAIN contexts /\ i # n /\ contexts'[i] = contexts[i]
  BY <1>1, PopLast DEF ListInv, ListsOK
<1>4. last # NoThing
  BY <1>3 DEF InferenceAssumption, Pairs
<1>5. ListsOK'
  BY <1>1, <1>2, <1>3 DEF ListInv, ListsOK
<1>6. PairsKept'
  BY <1>1, <1>2 DEF ListInv, ListsOK, PairsKept
<1>7. RunHolds'
  BY <1>1, <1>4 DEF ListInv, ListsOK, RunHolds
<1>8. Conserved'
  <2>1. Running' = Running \union {t} /\ t \notin Running
    BY <1>1 DEF Running, ListInv, ListsOK
  <2>2. Cardinality(Running') = Cardinality(Running) + 1
    BY <2>1, RunningFinite, FS_AddElement
  <2>3. n \in Nat
    BY DEF ListInv, ListsOK
  <2> QED
    BY <1>3, <2>2, <2>3, RunningFinite DEF ListInv, Conserved, InferenceAssumption
<1>9. Exclusive'
  <2>1. \A i, j \in DOMAIN contexts' : contexts'[i] = contexts'[j] => i = j
    BY <1>3 DEF ListInv, Exclusive
  <2>2. \A u \in Threads : ctx'[u] = IF u = t THEN last ELSE ctx[u]
    BY <1>1 DEF ListInv, ListsOK
  <2>3. \A u \in Threads, i \in DOMAIN contexts' : ctx'[u] # contexts'[i]
    BY <1>3, <2>2 DEF ListInv, Exclusive
  <2>4. \A u \in Threads : ctx[u] # last
    BY <1>3 DEF ListInv, Exclusive
  <2>5. \A u, w \in Threads : ctx'[u] = ctx'[w] /\ ctx'[u] # NoThing => u = w
    BY <2>2, <2>4 DEF ListInv, Exclusive
  <2> QED
    BY <2>1, <2>3, <2>5 DEF Exclusive
<1> QED
  BY <1>5, <1>6, <1>7, <1>8, <1>9 DEF ListInv

\* Giving both back.
LEMMA ReleaseKeeps ==
  ASSUME InferenceAssumption, ListInv, NEW t \in Threads, release_resource(t)
  PROVE  ListInv'
<1> DEFINE n == Len(contexts)
<1>1. PICK l \in {"post", "failed"} : at' = [at EXCEPT ![t] = l]
  BY DEF release_resource, Goto
<1>2. /\ at[t] = "run"
      /\ contexts' = Append(contexts, ctx[t]) /\ streams' = Append(streams, stream[t])
      /\ ctx' = [ctx EXCEPT ![t] = NoThing] /\ stream' = [stream EXCEPT ![t] = NoThing]
      /\ starved' = starved
  BY DEF release_resource
<1>3. ctx[t] \in Pairs /\ ctx[t] # NoThing /\ stream[t] = ctx[t]
  BY <1>2 DEF ListInv, ListsOK, RunHolds, PairsKept
<1>4. /\ contexts' \in Seq(Pairs) /\ Len(contexts') = n + 1
      /\ DOMAIN contexts' = 1 .. n + 1 /\ DOMAIN contexts = 1 .. n /\ n \in Nat
      /\ contexts'[n + 1] = ctx[t]
      /\ \A i \in 1 .. n : contexts'[i] = contexts[i]
  BY <1>2, <1>3 DEF ListInv, ListsOK
<1>5. contexts' = streams'
  BY <1>2, <1>3 DEF ListInv, PairsKept
<1>6. ListsOK'
  BY <1>1, <1>2, <1>4, <1>5 DEF ListInv, ListsOK
<1>7. PairsKept'
  BY <1>2, <1>5 DEF ListInv, ListsOK, PairsKept
<1>8. RunHolds'
  BY <1>1, <1>2 DEF ListInv, ListsOK, RunHolds
<1>9. Conserved'
  <2>1. Running' = Running \ {t} /\ t \in Running
    BY <1>1, <1>2 DEF Running, ListInv, ListsOK
  <2>2. Cardinality(Running') = Cardinality(Running) - 1
    BY <2>1, RunningFinite, FS_RemoveElement
  <2> QED
    BY <1>4, <2>2, RunningFinite DEF ListInv, Conserved, InferenceAssumption
<1>10. Exclusive'
  <2>1. \A i \in DOMAIN contexts : ctx[t] # contexts[i]
    BY DEF ListInv, Exclusive
  <2>2. \A i, j \in DOMAIN contexts' : contexts'[i] = contexts'[j] => i = j
    <3> SUFFICES ASSUME NEW i \in 1 .. n + 1, NEW j \in 1 .. n + 1,
                        contexts'[i] = contexts'[j]
                 PROVE  i = j
      BY <1>4
    <3>1. CASE i \in 1 .. n /\ j \in 1 .. n
      BY <1>4, <3>1 DEF ListInv, Exclusive
    <3>2. CASE i = n + 1 \/ j = n + 1
      BY <1>4, <2>1, <3>2
    <3> QED
      BY <1>4, <3>1, <3>2
  <2>3. \A u \in Threads : ctx'[u] = IF u = t THEN NoThing ELSE ctx[u]
    BY <1>2 DEF ListInv, ListsOK
  <2>4. \A u \in Threads : u # t => ctx[u] # ctx[t]
    BY <1>3 DEF ListInv, Exclusive
  <2>5. \A u \in Threads, i \in DOMAIN contexts' : ctx'[u] # contexts'[i]
    <3> SUFFICES ASSUME NEW u \in Threads, NEW i \in 1 .. n + 1
                 PROVE  ctx'[u] # contexts'[i]
      BY <1>4
    <3>1. contexts'[i] \in Pairs /\ NoThing \notin Pairs
      BY <1>4 DEF InferenceAssumption, Pairs
    <3>2. CASE u = t
      BY <2>3, <3>1, <3>2
    <3>3. CASE u # t /\ i = n + 1
      BY <1>4, <2>3, <2>4, <3>3
    <3>4. CASE u # t /\ i \in 1 .. n
      BY <1>4, <2>3, <3>4 DEF ListInv, Exclusive
    <3> QED
      BY <1>4, <3>2, <3>3, <3>4
  <2>6. \A u, w \in Threads : ctx'[u] = ctx'[w] /\ ctx'[u] # NoThing => u = w
    BY <2>3 DEF ListInv, Exclusive
  <2> QED
    BY <2>2, <2>5, <2>6 DEF Exclusive
<1> QED
  BY <1>6, <1>7, <1>8, <1>9, <1>10 DEF ListInv

\* A thread that is about to take a context finds one: the others cannot have all.
LEMMA AlwaysOneLeft ==
  ASSUME InferenceAssumption, ListInv, NEW t \in Threads, at[t] = "get"
  PROVE  contexts # << >>
<1>1. Running \in SUBSET (Threads \ {t})
  BY DEF Running
<1>2. /\ IsFiniteSet(Threads \ {t})
      /\ Cardinality(Threads \ {t}) = Cardinality(Threads) - 1
  BY FS_RemoveElement DEF InferenceAssumption
<1>3. Cardinality(Running) <= Cardinality(Threads) - 1
  BY <1>1, <1>2, FS_Subset
<1>4. Cardinality(Threads) \in Nat /\ Cardinality(Threads) <= NumPairs /\ NumPairs \in Nat
  BY FS_CardinalityType DEF InferenceAssumption
<1>5. Cardinality(Running) < NumPairs
  BY <1>3, <1>4, RunningFinite
<1>6. Len(contexts) # 0
  BY <1>4, <1>5, RunningFinite DEF ListInv, ListsOK, Conserved
<1> QED
  BY <1>6 DEF ListInv, ListsOK

LEMMA StepLists == ServiceInv /\ [Next]_vars => ServiceInv'
<1> SUFFICES ASSUME ServiceInv, [Next]_vars
             PROVE  ListInv' /\ NeverStarved'
  BY DEF ServiceInv
<1>a. InferenceAssumption /\ ListInv /\ ListsOK /\ NeverStarved
  BY DEF ServiceInv, ListInv
<1>1. CASE UNCHANGED <<threads, lists>>
  BY <1>1, <1>a, QuietKeeps DEF threads, lists, ListsOK, NeverStarved
<1>2. ASSUME NEW t \in Threads, get_resource(t)
      PROVE  ListInv' /\ NeverStarved'
  <2>1. contexts # << >>
    BY <1>2, <1>a, AlwaysOneLeft DEF get_resource
  <2> QED
    BY <1>2, <1>a, <2>1, GetKeeps DEF get_resource, NeverStarved
<1>3. ASSUME NEW t \in Threads, release_resource(t)
      PROVE  ListInv' /\ NeverStarved'
  BY <1>3, <1>a, ReleaseKeeps DEF release_resource, NeverStarved
<1>4. ASSUME NEW t \in Threads,
             Accept(t) \/ Preprocess(t) \/ Postprocess(t) \/ Except(t)
      PROVE  ListInv' /\ NeverStarved'
  <2>1. UNCHANGED lists
    BY <1>4 DEF Accept, Preprocess, Postprocess, Except, Reply
  <2>2. PICK l \in {"idle", "parse", "get", "failed"} :
          at' = [at EXCEPT ![t] = l] /\ at[t] # "run"
    BY <1>4 DEF Accept, Preprocess, Postprocess, Except, Reply, Goto
  <2>3. ListsOK' /\ \A u \in Threads : at'[u] = "run" <=> at[u] = "run"
    BY <1>a, <2>1, <2>2 DEF lists, ListsOK
  <2> QED
    BY <1>a, <2>1, <2>3, QuietKeeps DEF lists, NeverStarved
<1>5. CASE Down
  <2>1. Fresh' /\ starved' = starved
    BY <1>5, <1>a DEF Down, Fresh, ListsOK, AllPairs, Pairs
  <2>2. ListInv'
    BY <1>a, <2>1, FreshListsNext DEF InferenceAssumption, Pairs
  <2> QED
    BY <1>a, <2>1, <2>2 DEF NeverStarved
<1>6. ASSUME NEW e \in Engines, Reload(e)
      PROVE  UNCHANGED <<threads, lists>>
  BY <1>6 DEF Reload
<1>7. ASSUME NEW c \in Callers, DetectImageWithYoloFromImage(c)
      PROVE  UNCHANGED <<threads, lists>>
  BY <1>7 DEF DetectImageWithYoloFromImage, DetectOnnx, DetectOther, DetectTensorRT
<1>8. CASE Start
  <2>1. UNCHANGED <<at, lists>>
    BY <1>8 DEF Start
  <2>2. ListsOK'
    BY <1>a, <2>1 DEF lists, ListsOK
  <2> QED
    BY <1>a, <2>1, <2>2, QuietKeeps DEF lists, NeverStarved
<1>9. CASE UNCHANGED vars
  BY <1>1, <1>9 DEF vars
<1> QED
  BY <1>1, <1>2, <1>3, <1>4, <1>5, <1>6, <1>7, <1>8, <1>9 DEF Next, Serve

\* At no time does a thread pop from an empty list, and every context comes with its own
\* stream, however many executions raised before (get_resource and release_resource of
\* server.py).
THEOREM ServiceNeverStarves ==
  ASSUME InferenceAssumption
  PROVE  Spec => [](NeverStarved /\ PairsKept)
<1>1. InferenceAssumption /\ Spec => []ServiceInv
  BY InitLists, StepLists, PTL DEF Spec
<1> QED
  BY <1>1, PTL DEF ServiceInv, ListInv

-----------------------------------------------------------------------------
\* The switch of the engine that breaks the program is a hot reload.
SwitchInv ==
  /\ reloads \in Nat /\ (reloads = 0 => engine = started)
  /\ PanicNeedsSwitch

LEMMA InitSwitch == Init => SwitchInv
BY DEF Init, SwitchInv, PanicNeedsSwitch

LEMMA StepSwitch == SwitchInv /\ [Next]_vars => SwitchInv'
<1> SUFFICES ASSUME SwitchInv, [Next]_vars
             PROVE  SwitchInv'
  OBVIOUS
<1>1. CASE UNCHANGED go
  BY <1>1 DEF go, SwitchInv, PanicNeedsSwitch
<1>2. ASSUME NEW e \in Engines, Reload(e)
      PROVE  SwitchInv'
  BY <1>2 DEF Reload, SwitchInv, PanicNeedsSwitch
<1>3. ASSUME NEW c \in Callers, DetectImageWithYoloFromImage(c)
      PROVE  SwitchInv'
  BY <1>1, <1>3 DEF DetectImageWithYoloFromImage, DetectOnnx, DetectOther,
     DetectTensorRT, SwitchInv, PanicNeedsSwitch
<1>4. ASSUME NEW t \in Threads, Serve(t)
      PROVE  UNCHANGED go
  BY <1>4 DEF Serve, Accept, Preprocess, get_resource, release_resource, Postprocess,
     Except, Reply
<1>5. CASE Down \/ Start \/ UNCHANGED vars
  BY <1>1, <1>5 DEF Down, Start, vars
<1> QED
  BY <1>1, <1>2, <1>3, <1>4, <1>5 DEF Next

\* The program panics in an inference only after a hot reload made it use a client that
\* its start has not prepared (client_grpc.go).
THEOREM PanicNeedsSwitchAlways == Spec => []PanicNeedsSwitch
BY InitSwitch, StepSwitch, PTL DEF Spec, SwitchInv

-----------------------------------------------------------------------------
\* A request is with a thread that is not idle, and with no other.
ThreadServes == \A t \in Threads : at[t] = "idle" <=> serves[t] = NoThing

RequestsTyped ==
  /\ caller \in [Callers -> {"idle", "sent"}]
  /\ queue \in Seq(Callers)
  /\ at \in [Threads -> {"idle", "parse", "get", "run", "failed", "post"}]
  /\ serves \in [Threads -> Callers \union {NoThing}]

\* OneRequestEach needs ThreadServes: a thread that accepts a request has no other one,
\* and one that replies has one.
RequestInv == InferenceAssumption /\ RequestsTyped /\ ThreadServes /\ OneRequestEach

\* The request of a caller that was idle is the last of the queue.
LEMMA SendKeeps ==
  ASSUME RequestInv, NEW c \in Callers, caller[c] = "idle",
         caller' = [caller EXCEPT ![c] = "sent"], queue' = Append(queue, c),
         UNCHANGED <<at, serves>>
  PROVE  RequestsTyped' /\ ThreadServes' /\ OneRequestEach'
<1> USE DEF RequestInv, RequestsTyped
<1> DEFINE n == Len(queue)
<1>1. /\ n \in Nat /\ DOMAIN queue = 1 .. n
      /\ queue' \in Seq(Callers) /\ DOMAIN queue' = 1 .. n + 1
      /\ queue'[n + 1] = c /\ \A i \in 1 .. n : queue'[i] = queue[i]
  OBVIOUS
<1>2. RequestsTyped' /\ ThreadServes'
  BY <1>1 DEF ThreadServes
<1>3. /\ \A i \in DOMAIN queue : queue[i] # c
      /\ \A t \in Threads : serves[t] # c
  BY DEF OneRequestEach
<1>4. \A i, j \in DOMAIN queue' : queue'[i] = queue'[j] => i = j
  <2> SUFFICES ASSUME NEW i \in 1 .. n + 1, NEW j \in 1 .. n + 1, queue'[i] = queue'[j]
               PROVE  i = j
    BY <1>1
  <2>1. CASE i \in 1 .. n /\ j \in 1 .. n
    BY <1>1, <2>1 DEF OneRequestEach
  <2>2. CASE i = n + 1 \/ j = n + 1
    BY <1>1, <1>3, <2>2
  <2> QED
    BY <1>1, <2>1, <2>2
<1>5. \A t \in Threads, i \in DOMAIN queue' : serves'[t] # queue'[i]
  <2> SUFFICES ASSUME NEW t \in Threads, NEW i \in 1 .. n + 1
               PROVE  serves[t] # queue'[i]
    BY <1>1
  <2>1. CASE i \in 1 .. n
    BY <1>1, <2>1 DEF OneRequestEach
  <2>2. CASE i = n + 1
    BY <1>1, <1>3, <2>2
  <2> QED
    BY <1>1, <2>1, <2>2
<1>6. ASSUME NEW d \in Callers
      PROVE  caller'[d] = "sent" <=> \/ \E i \in DOMAIN queue' : queue'[i] = d
                                     \/ \E t \in Threads : serves'[t] = d
  <2>1. CASE d = c
    <3>1. n + 1 \in DOMAIN queue' /\ queue'[n + 1] = d
      BY <1>1, <2>1
    <3> QED
      BY <2>1, <3>1
  <2>2. CASE d # c
    <3>1. (\E i \in DOMAIN queue' : queue'[i] = d) <=> \E i \in DOMAIN queue : queue[i] = d
      BY <1>1, <2>2
    <3> QED
      BY <2>2, <3>1 DEF OneRequestEach
  <2> QED
    BY <2>1, <2>2
<1> QED
  BY <1>2, <1>4, <1>5, <1>6 DEF OneRequestEach

\* The request at the head of the queue goes to a thread that had none.
LEMMA AcceptKeeps ==
  ASSUME RequestInv, NEW t \in Threads, Accept(t)
  PROVE  RequestsTyped' /\ ThreadServes' /\ OneRequestEach'
<1> USE DEF RequestInv, RequestsTyped
<1> DEFINE n == Len(queue)
           c == queue[1]
<1>1. /\ at[t] = "idle" /\ at' = [at EXCEPT ![t] = "parse"]
      /\ serves' = [serves EXCEPT ![t] = c] /\ queue' = Tail(queue)
      /\ caller' = caller /\ queue # << >>
  BY DEF Accept
<1>2. /\ n \in Nat /\ n >= 1 /\ DOMAIN queue = 1 .. n /\ c \in Callers
      /\ queue' \in Seq(Callers) /\ DOMAIN queue' = 1 .. n - 1
      /\ \A i \in 1 .. n - 1 : queue'[i] = queue[i + 1]
  BY <1>1
<1>3. c # NoThing
  BY <1>2 DEF InferenceAssumption
<1>4. \A u \in Threads : serves'[u] = IF u = t THEN c ELSE serves[u]
  BY <1>1
<1>5. RequestsTyped' /\ ThreadServes'
  BY <1>1, <1>2, <1>3 DEF ThreadServes
<1>6. \A i, j \in DOMAIN queue' : queue'[i] = queue'[j] => i = j
  <2> SUFFICES ASSUME NEW i \in 1 .. n - 1, NEW j \in 1 .. n - 1, queue'[i] = queue'[j]
               PROVE  i = j
    BY <1>2
  <2>1. i + 1 \in DOMAIN queue /\ j + 1 \in DOMAIN queue /\ queue[i + 1] = queue[j + 1]
    BY <1>2
  <2>2. i + 1 = j + 1
    BY <2>1 DEF OneRequestEach
  <2> QED
    BY <2>2
<1>7. \A u \in Threads : serves[u] # c
  BY <1>2 DEF OneRequestEach
<1>8. \A u, v \in Threads : serves'[u] = serves'[v] /\ serves'[u] # NoThing => u = v
  BY <1>4, <1>7 DEF OneRequestEach
<1>9. \A i \in 1 .. n - 1 : i + 1 \in DOMAIN queue /\ queue[i + 1] # c
  <2> SUFFICES ASSUME NEW i \in 1 .. n - 1
               PROVE  i + 1 \in DOMAIN queue /\ queue[i + 1] # c
    OBVIOUS
  <2>1. i + 1 \in DOMAIN queue /\ 1 \in DOMAIN queue /\ i + 1 # 1
    BY <1>2
  <2> QED
    BY <2>1 DEF OneRequestEach
<1>10. \A u \in Threads, i \in DOMAIN queue' : serves'[u] # queue'[i]
  <2> SUFFICES ASSUME NEW u \in Threads, NEW i \in 1 .. n - 1
               PROVE  serves'[u] # queue[i + 1]
    BY <1>2
  <2>1. CASE u = t
    BY <1>4, <1>9, <2>1
  <2>2. CASE u # t
    BY <1>4, <1>9, <2>2 DEF OneRequestEach
  <2> QED
    BY <2>1, <2>2
<1>11. ASSUME NEW d \in Callers
       PROVE  caller'[d] = "sent" <=> \/ \E i \in DOMAIN queue' : queue'[i] = d
                                      \/ \E u \in Threads : serves'[u] = d
  <2>1. CASE d = c
    <3>1. caller[d] = "sent"
      BY <1>2, <2>1 DEF OneRequestEach
    <3> QED
      BY <1>1, <1>4, <2>1, <3>1
  <2>2. CASE d # c
    <3>1. (\E i \in DOMAIN queue : queue[i] = d) => \E i \in DOMAIN queue' : queue'[i] = d
      <4> SUFFICES ASSUME NEW i \in 1 .. n, queue[i] = d
                   PROVE  \E j \in 1 .. n - 1 : queue'[j] = d
        BY <1>2
      <4>1. i # 1
        BY <2>2
      <4>2. i - 1 \in 1 .. n - 1 /\ (i - 1) + 1 = i
        BY <1>2, <4>1
      <4>3. queue'[i - 1] = queue[(i - 1) + 1]
        BY <1>2, <4>2
      <4> QED
        BY <4>2, <4>3
    <3>2. (\E i \in DOMAIN queue' : queue'[i] = d) => \E i \in DOMAIN queue : queue[i] = d
      BY <1>2, <1>9
    <3>3. (\E u \in Threads : serves'[u] = d) <=> \E u \in Threads : serves[u] = d
      <4>1. serves[t] = NoThing /\ d # NoThing
        BY <1>1 DEF ThreadServes, InferenceAssumption
      <4> QED
        BY <1>4, <2>2, <4>1
    <3> QED
      BY <1>1, <3>1, <3>2, <3>3 DEF OneRequestEach
  <2> QED
    BY <2>1, <2>2
<1> QED
  BY <1>5, <1>6, <1>8, <1>10, <1>11 DEF OneRequestEach

\* The answer goes to the caller whose request it was, which then has none.
LEMMA ReplyKeeps ==
  ASSUME RequestInv, NEW t \in Threads, NEW o, Reply(t, o), at[t] # "idle"
  PROVE  RequestsTyped' /\ ThreadServes' /\ OneRequestEach'
<1> USE DEF RequestInv, RequestsTyped
<1> DEFINE c == serves[t]
<1>1. /\ at' = [at EXCEPT ![t] = "idle"] /\ serves' = [serves EXCEPT ![t] = NoThing]
      /\ caller' = [caller EXCEPT ![c] = "idle"] /\ queue' = queue
  BY DEF Reply
<1>2. c \in Callers /\ c # NoThing
  BY DEF ThreadServes
<1>3. \A u \in Threads : serves'[u] = IF u = t THEN NoThing ELSE serves[u]
  BY <1>1
<1>4. RequestsTyped' /\ ThreadServes'
  BY <1>1 DEF ThreadServes
<1>5. \A u \in Threads : u # t => serves[u] # c
  BY <1>2 DEF OneRequestEach
<1>6. \A u, v \in Threads : serves'[u] = serves'[v] /\ serves'[u] # NoThing => u = v
  BY <1>3 DEF OneRequestEach
<1>7. \A i \in DOMAIN queue : queue[i] \in Callers /\ queue[i] # NoThing
  BY DEF InferenceAssumption
<1>8. \A u \in Threads, i \in DOMAIN queue' : serves'[u] # queue'[i]
  BY <1>1, <1>3, <1>7 DEF OneRequestEach
<1>9. ASSUME NEW d \in Callers
      PROVE  caller'[d] = "sent" <=> \/ \E i \in DOMAIN queue' : queue'[i] = d
                                     \/ \E u \in Threads : serves'[u] = d
  <2>1. d # NoThing
    BY DEF InferenceAssumption
  <2>2. CASE d = c
    <3>1. \A i \in DOMAIN queue : queue[i] # d
      BY <2>2 DEF OneRequestEach
    <3>2. \A u \in Threads : serves'[u] # d
      BY <1>3, <1>5, <2>1, <2>2
    <3> QED
      BY <1>1, <2>2, <3>1, <3>2
  <2>3. CASE d # c
    <3>1. (\E u \in Threads : serves'[u] = d) <=> \E u \in Threads : serves[u] = d
      BY <1>3, <2>1, <2>3
    <3> QED
      BY <1>1, <2>3, <3>1 DEF OneRequestEach
  <2> QED
    BY <2>2, <2>3
<1>10. \A i, j \in DOMAIN queue' : queue'[i] = queue'[j] => i = j
  BY <1>1 DEF OneRequestEach
<1> QED
  BY <1>4, <1>6, <1>8, <1>9, <1>10 DEF OneRequestEach

\* A thread goes on with its request, or nothing is asked or answered.
LEMMA GoOnKeeps ==
  ASSUME RequestInv, RequestsTyped', UNCHANGED <<caller, queue, serves>>,
         \A t \in Threads : at'[t] = "idle" <=> at[t] = "idle"
  PROVE  ThreadServes' /\ OneRequestEach'
BY DEF RequestInv, ThreadServes, OneRequestEach

\* No requests: the service has just started, or ended.
Idle ==
  /\ queue = << >> /\ at = [t \in Threads |-> "idle"]
  /\ serves = [t \in Threads |-> NoThing] /\ caller = [c \in Callers |-> "idle"]

LEMMA NoRequests == InferenceAssumption /\ Idle => RequestInv
<1> SUFFICES ASSUME InferenceAssumption, Idle
             PROVE  RequestInv
  OBVIOUS
<1>1. queue \in Seq(Callers) /\ DOMAIN queue = {}
  BY DEF Idle
<1>2. RequestsTyped /\ ThreadServes
  BY <1>1 DEF Idle, RequestsTyped, ThreadServes
<1>3. \A c \in Callers : c # NoThing
  BY DEF InferenceAssumption
<1> QED
  BY <1>1, <1>2, <1>3 DEF Idle, RequestInv, OneRequestEach

LEMMA NoRequestsNext == InferenceAssumption' /\ Idle' => RequestInv'
BY NoRequests, PTL

LEMMA InitRequests == InferenceAssumption /\ Init => RequestInv
BY NoRequests DEF Init, Idle

LEMMA StepRequests == RequestInv /\ [Next]_vars => RequestInv'
<1> SUFFICES ASSUME RequestInv, [Next]_vars
             PROVE  RequestsTyped' /\ ThreadServes' /\ OneRequestEach'
  BY DEF RequestInv
<1>1. CASE UNCHANGED <<caller, queue, at, serves>>
  BY <1>1, GoOnKeeps DEF RequestInv, RequestsTyped
<1>2. ASSUME NEW c \in Callers, DetectImageWithYoloFromImage(c)
      PROVE  RequestsTyped' /\ ThreadServes' /\ OneRequestEach'
  <2>1. UNCHANGED <<at, serves>>
    BY <1>2 DEF DetectImageWithYoloFromImage, DetectOnnx, DetectOther, DetectTensorRT,
       threads
  <2>2. CASE UNCHANGED <<caller, queue>>
    BY <1>1, <2>1, <2>2
  <2>3. CASE caller' = [caller EXCEPT ![c] = "sent"] /\ queue' = Append(queue, c)
    BY <1>2, <2>1, <2>3, SendKeeps DEF DetectImageWithYoloFromImage
  <2> QED
    BY <1>2, <2>2, <2>3 DEF DetectImageWithYoloFromImage, DetectOnnx, DetectOther,
       DetectTensorRT, Ends, calls
<1>3. ASSUME NEW t \in Threads, Serve(t)
      PROVE  RequestsTyped' /\ ThreadServes' /\ OneRequestEach'
  <2>1. CASE Accept(t)
    BY <2>1, AcceptKeeps
  <2>2. CASE \E o \in {"boxes", "empty"} : Reply(t, o) /\ at[t] # "idle"
    BY <2>2, ReplyKeeps
  <2>3. ASSUME NEW l \in {"get", "run", "failed", "post"},
               Goto(t, l), at[t] # "idle", UNCHANGED calls
        PROVE  RequestsTyped' /\ ThreadServes' /\ OneRequestEach'
    <3>1. RequestsTyped' /\ \A u \in Threads : at'[u] = "idle" <=> at[u] = "idle"
      BY <2>3 DEF Goto, RequestInv, RequestsTyped, calls
    <3> QED
      BY <2>3, <3>1, GoOnKeeps DEF Goto, calls
  <2>4. CASE Preprocess(t)
    BY <2>3, <2>4 DEF Preprocess
  <2>5. CASE get_resource(t)
    BY <2>3, <2>5 DEF get_resource
  <2>6. CASE release_resource(t)
    BY <2>3, <2>6 DEF release_resource
  <2>7. CASE Postprocess(t)
    BY <2>2, <2>3, <2>7 DEF Postprocess
  <2>8. CASE Except(t)
    BY <2>2, <2>8 DEF Except
  <2> QED
    BY <1>3, <2>1, <2>4, <2>5, <2>6, <2>7, <2>8 DEF Serve
<1>4. CASE Down
  <2>1. /\ queue' = << >> /\ at' = [t \in Threads |-> "idle"]
        /\ serves' = [t \in Threads |-> NoThing] /\ caller' = [c \in Callers |-> "idle"]
    BY <1>4 DEF Down
  <2> QED
    BY <2>1, NoRequestsNext DEF Idle, RequestInv, InferenceAssumption, Pairs
<1>5. ASSUME NEW e \in Engines, Reload(e)
      PROVE  UNCHANGED <<caller, queue, at, serves>>
  BY <1>5 DEF Reload, calls, threads
<1>6. CASE Start
  BY <1>1, <1>6 DEF Start, calls
<1>7. CASE UNCHANGED vars
  BY <1>1, <1>7 DEF vars, calls, threads
<1> QED
  BY <1>1, <1>2, <1>3, <1>4, <1>5, <1>6, <1>7 DEF Next

\* A caller that waits has its request in exactly one place, and an answer goes to the
\* call it was made for, whichever way an execution ends and however often the service
\* restarts (InferService.Infer of server.py under its ThreadPoolExecutor).
THEOREM OneRequestAlways ==
  ASSUME InferenceAssumption
  PROVE  Spec => []OneRequestEach
<1>1. InferenceAssumption /\ Spec => []RequestInv
  BY InitRequests, StepRequests, PTL DEF Spec
<1> QED
  BY <1>1, PTL DEF RequestInv

\* What the callers and the operator of the service rely on.
THEOREM ServiceAlwaysSound ==
  ASSUME InferenceAssumption
  PROVE  Spec => []ServiceSound
BY ServiceNeverStarves, OneRequestAlways, PanicNeedsSwitchAlways, PTL DEF ServiceSound

-----------------------------------------------------------------------------
\* The elements of a list without its last one, if no element is in it twice.
LEMMA ElementsWithoutLast ==
  ASSUME NEW n \in Nat, n # 0, NEW f, NEW g,
         \A i \in 1 .. n - 1 : g[i] = f[i],
         \A i, j \in 1 .. n : f[i] = f[j] => i = j
  PROVE  {g[i] : i \in 1 .. n - 1} = {f[i] : i \in 1 .. n} \ {f[n]}
<1>1. ASSUME NEW i \in 1 .. n - 1
      PROVE  g[i] \in {f[j] : j \in 1 .. n} \ {f[n]}
  <2>1. i \in 1 .. n /\ n \in 1 .. n /\ i # n
    OBVIOUS
  <2> QED
    BY <2>1
<1>2. ASSUME NEW i \in 1 .. n, f[i] # f[n]
      PROVE  f[i] \in {g[j] : j \in 1 .. n - 1}
  <2>1. i \in 1 .. n - 1
    BY <1>2
  <2> QED
    BY <2>1
<1> QED
  BY <1>1, <1>2

\* A step of the service is a step of an Allocator, or changes nothing it knows of.
LEMMA ServiceStep == ServiceInv /\ [Next]_vars => [A!Next]_(A!avars)
<1> SUFFICES ASSUME ServiceInv, [Next]_vars
             PROVE  A!Next \/ UNCHANGED A!avars
  OBVIOUS
<1>a. InferenceAssumption /\ ListInv /\ ListsOK
  BY DEF ServiceInv, ListInv
<1>1. CASE UNCHANGED lists
  BY <1>1 DEF lists, A!avars
<1>2. ASSUME NEW t \in Threads, get_resource(t)
      PROVE  A!Next
  <2> DEFINE last == contexts[Len(contexts)]
             rest == SubSeq(contexts, 1, Len(contexts) - 1)
  <2>1. contexts # << >>
    BY <1>2, <1>a, AlwaysOneLeft DEF get_resource
  <2>2. /\ contexts' = rest /\ ctx' = [ctx EXCEPT ![t] = last] /\ at[t] = "get"
    BY <1>2, <2>1 DEF get_resource
  <2>3. /\ Len(contexts) \in DOMAIN contexts /\ DOMAIN rest = 1 .. Len(contexts) - 1
        /\ \A i \in DOMAIN rest :
             i \in DOMAIN contexts /\ i # Len(contexts) /\ rest[i] = contexts[i]
    BY <1>a, <2>1, PopLast DEF ListsOK
  <2>4. DOMAIN contexts = 1 .. Len(contexts) /\ Len(contexts) \in Nat
    BY <1>a DEF ListsOK
  <2>5. {rest[i] : i \in DOMAIN rest} = {contexts[i] : i \in DOMAIN contexts} \ {last}
    <3>1. \A i, j \in 1 .. Len(contexts) : contexts[i] = contexts[j] => i = j
      BY <1>a, <2>4 DEF ListInv, Exclusive
    <3>2. Len(contexts) # 0 /\ \A i \in 1 .. Len(contexts) - 1 : rest[i] = contexts[i]
      BY <2>3, <2>4
    <3>3. {rest[i] : i \in 1 .. Len(contexts) - 1}
            = {contexts[i] : i \in 1 .. Len(contexts)} \ {last}
      BY <2>4, <3>1, <3>2, ElementsWithoutLast
    <3> HIDE DEF rest, last
    <3> QED
      BY <2>3, <2>4, <3>3
  <2>6. ctx[t] = NoThing
    BY <1>a, <2>2 DEF ListInv, RunHolds
  <2>7. A!Take(t)
    <3>1. last \in {contexts[i] : i \in DOMAIN contexts}
      BY <2>3
    <3>2. {contexts[i] : i \in DOMAIN contexts}'
            = {contexts[i] : i \in DOMAIN contexts} \ {last}
      BY <2>2, <2>5
    <3> HIDE DEF rest, last
    <3> QED
      BY <2>2, <2>6, <3>1, <3>2 DEF A!Take
  <2> QED
    BY <2>7 DEF A!Next
<1>3. ASSUME NEW t \in Threads, release_resource(t)
      PROVE  A!Next
  <2>1. /\ contexts' = Append(contexts, ctx[t]) /\ ctx' = [ctx EXCEPT ![t] = NoThing]
        /\ at[t] = "run"
    BY <1>3 DEF release_resource
  <2>2. ctx[t] # NoThing /\ ctx[t] \in Pairs
    BY <1>a, <2>1 DEF ListInv, RunHolds, ListsOK
  <2>3. {contexts'[i] : i \in DOMAIN contexts'}
          = {contexts[i] : i \in DOMAIN contexts} \union {ctx[t]}
    <3>1. /\ Len(contexts) \in Nat /\ DOMAIN contexts = 1 .. Len(contexts)
          /\ DOMAIN contexts' = 1 .. Len(contexts) + 1
          /\ contexts'[Len(contexts) + 1] = ctx[t]
          /\ \A i \in 1 .. Len(contexts) : contexts'[i] = contexts[i]
      BY <1>a, <2>1, <2>2 DEF ListsOK
    <3> QED
      BY <3>1
  <2>4. A!Give(t)
    BY <2>1, <2>2, <2>3 DEF A!Give
  <2> QED
    BY <2>4 DEF A!Next
<1>4. CASE Down
  <2>1. contexts' = AllPairs /\ ctx' = [t \in Threads |-> NoThing]
    BY <1>4 DEF Down
  <2>2. {contexts'[i] : i \in DOMAIN contexts'} = Pairs
    BY <2>1 DEF AllPairs
  <2>3. A!Renew
    BY <2>1, <2>2 DEF A!Renew
  <2> QED
    BY <2>3 DEF A!Next
<1>5. ASSUME NEW t \in Threads, Accept(t) \/ Preprocess(t) \/ Postprocess(t) \/ Except(t)
      PROVE  UNCHANGED lists
  BY <1>5 DEF Accept, Preprocess, Postprocess, Except, Reply
<1>6. ASSUME NEW e \in Engines, Reload(e)
      PROVE  UNCHANGED lists
  BY <1>6 DEF Reload
<1>7. ASSUME NEW c \in Callers, DetectImageWithYoloFromImage(c)
      PROVE  UNCHANGED lists
  BY <1>7 DEF DetectImageWithYoloFromImage, DetectOnnx, DetectOther, DetectTensorRT
<1>8. CASE Start \/ UNCHANGED vars
  BY <1>1, <1>8 DEF Start, vars
<1> QED
  BY <1>1, <1>2, <1>3, <1>4, <1>5, <1>6, <1>7, <1>8 DEF Next, Serve

LEMMA InitService == Init => A!Init
<1> SUFFICES ASSUME Init
             PROVE  A!Init
  OBVIOUS
<1>1. {contexts[i] : i \in DOMAIN contexts} = Pairs
  BY DEF Init, AllPairs
<1> QED
  BY <1>1 DEF Init, A!Init

\* The two lists under their lock implement the abstract pool of resources, over
\* failures of an execution and of the service.
THEOREM ServiceImplementsAllocator ==
  ASSUME InferenceAssumption
  PROVE  Spec => ImplementsAllocator
<1>1. InferenceAssumption /\ Spec => []ServiceInv
  BY InitLists, StepLists, PTL DEF Spec
<1> QED
  BY <1>1, InitService, ServiceStep, PTL DEF Spec, ImplementsAllocator, A!Spec

-----------------------------------------------------------------------------
(* The pool of ONNX sessions.                                               *)

LEMMA NoSessionApart == NoSession \notin Sessions
BY EnginesAssumption DEF P!PoolAssumption

LEMMA PoolTypeInit == P!Init => P!TypeOK
BY NoSessionApart DEF P!Init, P!TypeOK

LEMMA PoolTypeNext == P!TypeOK /\ [P!Next]_(P!vars) => P!TypeOK'
<1> SUFFICES ASSUME P!TypeOK, [P!Next]_(P!vars)
             PROVE  P!TypeOK'
  OBVIOUS
<1> USE NoSessionApart DEF P!TypeOK
<1>1. ASSUME NEW w \in Workers, P!Lookup(w) \/ P!Busy(w) \/ P!ReceiveNil(w)
      PROVE  P!TypeOK'
  BY <1>1 DEF P!Lookup, P!Busy, P!ReceiveNil, P!MainOther
<1>2. ASSUME NEW w \in Workers, P!Receive(w)
      PROVE  P!TypeOK'
  <2>1. PICK s \in pool : pool' = pool \ {s} /\ has' = [has EXCEPT ![w] = s]
    BY <1>2 DEF P!Receive
  <2> QED
    BY <1>2, <2>1 DEF P!Receive, P!MainOther
<1>3. ASSUME NEW w \in Workers, P!Release(w)
      PROVE  P!TypeOK'
  <2>1. has[w] \in Sessions
    BY <1>3 DEF P!Release
  <2>2. pool' \subseteq Sessions /\ nilSession' \in BOOLEAN
    BY <1>3, <2>1 DEF P!Release
  <2> QED
    BY <1>3, <2>2 DEF P!Release, P!MainOther
<1>4. CASE P!DestroyBegin \/ P!DestroyOne \/ P!DestroyEnd
  BY <1>4 DEF P!DestroyBegin, P!DestroyOne, P!DestroyEnd
<1>5. CASE UNCHANGED P!vars
  BY <1>5 DEF P!vars
<1> QED
  BY <1>1, <1>2, <1>3, <1>4, <1>5 DEF P!Next, P!Worker

\* The type invariant of the pool.
THEOREM PoolTypeCorrect == P!Spec => []P!TypeOK
BY PoolTypeInit, PoolTypeNext, PTL DEF P!Spec

-----------------------------------------------------------------------------
\* The channel is open while the program serves, and is in the map until all of it
\* was drained: a session is returned through the map, so never sent on it closed.
ExitOrder == (open <=> exit = "serving") /\ (mapped <=> exit # "over")

\* What makes SessionsSafe inductive is ExitOrder, by which Release never panics.
PoolInv == P!TypeOK /\ ExitOrder /\ P!SessionsSafe

\* Held, without the set it is defined by.
LEMMA HeldIs ==
  ASSUME P!TypeOK, NEW s \in Sessions
  PROVE  s \in P!Held <=> \E w \in Workers : has[w] = s
BY NoSessionApart DEF P!Held

LEMMA HeldTyped == P!TypeOK => P!Held \subseteq Sessions
BY DEF P!Held, P!TypeOK

\* Another worker has it, so it changes nothing that this one moves.
LEMMA HeldAfter ==
  ASSUME P!TypeOK, P!TypeOK', NEW w \in Workers, NEW x, has' = [has EXCEPT ![w] = x]
  PROVE  \A s \in Sessions :
           s \in P!Held' <=> s = x \/ \E v \in Workers : v # w /\ has[v] = s
<1> SUFFICES ASSUME NEW s \in Sessions
             PROVE  s \in P!Held' <=> s = x \/ \E v \in Workers : v # w /\ has[v] = s
  OBVIOUS
<1>1. s # NoSession
  BY NoSessionApart
<1>2. s \in P!Held' <=> \E v \in Workers : has'[v] = s
  BY <1>1 DEF P!Held
<1>3. \A v \in Workers : has'[v] = IF v = w THEN x ELSE has[v]
  BY DEF P!TypeOK
<1> QED
  BY <1>2, <1>3

LEMMA ReceiveKeeps == ASSUME PoolInv, P!TypeOK', NEW w \in Workers, P!Receive(w) PROVE PoolInv'
<1>1. PICK s \in pool : pool' = pool \ {s} /\ has' = [has EXCEPT ![w] = s]
  BY DEF P!Receive
<1>2. s \in Sessions /\ has[w] = NoSession /\ s # NoSession
  BY <1>1, NoSessionApart DEF PoolInv, P!TypeOK, P!Receive
<1> P!TypeOK
  BY DEF PoolInv
<1>3. \A t \in Sessions : t \in P!Held <=> \E v \in Workers : has[v] = t
  BY HeldIs
<1>4. \A t \in Sessions : t \in P!Held' <=> t = s \/ t \in P!Held
  <2>1. \A t \in Sessions :
          t \in P!Held' <=> t = s \/ \E v \in Workers : v # w /\ has[v] = t
    BY <1>1, HeldAfter
  <2> QED
    BY <1>2, <1>3, <2>1, NoSessionApart
<1>5. P!Held \subseteq Sessions /\ P!Held' \subseteq Sessions
  BY HeldTyped DEF P!Held, P!TypeOK
<1>6. P!Held' = P!Held \union {s}
  BY <1>2, <1>4, <1>5
<1>7. P!ExclusiveSession'
  <2>1. \A v \in Workers : has[v] # s
    BY <1>1, <1>2, HeldIs DEF PoolInv, P!SessionsSafe, P!ExclusiveSession
  <2>2. \A v \in Workers : has'[v] = IF v = w THEN s ELSE has[v]
    BY <1>1 DEF PoolInv, P!TypeOK
  <2>3. \A u, v \in Workers : u # v /\ has'[u] # NoSession => has'[u] # has'[v]
    BY <2>1, <2>2 DEF PoolInv, P!SessionsSafe, P!ExclusiveSession
  <2>4. pool' \intersect P!Held' = {}
    BY <1>1, <1>6 DEF PoolInv, P!SessionsSafe, P!ExclusiveSession
  <2> QED
    BY <2>3, <2>4 DEF P!ExclusiveSession
<1>8. (P!NoUseAfterDestroy /\ P!PoolConserved)'
  BY <1>1, <1>6 DEF PoolInv, P!SessionsSafe, P!NoUseAfterDestroy, P!PoolConserved, P!Receive, P!MainOther
<1>9. (ExitOrder /\ P!PanicOnlyOnExit)'
  BY DEF PoolInv, P!SessionsSafe, ExitOrder, P!PanicOnlyOnExit, P!Receive, P!MainOther, P!Running
<1> QED
  BY <1>7, <1>8, <1>9 DEF PoolInv, P!SessionsSafe

LEMMA ReleasePoolKeeps == ASSUME PoolInv, P!TypeOK', NEW w \in Workers, P!Release(w) PROVE PoolInv'
<1>1. /\ has[w] \in Sessions /\ has[w] # NoSession
      /\ pool' = IF mapped THEN pool \union {has[w]} ELSE pool
      /\ nilSession' = nilSession /\ ~nilSession
      /\ has' = [has EXCEPT ![w] = NoSession]
  BY NoSessionApart DEF PoolInv, P!TypeOK, ExitOrder, P!Release, P!Locked, P!Running
<1> P!TypeOK
  BY DEF PoolInv
<1>2. \A t \in Sessions : t \in P!Held <=> \E v \in Workers : has[v] = t
  BY HeldIs
<1>3. \A v \in Workers : v # w => has[v] # has[w]
  BY <1>1 DEF PoolInv, P!SessionsSafe, P!ExclusiveSession
<1>4. \A t \in Sessions : t \in P!Held' <=> t \in P!Held /\ t # has[w]
  <2>1. \A t \in Sessions :
          t \in P!Held' <=> t = NoSession \/ \E v \in Workers : v # w /\ has[v] = t
    BY <1>1, HeldAfter
  <2> QED
    BY <1>1, <1>2, <1>3, <2>1, NoSessionApart
<1>5. P!Held \subseteq Sessions /\ P!Held' \subseteq Sessions
  BY HeldTyped DEF P!Held, P!TypeOK
<1>6. P!Held' = P!Held \ {has[w]} /\ has[w] \in P!Held
  BY <1>1, <1>2, <1>4, <1>5
<1>7. P!ExclusiveSession'
  <2>1. \A v \in Workers : has'[v] = IF v = w THEN NoSession ELSE has[v]
    BY <1>1 DEF PoolInv, P!TypeOK
  <2>2. \A u, v \in Workers : u # v /\ has'[u] # NoSession => has'[u] # has'[v]
    BY <2>1 DEF PoolInv, P!SessionsSafe, P!ExclusiveSession
  <2>3. pool' \intersect P!Held' = {}
    BY <1>1, <1>6 DEF PoolInv, P!SessionsSafe, P!ExclusiveSession
  <2> QED
    BY <2>2, <2>3 DEF P!ExclusiveSession
<1>8. P!NoUseAfterDestroy'
  BY <1>1, <1>6 DEF PoolInv, P!SessionsSafe, P!NoUseAfterDestroy, P!Release, P!MainOther
<1>9. P!PoolConserved'
  BY <1>1, <1>6 DEF PoolInv, P!SessionsSafe, P!PoolConserved, ExitOrder, P!Release, P!MainOther
<1>10. (ExitOrder /\ P!PanicOnlyOnExit)'
  BY <1>1 DEF PoolInv, ExitOrder, P!PanicOnlyOnExit, P!Release, P!MainOther
<1> QED
  BY <1>7, <1>8, <1>9, <1>10 DEF PoolInv, P!SessionsSafe

\* Steps by which no worker gets or gives a session.
LEMMA OtherPoolKeeps ==
  ASSUME PoolInv, P!TypeOK', UNCHANGED has,
         \/ UNCHANGED P!vars
         \/ \E w \in Workers : P!Lookup(w) \/ P!Busy(w) \/ P!ReceiveNil(w)
         \/ P!DestroyBegin \/ P!DestroyOne \/ P!DestroyEnd
  PROVE  PoolInv'
<1> USE DEF PoolInv, P!SessionsSafe
<1>1. P!Held' = P!Held
  BY DEF P!Held
<1>2. CASE UNCHANGED P!vars
  BY <1>1, <1>2 DEF P!vars, ExitOrder, P!ExclusiveSession, P!NoUseAfterDestroy, P!PoolConserved,
     P!PanicOnlyOnExit
<1>3. ASSUME NEW w \in Workers, P!Lookup(w) \/ P!Busy(w) \/ P!ReceiveNil(w)
      PROVE  PoolInv'
  <2>1. (ExitOrder /\ P!ExclusiveSession /\ P!NoUseAfterDestroy /\ P!PoolConserved)'
    BY <1>1, <1>3 DEF P!Lookup, P!Busy, P!ReceiveNil, P!MainOther, ExitOrder, P!ExclusiveSession,
       P!NoUseAfterDestroy, P!PoolConserved
  <2>2. P!PanicOnlyOnExit'
    BY <1>3 DEF P!Lookup, P!Busy, P!ReceiveNil, P!MainOther, ExitOrder, P!PanicOnlyOnExit, P!Running
  <2> QED
    BY <2>1, <2>2
<1>4. CASE P!DestroyBegin \/ P!DestroyEnd
  BY <1>1, <1>4 DEF P!DestroyBegin, P!DestroyEnd, ExitOrder, P!ExclusiveSession,
     P!NoUseAfterDestroy, P!PoolConserved, P!PanicOnlyOnExit, P!Running
<1>5. CASE P!DestroyOne
  BY <1>1, <1>5 DEF P!DestroyOne, ExitOrder, P!ExclusiveSession, P!NoUseAfterDestroy,
     P!PoolConserved, P!PanicOnlyOnExit, P!Running
<1> QED
  BY <1>2, <1>3, <1>4, <1>5

LEMMA StepPool == PoolInv /\ [P!Next]_(P!vars) => PoolInv'
<1> SUFFICES ASSUME PoolInv, [P!Next]_(P!vars)
             PROVE  PoolInv'
  OBVIOUS
<1>1. P!TypeOK'
  BY PoolTypeNext DEF PoolInv
<1>2. CASE \E w \in Workers : P!Receive(w)
  BY <1>1, <1>2, ReceiveKeeps
<1>3. CASE \E w \in Workers : P!Release(w)
  BY <1>1, <1>3, ReleasePoolKeeps
<1>4. CASE \E w \in Workers : P!Lookup(w) \/ P!Busy(w) \/ P!ReceiveNil(w)
  <2>1. UNCHANGED has
    BY <1>4 DEF P!Lookup, P!Busy, P!ReceiveNil
  <2> QED
    BY <1>1, <1>4, <2>1, OtherPoolKeeps
<1>5. CASE P!DestroyBegin \/ P!DestroyOne \/ P!DestroyEnd \/ UNCHANGED P!vars
  <2>1. UNCHANGED has
    BY <1>5 DEF P!DestroyBegin, P!DestroyOne, P!DestroyEnd, P!vars
  <2> QED
    BY <1>1, <1>5, <2>1, OtherPoolKeeps
<1> QED
  BY <1>2, <1>3, <1>4, <1>5 DEF P!Next, P!Worker

LEMMA InitPool == P!Init => PoolInv
<1> SUFFICES ASSUME P!Init
             PROVE  PoolInv
  OBVIOUS
<1>1. P!TypeOK
  BY PoolTypeInit
<1>2. P!Held = {}
  BY DEF P!Held, P!Init
<1> QED
  BY <1>1, <1>2 DEF P!Init, PoolInv, ExitOrder, P!SessionsSafe, P!ExclusiveSession,
     P!NoUseAfterDestroy, P!PoolConserved, P!PanicOnlyOnExit

\* The invariant holds in every reachable state.
THEOREM PoolInvariance == P!Spec => []PoolInv
BY InitPool, StepPool, PTL DEF P!Spec

\* No session is shared by two inferences, used after it was destroyed or lost while
\* the program serves, and a panic comes only on exit, in a worker that waits
\* (AcquireSession, ReleaseSession and DestroyAllOnnxModels of onnx_util.go).
THEOREM SessionsAlwaysSafe == P!Spec => []SessionsSafe
BY PoolInvariance, PTL DEF PoolInv, SessionsSafe

-----------------------------------------------------------------------------
\* A step of the pool is a step of an Allocator, or changes nothing it knows of.
LEMMA PoolStep == PoolInv /\ [P!Next]_(P!vars) => [P!A!Next]_(P!A!avars)
<1> SUFFICES ASSUME PoolInv, [P!Next]_(P!vars)
             PROVE  P!A!Next \/ UNCHANGED P!A!avars
  OBVIOUS
<1>1. ASSUME NEW w \in Workers, P!Receive(w)
      PROVE  P!A!Next
  <2>1. P!A!Take(w)
    BY <1>1 DEF P!A!Take, P!Receive, P!MainOther, PoolInv, P!TypeOK
  <2> QED
    BY <2>1 DEF P!A!Next
<1>2. ASSUME NEW w \in Workers, P!Release(w)
      PROVE  P!A!Next
  <2>1. has[w] # NoSession
    BY <1>2 DEF P!Release, PoolInv, P!TypeOK
  <2>2. CASE mapped
    <3>1. P!A!Give(w)
      BY <1>2, <2>1, <2>2 DEF P!A!Give, P!Release, P!MainOther, PoolInv, P!TypeOK, ExitOrder, P!Locked
    <3> QED
      BY <3>1 DEF P!A!Next
  <2>3. CASE ~mapped
    <3>1. P!A!Drop(w)
      BY <1>2, <2>1, <2>3 DEF P!A!Drop, P!Release, P!MainOther, PoolInv, ExitOrder
    <3> QED
      BY <3>1 DEF P!A!Next
  <2> QED
    BY <2>2, <2>3
<1>3. ASSUME NEW w \in Workers, P!Lookup(w) \/ P!Busy(w) \/ P!ReceiveNil(w)
      PROVE  UNCHANGED P!A!avars
  BY <1>3 DEF P!Lookup, P!Busy, P!ReceiveNil, P!MainOther, P!A!avars
<1>4. CASE P!DestroyBegin
  <2>1. P!A!Close
    BY <1>4 DEF P!DestroyBegin, P!A!Close
  <2> QED
    BY <2>1 DEF P!A!Next
<1>5. CASE P!DestroyOne
  <2>1. PICK s \in pool : pool' = pool \ {s}
    BY <1>5 DEF P!DestroyOne
  <2>2. P!A!Retire(s) /\ s \in Sessions
    BY <1>5, <2>1 DEF P!DestroyOne, P!A!Retire, PoolInv, P!TypeOK
  <2> QED
    BY <2>2 DEF P!A!Next
<1>6. CASE P!DestroyEnd \/ UNCHANGED P!vars
  BY <1>6 DEF P!DestroyEnd, P!vars, P!A!avars
<1> QED
  BY <1>1, <1>2, <1>3, <1>4, <1>5, <1>6 DEF P!Next, P!Worker

LEMMA InitSessions == P!Init => P!A!Init
BY DEF P!Init, P!A!Init

\* The channel and the map implement the abstract pool of resources.
THEOREM PoolImplementsAllocator == P!Spec => SessionsAllocated
BY InitSessions, PoolStep, PoolInvariance, PTL
   DEF P!Spec, SessionsAllocated, P!ImplementsAllocator, P!A!Spec

-----------------------------------------------------------------------------
\* A step of the instance of the runs moves the service or the sessions, not both.
LEMMA OneEngineSteps == [InferenceNext]_allVars => [Next]_vars /\ [P!Next]_(P!vars)
BY DEF InferenceNext, In, Serving, allVars, sessions, P!vars

LEMMA EnginesInit ==
  InferenceInit => ServiceInv /\ RequestInv /\ SwitchInv /\ PoolInv /\ A!Init /\ P!A!Init
<1> SUFFICES ASSUME InferenceInit
             PROVE  ServiceInv /\ RequestInv /\ SwitchInv /\ PoolInv /\ A!Init /\ P!A!Init
  OBVIOUS
<1>1. InferenceAssumption /\ Init /\ P!Init
  BY EnginesAssumption DEF InferenceInit
<1> QED
  BY <1>1, InitLists, InitRequests, InitSwitch, InitService, InitPool, InitSessions

\* Everything the run checks but the liveness, over both engines of an inference.
THEOREM EnginesAlwaysSafe ==
  InferenceSpec => [](SessionsSafe /\ ServiceSound) /\ SessionsAllocated /\ ImplementsAllocator
<1> DEFINE Inv == ServiceInv /\ RequestInv /\ SwitchInv /\ PoolInv
<1>1. Inv /\ [InferenceNext]_allVars
        => Inv' /\ [A!Next]_(A!avars) /\ [P!A!Next]_(P!A!avars)
  BY OneEngineSteps, StepLists, StepRequests, StepSwitch, StepPool, ServiceStep, PoolStep
<1>2. Inv => SessionsSafe /\ ServiceSound
  BY DEF ServiceInv, ListInv, RequestInv, SwitchInv, PoolInv, SessionsSafe, ServiceSound
<1> HIDE DEF Inv
<1>3. InferenceInit => Inv
  BY EnginesInit DEF Inv
<1> QED
  BY <1>1, <1>2, <1>3, EnginesInit, PTL
     DEF InferenceSpec, SessionsAllocated, ImplementsAllocator, P!ImplementsAllocator,
         A!Spec, P!A!Spec
=============================================================================
