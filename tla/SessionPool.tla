---------------------------- MODULE SessionPool ----------------------------
(***************************************************************************)
(* pkg/common/onnx_util.go: the pool of inference sessions and its users,  *)
(* the inference goroutines (DetectImageWithYoloFromImage), while main     *)
(* destroys it on exit.  The pool is a channel found through OnnxModels;   *)
(* ModelsMu guards that map, not the channel: AcquireSession unlocks       *)
(* before it receives.                                                     *)
(***************************************************************************)
CONSTANTS
  Workers,   \* the inference goroutines
  Sessions,  \* the sessions InitOnnxModels creates (max-concurrency of them)
  NoSession  \* nil

PoolAssumption == NoSession \notin Sessions

VARIABLES
  mapped,     \* OnnxModels has the pool
  open,       \* its channel is open
  pool,       \* the sessions in the channel
  destroyed,  \* the sessions that were destroyed
  exit,       \* where DestroyAllOnnxModels is
  at,         \* per worker: where it is in DetectImageWithYoloFromImage
  has,        \* per worker: its session
  panicked    \* a goroutine dereferenced nil or sent on a closed channel

vars == <<mapped, open, pool, destroyed, exit, at, has, panicked>>

TypeOK ==
  /\ mapped \in BOOLEAN /\ open \in BOOLEAN
  /\ pool \subseteq Sessions /\ destroyed \subseteq Sessions
  /\ exit \in {"serving", "draining", "over"}
  /\ at \in [Workers -> {"idle", "wait", "run"}]
  /\ has \in [Workers -> Sessions \union {NoSession}]
  /\ panicked \in BOOLEAN
  /\ \A w \in Workers : at[w] = "run" <=> has[w] # NoSession

\* InitOnnxModels has filled the pool.
Init ==
  /\ mapped = TRUE /\ open = TRUE
  /\ pool = Sessions /\ destroyed = {}
  /\ exit = "serving"
  /\ at = [w \in Workers |-> "idle"] /\ has = [w \in Workers |-> NoSession]
  /\ panicked = FALSE

\* DestroyAllOnnxModels holds ModelsMu from its first statement to its last.
Locked == exit = "draining"

MainOther == UNCHANGED <<mapped, open, destroyed, exit>>
Running == ~panicked

-----------------------------------------------------------------------------
(* AcquireSession and ReleaseSession.                                       *)

\* The pool is looked up; without one the call fails and the worker is idle.
Lookup(w) ==
  /\ Running /\ at[w] = "idle" /\ ~Locked
  /\ mapped
  /\ at' = [at EXCEPT ![w] = "wait"]
  /\ UNCHANGED <<pool, has, panicked>> /\ MainOther

Receive(w) ==
  /\ Running /\ at[w] = "wait"
  /\ \E s \in pool :
       /\ pool' = pool \ {s}
       /\ has' = [has EXCEPT ![w] = s]
  /\ at' = [at EXCEPT ![w] = "run"]
  /\ UNCHANGED panicked /\ MainOther

\* A closed and empty channel yields nil at once; session.Input panics.
ReceiveNil(w) ==
  /\ Running /\ at[w] = "wait" /\ ~open /\ pool = {}
  /\ panicked' = TRUE
  /\ UNCHANGED <<pool, at, has>> /\ MainOther

\* 500 ms have passed.
Busy(w) ==
  /\ Running /\ at[w] = "wait"
  /\ at' = [at EXCEPT ![w] = "idle"]
  /\ UNCHANGED <<pool, has, panicked>> /\ MainOther

\* Mutation: a failed inference keeps its session.
ReleaseForgotten(w) ==
  /\ Running /\ at[w] = "run" /\ ~Locked
  /\ \E failed \in BOOLEAN :
       pool' = IF mapped /\ ~failed THEN pool \union {has[w]} ELSE pool
  /\ at' = [at EXCEPT ![w] = "idle"]
  /\ has' = [has EXCEPT ![w] = NoSession]
  /\ UNCHANGED panicked /\ MainOther

\* The deferred release, however the inference ended.  The channel has room for
\* every session.  Without a pool the session is left to nobody.
Release(w) ==
  /\ Running /\ at[w] = "run" /\ ~Locked
  /\ IF mapped /\ ~open
     THEN panicked' = TRUE /\ UNCHANGED pool
     ELSE /\ pool' = IF mapped THEN pool \union {has[w]} ELSE pool
          /\ UNCHANGED panicked
  /\ at' = [at EXCEPT ![w] = "idle"]
  /\ has' = [has EXCEPT ![w] = NoSession]
  /\ MainOther

Worker(w) == Lookup(w) \/ Receive(w) \/ ReceiveNil(w) \/ Busy(w) \/ Release(w)

-----------------------------------------------------------------------------
(* DestroyAllOnnxModels.                                                    *)

DestroyBegin ==
  /\ Running /\ exit = "serving"
  /\ exit' = "draining" /\ open' = FALSE
  /\ UNCHANGED <<mapped, pool, destroyed, at, has, panicked>>

\* Mutation: every session is destroyed, whoever holds it.
DestroyAll ==
  /\ Running /\ exit = "draining" /\ pool # {}
  /\ pool' = {} /\ destroyed' = Sessions
  /\ UNCHANGED <<mapped, open, exit, at, has, panicked>>

\* for s := range pool.Pool
DestroyOne ==
  /\ Running /\ exit = "draining"
  /\ \E s \in pool : pool' = pool \ {s} /\ destroyed' = destroyed \union {s}
  /\ UNCHANGED <<mapped, open, exit, at, has, panicked>>

\* The map is emptied, the environment destroyed, ModelsMu unlocked.
DestroyEnd ==
  /\ Running /\ exit = "draining" /\ pool = {}
  /\ exit' = "over" /\ mapped' = FALSE
  /\ UNCHANGED <<open, pool, destroyed, at, has, panicked>>

Next ==
  \/ \E w \in Workers : Worker(w)
  \/ DestroyBegin \/ DestroyOne \/ DestroyEnd

Spec == Init /\ [][Next]_vars

-----------------------------------------------------------------------------
(* Properties.                                                              *)

Held == {has[w] : w \in Workers} \ {NoSession}

\* A session is in one place: the tensors of a session are never shared by two
\* inferences, nor offered while one of them uses it.
ExclusiveSession ==
  /\ \A v, w \in Workers : v # w /\ has[v] # NoSession => has[v] # has[w]
  /\ pool \intersect Held = {}

\* No worker runs a session that was destroyed, although the pool is drained
\* while workers still receive from it.
NoUseAfterDestroy == destroyed \intersect (Held \union pool) = {}

\* As long as the program serves, no session is lost, whichever way an inference
\* ends: the pool never shrinks.
PoolConserved == exit = "serving" => pool \union Held = Sessions

\* The program serves without a panic.  The only one there is comes on exit, in
\* a worker that waits for a session and finds the channel closed: a session is
\* returned through the map, and so never sent on the closed channel.
PanicOnlyOnExit == panicked => exit # "serving" /\ \E w \in Workers : at[w] = "wait"

\* The four together: what an inference goroutine relies on.
SessionsSafe == ExclusiveSession /\ NoUseAfterDestroy /\ PoolConserved /\ PanicOnlyOnExit

\* The channel and the map are an Allocator of sessions, closed by the exit.
A == INSTANCE Allocator
       WITH Clients <- Workers, Resources <- Sessions, Nothing <- NoSession,
            free <- pool, holds <- has, closed <- exit # "serving"
ImplementsAllocator == A!Spec
=============================================================================
