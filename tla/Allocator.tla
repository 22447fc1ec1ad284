------------------------------ MODULE Allocator ------------------------------
(***************************************************************************)
(* What a pool of inference resources promises, whatever it is built from: *)
(* a resource is free, with one client, or gone, and none goes before the  *)
(* pool is closed.  SessionPool (a channel of ONNX sessions) and           *)
(* Inference (two Python lists of contexts and streams) implement it.      *)
(***************************************************************************)
CONSTANTS Clients, Resources, Nothing

VARIABLES
  free,    \* the resources nobody has
  holds,   \* per client: its resource, or Nothing
  closed   \* the owner is shutting down

avars == <<free, holds, closed>>

Init ==
  /\ free = Resources /\ closed = FALSE
  /\ holds = [c \in Clients |-> Nothing]

Take(c) ==
  /\ holds[c] = Nothing
  /\ \E r \in free : free' = free \ {r} /\ holds' = [holds EXCEPT ![c] = r]
  /\ UNCHANGED closed

Give(c) ==
  /\ holds[c] # Nothing
  /\ free' = free \union {holds[c]} /\ holds' = [holds EXCEPT ![c] = Nothing]
  /\ UNCHANGED closed

Close == closed' = TRUE /\ UNCHANGED <<free, holds>>

\* A free resource is destroyed.
Retire(r) ==
  /\ closed /\ r \in free
  /\ free' = free \ {r} /\ UNCHANGED <<holds, closed>>

\* A resource comes back after the pool has gone.
Drop(c) ==
  /\ closed /\ holds[c] # Nothing
  /\ holds' = [holds EXCEPT ![c] = Nothing] /\ UNCHANGED <<free, closed>>

\* The process that owns the resources is replaced by a new one.
Renew ==
  /\ ~closed /\ free' = Resources
  /\ holds' = [c \in Clients |-> Nothing] /\ UNCHANGED closed

Next ==
  \/ \E c \in Clients : Take(c) \/ Give(c) \/ Drop(c)
  \/ \E r \in Resources : Retire(r)
  \/ Close
  \/ Renew

Spec == Init /\ [][Next]_avars
=============================================================================
