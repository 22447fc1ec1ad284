------------------------------ MODULE MediaPath ------------------------------
(***************************************************************************)
(* EnsureMediaMTXPath of videoLinkage.go: the first viewer of a stream     *)
(* marks its path in pathInitMap and configures it in MediaMTX with a      *)
(* PATCH, tried a few times; everybody who finds the mark goes on.         *)
(* MediaMTX is external: it is started with the process (Supervision),     *)
(* answers some time later, keeps what it was told in memory, and is not   *)
(* started again when it ends.                                             *)
(***************************************************************************)
EXTENDS Integers

CONSTANTS
  Viewers,          \* connections to one stream, with recording enabled
  RetryMaxAttempts  \* retryMaxAttempts

\* Assumed where the module is instantiated.
MediaPathAssumption == RetryMaxAttempts \in Nat \ {0}

VARIABLES
  marked,    \* pathInitMap has the path
  at,        \* per viewer: where its handler is
  attempts,  \* per viewer: PATCH requests that failed
  result,    \* per viewer: what EnsureMediaMTXPath returned last
  mtx,       \* MediaMTX: "starting", "up" or "gone"
  path,      \* MediaMTX has the configuration of the path
  spent      \* in this process all attempts of a viewer failed

vars == <<marked, at, attempts, result, mtx, path, spent>>

AtWork == {v \in Viewers : at[v] \in {"dir", "patch"}}

TypeOK ==
  /\ marked \in BOOLEAN /\ path \in BOOLEAN /\ spent \in BOOLEAN
  /\ mtx \in {"starting", "up", "gone"}
  /\ at \in [Viewers -> {"off", "dir", "patch", "serve"}]
  /\ attempts \in [Viewers -> 0 .. RetryMaxAttempts - 1]
  /\ result \in [Viewers -> {"nil", "error", "none"}]
  /\ \A v \in Viewers : at[v] = "serve" <=> result[v] # "none"

\* A process and its MediaMTX.
Fresh ==
  /\ marked' = FALSE /\ spent' = FALSE
  /\ at' = [v \in Viewers |-> "off"] /\ attempts' = [v \in Viewers |-> 0]
  /\ result' = [v \in Viewers |-> "none"]
  /\ mtx' = "starting" /\ path' = FALSE

Init ==
  /\ marked = FALSE /\ spent = FALSE
  /\ at = [v \in Viewers |-> "off"] /\ attempts = [v \in Viewers |-> 0]
  /\ result = [v \in Viewers |-> "none"]
  /\ mtx = "starting" /\ path = FALSE

-----------------------------------------------------------------------------
(* EnsureMediaMTXPath.                                                      *)

Returns(v, value) ==
  /\ at' = [at EXCEPT ![v] = "serve"] /\ attempts' = [attempts EXCEPT ![v] = 0]
  /\ result' = [result EXCEPT ![v] = value]

\* LoadOrStore: the viewer that stores goes on to initialise.
LoadOrStore(v) ==
  /\ at[v] = "off" /\ marked' = TRUE
  /\ IF marked THEN Returns(v, "nil")
     ELSE at' = [at EXCEPT ![v] = "dir"] /\ UNCHANGED <<attempts, result>>
  /\ UNCHANGED <<mtx, path, spent>>

\* Mutation: the mark goes, but the call goes on.
MkdirAllGoesOn(v) ==
  /\ at[v] = "dir" /\ at' = [at EXCEPT ![v] = "patch"]
  /\ marked' \in BOOLEAN
  /\ UNCHANGED <<attempts, result, mtx, path, spent>>

\* Without a directory for the recordings the mark is taken back.
MkdirAll(v) ==
  /\ at[v] = "dir"
  /\ \/ at' = [at EXCEPT ![v] = "patch"] /\ UNCHANGED <<marked, attempts, result>>
     \/ marked' = FALSE /\ Returns(v, "error")
  /\ UNCHANGED <<mtx, path, spent>>

PatchSucceeds(v) ==
  /\ at[v] = "patch" /\ mtx = "up"
  /\ path' = TRUE /\ Returns(v, "nil")
  /\ UNCHANGED <<marked, mtx, spent>>

\* Nobody listens, an error is answered, or the answer is late: the request may
\* have been executed.  After the last attempt the mark stays.
PatchFails(v) ==
  /\ at[v] = "patch"
  /\ path' \in {path, path \/ mtx = "up"}
  /\ IF attempts[v] + 1 = RetryMaxAttempts
     THEN Returns(v, "error") /\ spent' = TRUE
     ELSE /\ attempts' = [attempts EXCEPT ![v] = @ + 1]
          /\ UNCHANGED <<at, result, spent>>
  /\ UNCHANGED <<marked, mtx>>

EnsureMediaMTXPath(v) == LoadOrStore(v) \/ MkdirAll(v) \/ PatchSucceeds(v) \/ PatchFails(v)

-----------------------------------------------------------------------------

\* An error is logged and the handler goes on; in the end the viewer leaves.
Leave(v) ==
  /\ at[v] = "serve" /\ at' = [at EXCEPT ![v] = "off"]
  /\ result' = [result EXCEPT ![v] = "none"]
  /\ UNCHANGED <<marked, attempts, mtx, path, spent>>

MediaMtxUp ==
  /\ mtx = "starting" /\ mtx' = "up"
  /\ UNCHANGED <<marked, at, attempts, result, path, spent>>

MediaMtxEnds ==
  /\ mtx' = "gone" /\ path' = FALSE
  /\ UNCHANGED <<marked, at, attempts, result, spent>>

\* RestartHandler stops MediaMTX and replaces the process.
Restart == Fresh

Next ==
  \/ \E v \in Viewers : EnsureMediaMTXPath(v) \/ Leave(v)
  \/ MediaMtxUp \/ MediaMtxEnds
  \/ Restart

Spec == Init /\ [][Next]_vars

-----------------------------------------------------------------------------
(* Properties.                                                              *)

\* The mark admits one viewer at a time, although it is taken back while others
\* look for it.
OneInitialiser == \A v, w \in AtWork : v = w

\* A mark that nobody is working on stands for a configured path, unless all
\* attempts to configure it failed or MediaMTX has ended since: a directory that
\* could not be made does not keep the next viewer from trying again.
MarkExplained == marked /\ AtWork = {} => path \/ spent \/ mtx = "gone"
=============================================================================
