-------------------------- MODULE MCPlcController --------------------------
(***************************************************************************)
(* Three instances of PlcController in one run: a stop with the two faults *)
(* of the cfg, stop and slow of one direction with one, and a two-way stop *)
(* without the faults that make the cache of coils differ from the device  *)
(* (lost connections are left).  A behaviour belongs to one of them, which *)
(* is chosen in the initial state; the invariants are those of all three.  *)
(***************************************************************************)
EXTENDS PlcController

VARIABLE part

OneDirection == INSTANCE PlcController
  WITH Inputs <- {"forward_stop", "forward_slow"}, MaxFaults <- 1

Lossless == INSTANCE PlcController WITH Inputs <- {"inside_stop"}, FaultKinds <- {}

ControllerInit == part \in {"faulty", "one", "lossless"} /\ Init /\ Lossless!Init

ControllerNext ==
  \/ part = "faulty" /\ Next /\ UNCHANGED part
  \/ part = "one" /\ OneDirection!Next /\ UNCHANGED part
  \/ part = "lossless" /\ Lossless!Next /\ UNCHANGED part

ControllerSpec == ControllerInit /\ [][ControllerNext]_<<vars, part>>

-----------------------------------------------------------------------------
\* See PlcController: if no acknowledgement is lost and the device does not restart,
\* the cache is the device, also over reconnects.
CoherentWhenLossless == part = "lossless" => Lossless!Coherent
=============================================================================
