------------------------------ MODULE Platform ------------------------------
(***************************************************************************)
(* What the components that run beside the queue have in common: the       *)
(* processes of one deployment, and a bounded number of failures. A        *)
(* command to Redis or Postgres that fails did or did not take effect      *)
(* before it failed; a process that dies loses its local variables.        *)
(***************************************************************************)
EXTENDS Naturals

CONSTANTS
  Host,       \* processes: each runs every poller and serves turns
  MaxFaults   \* bound: failed commands and crashes

ASSUME PlatformAssumption == MaxFaults \in Nat

VARIABLE faults

FaultsOK == faults \in 0..MaxFaults

NoFault == faults = 0

Fault == faults < MaxFaults /\ faults' = faults + 1
=============================================================================
