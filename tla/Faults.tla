------------------------------- MODULE Faults -------------------------------
(***************************************************************************)
(* What the modules of the services share: NULL, and whether statements,   *)
(* connections and processes may fail.                                     *)
(***************************************************************************)
CONSTANTS None, MayFail

ASSUME FaultsAssumption == MayFail \in BOOLEAN
==============================================================================
