---------------------------- MODULE MCRunManifest ----------------------------
(* Instance of RunManifest: a directory the residency executor writes to   *)
(* and one of the movement executor.                                       *)
EXTENDS RunManifest

MCSteps == [residency |-> ResidencySteps, movement |-> MovementSteps]
=============================================================================
