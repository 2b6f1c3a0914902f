-------------------------- MODULE MCArrCommandQueue --------------------------
(* Instances of ArrCommandQueue for TLC.                                     *)
EXTENDS ArrCommandQueue
=============================================================================
