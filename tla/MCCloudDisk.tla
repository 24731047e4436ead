---------------------------- MODULE MCCloudDisk ----------------------------
(***************************************************************************)
(* Instances of CloudDisk for TLC.                                         *)
(***************************************************************************)
EXTENDS CloudDisk, TLC

CONSTANTS d1, d2

\* A long file and a short one: written over the long one under its name, the
\* short one leaves a tail.
TwoSizes == (d1 :> 2) @@ (d2 :> 1)
=============================================================================
