---------------------------- MODULE MCGlobalArray ----------------------------
(***************************************************************************)
(* Small instances of GlobalArray in which the slices are full, as in the  *)
(* theorems of BlockProofs: the .cfg file has all values.                  *)
(***************************************************************************)
EXTENDS GlobalArray

ASSUME SlicesAreWhole == WholeSlices

=============================================================================
