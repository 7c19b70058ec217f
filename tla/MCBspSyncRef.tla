----------------------------- MODULE MCBspSyncRef -----------------------------
(***************************************************************************)
(* Small instances of BspSyncRef, with the programs of MCBspSync.          *)
(***************************************************************************)
EXTENDS MCBspSync, BspSyncRef

=============================================================================
