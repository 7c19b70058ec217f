------------------------------ MODULE MCThreads ------------------------------
(***************************************************************************)
(* Small instances of Threads.  One wrapper stands for those that do alike.*)
(***************************************************************************)
EXTENDS Threads

MCCalls ==
  {"bsp_put", "bsp_get", "bsp_get_tag", "bsp_move", "bsp_hpmove", "bsp_sync", "bsp_reset_buffers",
   "bsp_global_alloc", "bsp_global_free"}

=============================================================================
