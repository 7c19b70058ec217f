----------------------------- MODULE MCTaskMapper -----------------------------
(* Up to twelve processors on up to five nodes, seen from every node: even *)
(* and uneven shares, nodes without processors, and no processors at all.  *)
EXTENDS TaskMapper

MCSizes == [processors : 0 .. 12, nprocs : 1 .. 5]

=============================================================================
