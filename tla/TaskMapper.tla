------------------------------ MODULE TaskMapper ------------------------------
(***************************************************************************)
(* The tables a task mapper fills when it is constructed on node my_node   *)
(* (TaskMapper.h): where each logical processor runs, how many run on a    *)
(* node, and back from a node and a local number to the processor.  Every  *)
(* node builds its own tables, without communication; contexts of          *)
(* different nodes find each other by them.                                *)
(***************************************************************************)
EXTENDS Placement

CONSTANT Sizes     \* the numbers of processors and of nodes to construct for

ASSUME SizesAssumption == Sizes \subseteq [processors : Nat, nprocs : Nat \ {0}]

VARIABLES
  processors, nprocs, my_node,    \* fixed
  loop, p,                        \* the loop the constructor is in, and its index
  where_is_node, where_is_local, where_is_local_here,
  procs_on_node, procs_on_this_node, max_procs_per_node,
  which_global, context_store

args == <<processors, nprocs, my_node>>
places == <<where_is_node, where_is_local, where_is_local_here>>
counts == <<procs_on_node, procs_on_this_node, max_procs_per_node>>
vars == <<args, loop, p, places, counts, which_global, context_store>>

Node == 0 .. nprocs-1
Global == 0 .. processors-1

(* new int[] leaves the places unwritten: 0 here, read only once written. *)
Init ==
  /\ \E size \in Sizes : processors = size.processors /\ nprocs = size.nprocs
  /\ my_node \in Node
  /\ loop = "place" /\ p = 0
  /\ where_is_node = [q \in Global |-> 0]
  /\ where_is_local = [q \in Global |-> 0]
  /\ where_is_local_here = [q \in Global |-> 0]
  /\ procs_on_node = [n \in Node |-> 0]
  /\ procs_on_this_node = 0 /\ max_procs_per_node = 0
  /\ which_global = <<>> /\ context_store = <<>>

(* One round of the first loop. *)
Place ==
  LET n  == NodeOf(processors, nprocs, p)
      lp == LocalOf(processors, nprocs, p)
  IN
  /\ loop = "place" /\ p < processors
  /\ where_is_node' = [where_is_node EXCEPT ![p] = n]
  /\ where_is_local' = [where_is_local EXCEPT ![p] = lp]
  /\ where_is_local_here' = [where_is_local_here EXCEPT ![p] = IF n = my_node THEN lp ELSE -1]
  /\ procs_on_node' = [procs_on_node EXCEPT ![n] = @ + 1]
  /\ procs_on_this_node' = IF n = my_node THEN procs_on_this_node + 1 ELSE procs_on_this_node
  /\ max_procs_per_node' = IF procs_on_node'[n] > max_procs_per_node
                             THEN procs_on_node'[n] ELSE max_procs_per_node
  /\ p' = p + 1
  /\ UNCHANGED <<args, loop, which_global, context_store>>

Allocate ==
  /\ loop = "place" /\ p = processors
  /\ which_global' = [i \in 0 .. nprocs * max_procs_per_node - 1 |-> -1]
  /\ loop' = "index" /\ p' = 0
  /\ UNCHANGED <<args, places, counts, context_store>>

(* The place of a processor in which_global. *)
SlotHere(n, lp) == n * procs_on_this_node + lp       \* mutant: this node's count
Slot(n, lp) == n * max_procs_per_node + lp

(* One round of the second loop. *)
Index ==
  /\ loop = "index" /\ p < processors
  /\ which_global' = [which_global EXCEPT ![Slot(where_is_node[p], where_is_local[p])] = p]
  /\ p' = p + 1
  /\ UNCHANGED <<args, loop, places, counts, context_store>>

(* local_to_global_pid *)
LocalToGlobalFirst(n, lp) == which_global[lp]        \* mutant: always the first node
LocalToGlobal(n, lp) == which_global[Slot(n, lp)]

(* A context for every processor of this node. *)
CreateContexts ==
  /\ loop = "index" /\ p = processors
  /\ context_store' = [lp \in 0 .. procs_on_this_node-1 |-> LocalToGlobal(my_node, lp)]
  /\ loop' = "done"
  /\ UNCHANGED <<args, p, places, counts, which_global>>

Next == Place \/ Allocate \/ Index \/ CreateContexts
Spec == Init /\ [][Next]_vars

-----------------------------------------------------------------------------
(* Both ways of naming a processor agree on every node: the node and local *)
(* number that any context reckons for a destination lead the node that    *)
(* receives to that very processor.                                        *)
TablesInverse ==
  loop = "done" =>
    \A q \in Global : LocalToGlobal(where_is_node[q], where_is_local[q]) = q

(* The contexts of a node are those of the processors mapped to it, each   *)
(* under the local number by which messages and registrations address it.  *)
ContextsAreMine ==
  loop = "done" =>
    /\ DOMAIN context_store = 0 .. procs_on_node[my_node] - 1
    /\ \A q \in Global : where_is_node[q] = my_node =>
         /\ where_is_local_here[q] = where_is_local[q]
         /\ where_is_local[q] \in DOMAIN context_store
         /\ context_store[where_is_local[q]] = q

(* The inductive invariant of the constructor: what the loops have filled  *)
(* in when they have come to p.  The slot of a processor turns out to be   *)
(* the processor itself, since max_procs_per_node is the size of a block   *)
(* as soon as node 0 has a whole block.                                    *)
Mppn == ICD(processors, nprocs)
Placed == IF loop = "place" THEN p ELSE processors
Where(q) == NodeOf(processors, nprocs, q)

(* How many of the first k processors are in the block of node n. *)
Taken(k, n) ==
  IF k <= n * Mppn THEN 0 ELSE IF k >= n * Mppn + Mppn THEN Mppn ELSE k - n * Mppn

Arguments ==
  /\ processors \in Nat /\ nprocs \in Nat \ {0} /\ my_node \in Node
  /\ loop \in {"place", "index", "done"} /\ p \in 0 .. processors

PlacesRight ==
  /\ where_is_node \in [Global -> Int] /\ where_is_local \in [Global -> Int]
  /\ where_is_local_here \in [Global -> Int]
  /\ \A q \in Global : q < Placed =>
       /\ where_is_node[q] = Where(q)
       /\ where_is_local[q] = q - Where(q) * Mppn
       /\ where_is_local_here[q] = IF Where(q) = my_node THEN where_is_local[q] ELSE -1

CountsRight ==
  /\ procs_on_node = [n \in Node |-> Taken(Placed, n)]
  /\ procs_on_this_node = Taken(Placed, my_node)
  /\ max_procs_per_node = IF Placed < Mppn THEN Placed ELSE Mppn

IndexRight ==
  loop # "place" =>
    /\ DOMAIN which_global = 0 .. nprocs * max_procs_per_node - 1
    /\ \A q \in Global : q < p => which_global[q] = q
    /\ loop = "done" =>
         /\ p = processors
         /\ context_store = [lp \in 0 .. procs_on_this_node-1 |-> LocalToGlobal(my_node, lp)]

MapperInv == Arguments /\ PlacesRight /\ CountsRight /\ IndexRight

=============================================================================
