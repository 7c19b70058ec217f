---------------------------- MODULE GlobalHandles ----------------------------
(***************************************************************************)
(* The handles of the global arrays (bspx_global_alloc, bspx_global_free): *)
(* a table of MaxArrays entries that is filled once from the first to the  *)
(* last, after which a free entry is looked for.  All processes make these *)
(* calls alike and come to the same handles, so one table stands for that  *)
(* of each.                                                                *)
(***************************************************************************)
EXTENDS Integers, FiniteSets

CONSTANTS
  MaxArrays,  \* BSP_MAX_GLOBAL_ARRAYS
  MaxAllocs   \* bound: arrays allocated in a run

ASSUME MaxArraysAssumption == MaxArrays \in Nat \ {0} /\ MaxAllocs \in Nat

Handle == 0 .. MaxArrays - 1

(* Arrays have numbers; an entry with local_slice = NULL holds none. *)
NULL == 0
Array == 1 .. MaxAllocs

VARIABLES
  local_slice, \* of each entry of global_arrays: the array it belongs to
  last,        \* global_array_last
  overflow,    \* global_overflow
  handle,      \* the handle the program was given for each array it has
  made,        \* arrays allocated so far
  outcome      \* "running"; "aborted"; "stray" after an access behind the table

vars == <<local_slice, last, overflow, handle, made, outcome>>

(* bspx_init_bspobject *)
Init ==
  /\ local_slice = [s \in Handle |-> NULL]
  /\ last = 0
  /\ overflow = FALSE
  /\ handle = <<>>
  /\ made = 0
  /\ outcome = "running"

(* All entries from s on are in use. *)
UsedFrom(s) == \A t \in s .. MaxArrays - 1 : local_slice[t] # NULL

(* The entry for the next array: while the table has not been full, the    *)
(* one after the last taken; then the first free one from there on.        *)
TakesLast(s) == s = last                \* mutant: the entry is not looked for
Takes(s) ==
  IF overflow THEN /\ s >= last /\ local_slice[s] = NULL
                   /\ \A t \in last .. s - 1 : local_slice[t] # NULL
              ELSE s = last

Allocate(s) ==
  /\ made' = made + 1
  /\ local_slice' = [local_slice EXCEPT ![s] = made']
  /\ handle' = [a \in DOMAIN handle \union {made'} |-> IF a = made' THEN s ELSE handle[a]]
  /\ last' = (s + 1) % MaxArrays
  /\ overflow' = (overflow \/ last' = 0)
  /\ UNCHANGED outcome

Alloc ==
  /\ outcome = "running" /\ made < MaxAllocs
  /\ \E s \in Handle : Takes(s) /\ Allocate(s)

(* The search does not go back to the first entry.  Behind the table it    *)
(* reads what else is in memory: it takes something that looks like a free *)
(* entry, or gives up after so many steps.                                 *)
AllocBehind ==
  /\ outcome = "running" /\ made < MaxAllocs
  /\ overflow /\ UsedFrom(last)
  /\ outcome' \in {"aborted", "stray"}
  /\ UNCHANGED <<local_slice, last, overflow, handle, made>>

(* bspx_global_free, of an array the program has. *)
Free(a) ==
  /\ outcome = "running"
  /\ local_slice' = [local_slice EXCEPT ![handle[a]] = NULL]
  /\ handle' = [b \in DOMAIN handle \ {a} |-> handle[b]]
  /\ UNCHANGED <<last, overflow, made, outcome>>

Over == (outcome # "running" \/ (made = MaxAllocs /\ handle = <<>>)) /\ UNCHANGED vars

Next ==
  \/ Alloc \/ AllocBehind
  \/ \E a \in DOMAIN handle : Free(a)
  \/ Over

Spec == Init /\ [][Next]_vars

-----------------------------------------------------------------------------
(* The entry of a handle the program has is the entry of its array: no     *)
(* later allocation, before or after the table was full, takes it over.    *)
HandlesKeepArrays == \A a \in DOMAIN handle : local_slice[handle[a]] = a

=============================================================================
