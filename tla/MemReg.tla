------------------------------- MODULE MemReg -------------------------------
(***************************************************************************)
(* The memory register of one process (bsp_memreg.c, bsp_memreg.h): a      *)
(* table with one column per process.  The entries of one row were         *)
(* registered together, by one collective call of bsp_push_reg, so the row *)
(* of a local address gives the address a remote process uses for it.      *)
(*                                                                         *)
(* A register is a function from processes to equally long sequences of    *)
(* addresses.  The removed[] flags only live between the first pop and the *)
(* pack at the end of a bspx_sync, so they are the argument "removed" (a   *)
(* set of rows) of the operators below and no part of the register.        *)
(***************************************************************************)
EXTENDS Integers, Sequences, FiniteSets, SequencesExt

(* Row i of the column holds address a and has not been popped. *)
LiveRow(column, removed, a, i) ==
  i \in DOMAIN column \ removed /\ column[i] = a

HasLiveRow(column, removed, a) == \E i \in DOMAIN column : LiveRow(column, removed, a, i)

(* Both searches run from the last row down to the first. *)
OldestLiveRow(column, removed, a) ==       \* mutant: from the first row up
  CHOOSE i \in DOMAIN column :
    /\ LiveRow(column, removed, a, i)
    /\ \A j \in DOMAIN column : LiveRow(column, removed, a, j) => i <= j
NewestLiveRow(column, removed, a) ==
  CHOOSE i \in DOMAIN column :
    /\ LiveRow(column, removed, a, i)
    /\ \A j \in DOMAIN column : LiveRow(column, removed, a, j) => j <= i

(* memoryRegister_memoized_find: the search from the memoized last row of  *)
(* the column of the local process p, which only looks at addresses.  The  *)
(* caller must know that a is registered: the loop has no other end.       *)
Counterpart(register, p, q, a) == register[q][NewestLiveRow(register[p], {}, a)]

(* memoryRegister_push, for every address received in every column. *)
PushRows(register, pushed) == [q \in DOMAIN register |-> register[q] \o pushed[q]]

(* memoryRegister_pop, for a sequence of addresses of the local column:    *)
(* each marks its newest live row.  Row 0 stands for "no such row", where  *)
(* the code aborts.                                                        *)
PoppedRows(column, popped) ==
  FoldLeft(LAMBDA removed, a :
             removed \union {IF HasLiveRow(column, removed, a)
                               THEN NewestLiveRow(column, removed, a) ELSE 0},
           {}, popped)

(* memoryRegister_pack: the rows that were not popped move together, in    *)
(* every column, and every column gets the length of the first one.        *)
Pack(register, removed) ==
  LET kept     == DOMAIN register[0] \ removed
      Kth(k)   == CHOOSE i \in kept : Cardinality({j \in kept : j <= i}) = k
  IN  [q \in DOMAIN register |->
         [k \in 1 .. Cardinality(kept) |-> register[q][Kth(k)]]]

=============================================================================
