------------------------------ MODULE Placement ------------------------------
(***************************************************************************)
(* Where a logical processor of a C++ computation runs (where_is of        *)
(* TaskMapper.h): processors are dealt out to the nodes, the processes of  *)
(* the level-0 library, in blocks of the rounded-up quotient.              *)
(***************************************************************************)
EXTENDS Integers

(* The quotient of two integers, rounded up. *)
ICD(j, k) == (j + k - 1) \div k

(* where_is, the two results. *)
NodeOf(processors, nprocs, global_pid) == global_pid \div ICD(processors, nprocs)
LocalOf(processors, nprocs, global_pid) ==
  global_pid - NodeOf(processors, nprocs, global_pid) * ICD(processors, nprocs)

=============================================================================
