------------------------------ MODULE Segments ------------------------------
(***************************************************************************)
(* What the example programs have in common.  A program is cut at its      *)
(* calls of bsp_sync (of MPI's operations) into segments; a segment takes  *)
(* the variables of its process to new ones, makes deposits and ends in a  *)
(* bsp_sync, at the end of the program, or in bsp_abort.  Variables are arrays, numbered from   *)
(* zero like those of C; a scalar has one element.                         *)
(*                                                                         *)
(* The deposits of a segment are sets: that their order does not matter is *)
(* a property of the programs (NoConflict).  Floating-point numbers are    *)
(* the integers modulo a prime, where sums, products and quotients are     *)
(* exact and roots of unity exist; their absolute value is an order in     *)
(* which zero is least.                                                    *)
(***************************************************************************)
EXTENDS Integers, Sequences, FiniteSetsExt

CONSTANTS
  Prime,  \* the numbers are those modulo Prime
  Root    \* a primitive root: its powers are all numbers but zero

ASSUME PrimeAssumption ==
  /\ Prime \in Nat /\ Prime > 2 /\ \A d \in 2 .. Prime - 1 : Prime % d # 0
  /\ Root \in 1 .. Prime - 1

(* What newly allocated memory holds. *)
Undefined == -999

Array(n, Elem(_)) == [i \in 0 .. n-1 |-> Elem(i)]
vecalloc(n) == Array(n, LAMBDA i : Undefined)
Scalar(v) == Array(1, LAMBDA i : v)

(* A segment ends in a call that all processes make (comm is empty) or in  *)
(* one of MPI's that the processes comm make together.                     *)
Segment(mem) ==
  [mem |-> mem, put |-> {}, get |-> {}, send |-> {}, give |-> {}, take |-> {},
   comm |-> {}, next |-> "sync"]
GoesOn(mem) == [Segment(mem) EXCEPT !.next = "compute"]
Ends(mem) == [Segment(mem) EXCEPT !.next = "end"]
Aborts(mem) == [Segment(mem) EXCEPT !.next = "abort"]

(* vals to the locations of var on process "to" from index "at" on. *)
Puts(to, var, at, vals) == [to |-> to, var |-> var, at |-> at, vals |-> vals]
(* The element at index "at" of var on process "from", into var "into". *)
Gets(from, var, at, into, ix) == [from |-> from, var |-> var, at |-> at, into |-> into, ix |-> ix]
(* A message; nr tells apart the messages of a process. *)
Sends(to, tag, val, nr) == [to |-> to, tag |-> tag, val |-> val, nr |-> nr]

(* In a collective call, or in MPI_Send and MPI_Recv: vals for process     *)
(* "to"; len values from process "from" into var from index "at" on.       *)
Gives(to, vals) == [to |-> to, vals |-> vals]
Takes(from, var, at, len) == [from |-> from, var |-> var, at |-> at, len |-> len]
(* MPI_Bcast among the processes comm: of vals, to the beginning of var.   *)
MPI_Bcast(mem, comm, root, s, var, vals) ==
  [Segment(mem) EXCEPT
     !.comm = comm,
     !.give = IF s = root THEN {Gives(t, vals) : t \in comm \ {root}} ELSE {},
     !.take = IF s = root THEN {} ELSE {Takes(root, var, 0, Len(vals))}]
(* MPI_Allreduce among the processes comm: the contributions of all are in *)
(* var, in the order of the processes, for the segment after it to reduce. *)
MPI_Allreduce(mem, comm, var, vals) ==
  LET Rank(t) == Cardinality({c \in comm : c < t})
  IN  [Segment(mem) EXCEPT
         !.comm = comm,
         !.give = {Gives(t, vals) : t \in comm},
         !.take = {Takes(t, var, Rank(t) * Len(vals), Len(vals)) : t \in comm}]

(* The local components of a cyclically distributed vector of length n.    *)
nloc(p, s, n) == (n + p - s - 1) \div p

Sum(S, Term(_)) == FoldSet(LAMBDA i, acc : Term(i) + acc, 0, S)
Reciprocal(x) == CHOOSE y \in 1 .. Prime - 1 : (x * y) % Prime = 1

(* Root to the power e, from a table. *)
Powers ==
  LET pow[e \in 0 .. Prime - 2] == IF e = 0 THEN 1 ELSE (pow[e-1] * Root) % Prime
  IN  [e \in 0 .. Prime - 2 |-> pow[e]]

=============================================================================
