---------------------------- MODULE InnerProduct ----------------------------
(***************************************************************************)
(* bspinprod.c: the sum of the first n squares as an inner product of two  *)
(* cyclically distributed vectors.  Sums are not reduced modulo Prime.     *)
(***************************************************************************)
EXTENDS Segments, TLC

(* Process 0 reads n, the others get it from there, and all set up their   *)
(* components of x.                                                        *)
ReadN(job, s) ==
  LET m == [n |-> IF s = 0 THEN Scalar(job.n) ELSE vecalloc(1)]
  IN  IF s = 0 /\ job.n < 0 THEN Aborts(m) ELSE Segment(m)
GetN(m) == [Segment(m) EXCEPT !.get = {Gets(0, "n", 0, "n", 0)}]
FillX(job, s, m) ==
  LET nl == nloc(job.p, s, m.n[0])
  IN  Segment([n |-> m.n, x |-> Array(nl, LAMBDA i : i * job.p + s + 1)])

(* bspip: every process puts its partial sum into Inprod of all.           *)
AllocInprod(job, m) == Segment([n |-> m.n, x |-> m.x, Inprod |-> vecalloc(job.p)])
PutPartial(job, s, m) ==
  LET inprod == Sum(0 .. nloc(job.p, s, m.n[0]) - 1, LAMBDA i : m.x[i] * m.x[i])
  IN  [Segment(m) EXCEPT !.put = {Puts(t, "Inprod", s, <<inprod>>) : t \in 0 .. job.p - 1}]
AddPartials(job, m) ==
  Segment([n |-> m.n, alpha |-> Scalar(Sum(0 .. job.p - 1, LAMBDA t : m.Inprod[t]))])

InnerProductSegment(job, k, s, m) ==
  CASE k = 0 -> ReadN(job, s)
    [] k = 1 -> GetN(m)
    [] k = 2 -> FillX(job, s, m)
    [] k = 3 -> AllocInprod(job, m)
    [] k = 4 -> PutPartial(job, s, m)
    [] k = 5 -> AddPartials(job, m)
    [] k = 6 -> Ends(m)

(* mpiinprod.c: the same with MPI_Bcast of n and MPI_Allreduce of the sum. *)
MpiBcastN(job, s) ==
  LET m == [n |-> IF s = 0 THEN Scalar(job.n) ELSE vecalloc(1)]
  IN  IF s = 0 /\ job.n < 0 THEN Aborts(m)
      ELSE MPI_Bcast(m, 0 .. job.p - 1, 0, s, "n", <<job.n>>)
mpiip(job, s, m) ==
  LET inprod == Sum(0 .. nloc(job.p, s, m.n[0]) - 1, LAMBDA i : m.x[i] * m.x[i])
  IN  MPI_Allreduce(m @@ [all |-> vecalloc(job.p)], 0 .. job.p - 1, "all", <<inprod>>)
MpiInnerProductSegment(job, k, s, m) ==
  CASE k = 0 -> MpiBcastN(job, s)
    [] k = 1 -> FillX(job, s, m)
    [] k = 2 -> mpiip(job, s, m)
    [] k = 3 -> Segment(m @@ [alpha |-> Scalar(Sum(0 .. job.p - 1, LAMBDA t : m.all[t]))])
    [] k = 4 -> Ends(m)

(* "The output should equal n*(n+1)*(2n+1)/6", on every process.           *)
InnerProductMeant(job, mem) ==
  \A s \in 0 .. job.p - 1 : 6 * mem[s].alpha[0] = job.n * (job.n + 1) * (2 * job.n + 1)
InnerProductAborts(job) == job.n < 0

=============================================================================
