------------------------------- MODULE MatVec -------------------------------
(***************************************************************************)
(* bspmv.c: the product of a sparse matrix with a vector.  The nonzeros of *)
(* the matrix and the components of the vectors are distributed over the   *)
(* processes in any way.  bspmv_init finds out where the components are,   *)
(* with temporary arrays in cyclic distribution as a directory.            *)
(***************************************************************************)
EXTENDS Segments, SequencesExt

(* The input of a process, as the reader of a distributed matrix prepares  *)
(* it: its nonzeros by rows, its nonempty rows and columns, and the global *)
(* indices of its components.  inc[k] is what takes the column of one      *)
(* nonzero to that of the next, with ncols added for a new row.            *)
Ascending(S) == SetToSortSeq(S, LAMBDA a, b : a < b)
FromZero(q) == Array(Len(q), LAMBDA i : q[i + 1])
OwnedBy(owner, s) == FromZero(Ascending({j \in DOMAIN owner : owner[j] = s}))
Input(job, s) ==
  LET mine == {e \in DOMAIN job.a : job.owner[e] = s}
      rows == FromZero(Ascending({e[1] : e \in mine}))
      cols == FromZero(Ascending({e[2] : e \in mine}))
      ncols == Cardinality(DOMAIN cols)
      Local(q, g) == CHOOSE i \in DOMAIN q : q[i] = g
      nz == SetToSortSeq(mine, LAMBDA e, f : e[1] < f[1] \/ (e[1] = f[1] /\ e[2] < f[2]))
      Place(e) == Local(rows, e[1]) * ncols + Local(cols, e[2])
      inc == Array(Len(nz) + 1, LAMBDA i :
               IF nz = <<>> THEN 0
               ELSE IF i = 0 THEN Place(nz[1])
               ELSE IF i = Len(nz) THEN (Local(rows, nz[i][1]) + 1) * ncols - Place(nz[i])
               ELSE Place(nz[i+1]) - Place(nz[i]))
  IN  [rowindex |-> rows, colindex |-> cols, a |-> Array(Len(nz), LAMBDA i : job.a[nz[i+1]]),
       inc |-> inc, vindex |-> OwnedBy(job.ofV, s), uindex |-> OwnedBy(job.ofU, s)]
Size(x) == Cardinality(DOMAIN x)

(* bspmv_init: the directory is allocated, filled, read and freed.         *)
AllocDirectory(job, s, m) ==
  LET np == nloc(job.p, s, job.n)
      tmp == vecalloc(np)
  IN  Segment(m @@ [tmpprocv |-> tmp, tmpindv |-> tmp, tmpprocu |-> tmp, tmpindu |-> tmp])
WriteDirectory(job, s, m) ==
  LET Entry(glob, proc, ind, i) ==
        {Puts(glob % job.p, proc, glob \div job.p, <<s>>),
         Puts(glob % job.p, ind, glob \div job.p, <<i>>)}
  IN  [Segment(m) EXCEPT !.put =
         UNION ({Entry(m.vindex[j], "tmpprocv", "tmpindv", j) : j \in DOMAIN m.vindex}
                \union {Entry(m.uindex[i], "tmpprocu", "tmpindu", i) : i \in DOMAIN m.uindex})]
ReadDirectory(job, m) ==
  LET Entry(glob, tmp, into, i) == Gets(glob % job.p, tmp, glob \div job.p, into, i)
      cols == DOMAIN m.colindex
      rows == DOMAIN m.rowindex
      local == m @@ [srcprocv |-> vecalloc(Size(m.colindex)), srcindv |-> vecalloc(Size(m.colindex)),
                     destprocu |-> vecalloc(Size(m.rowindex)), destindu |-> vecalloc(Size(m.rowindex))]
  IN  [Segment(local) EXCEPT !.get =
         UNION {{Entry(m.colindex[j], "tmpprocv", "srcprocv", j),
                 Entry(m.colindex[j], "tmpindv", "srcindv", j)} : j \in cols}
         \union
         UNION {{Entry(m.rowindex[i], "tmpprocu", "destprocu", i),
                 Entry(m.rowindex[i], "tmpindu", "destindu", i)} : i \in rows}]

(* bspmv, superstep 0 and 1: v is registered; its components come in.      *)
Register(job, m) ==
  Segment(m @@ [v |-> Array(Size(m.vindex), LAMBDA j : job.v[m.vindex[j]]),
                u |-> Array(Size(m.uindex), LAMBDA i : 0), vloc |-> vecalloc(Size(m.colindex))])
Fanout(m) ==
  [Segment(m) EXCEPT !.get =
     {Gets(m.srcprocv[j], "v", m.srcindv[j], "vloc", j) : j \in DOMAIN m.vloc}]

(* Superstep 2: k runs through the nonzeros and pvloc, moved on by inc,    *)
(* through the columns; it is taken back by ncols at the end of a row.     *)
RowEnd(pvloc, ncols) == pvloc >= ncols
RECURSIVE RowSum(_, _, _, _)
RowSum(m, k, pvloc, sum) ==
  IF RowEnd(pvloc, Size(m.vloc)) THEN [k |-> k, pvloc |-> pvloc - Size(m.vloc), sum |-> sum]
  ELSE RowSum(m, k + 1, pvloc + m.inc[k + 1], sum + m.a[k] * m.vloc[pvloc])
RECURSIVE RowSums(_, _, _, _)
RowSums(m, i, k, pvloc) ==
  IF i = Size(m.rowindex) THEN <<>>
  ELSE LET row == RowSum(m, k, pvloc, 0) IN <<row.sum>> \o RowSums(m, i + 1, row.k, row.pvloc)
Fanin(m) ==
  LET sums == RowSums(m, 0, 0, m.inc[0])
  IN  [Segment(m) EXCEPT !.send =
         {Sends(m.destprocu[i], m.destindu[i], sums[i + 1], i) : i \in DOMAIN m.rowindex}]

(* Superstep 3: the queue is read to its end.                              *)
Summation(m, inbox) ==
  Ends([m EXCEPT !.u = [i \in DOMAIN m.u |->
    m.u[i] + Sum({g \in inbox : g.tag = i}, LAMBDA g : g.val)]])

MatVecSegment(job, k, s, m, inbox) ==
  CASE k = 0 -> AllocDirectory(job, s, Input(job, s))
    [] k = 1 -> WriteDirectory(job, s, m)
    [] k = 2 -> ReadDirectory(job, m)
    [] k = 3 -> Segment(m)
    [] k = 4 -> Register(job, m)
    [] k = 5 -> Fanout(m)
    [] k = 6 -> Fanin(m)
    [] k = 7 -> Summation(m, inbox)

(* u = A v, every component where the distribution of u has it.            *)
MatVecMeant(job, mem) ==
  \A i \in DOMAIN job.ofU :
    LET s == job.ofU[i]
        at == CHOOSE h \in DOMAIN mem[s].uindex : mem[s].uindex[h] = i
    IN  mem[s].u[at] = Sum({e \in DOMAIN job.a : e[1] = i}, LAMBDA e : job.a[e] * job.v[e[2]])

=============================================================================
