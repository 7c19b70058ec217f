--------------------------------- MODULE LU ---------------------------------
(***************************************************************************)
(* bsplu.c: LU decomposition with partial pivoting of an n by n matrix in  *)
(* M by N cyclic distribution.  Process s + t*M has the rows of s and the  *)
(* columns of t.  A stage has five supersteps, after one that registers.   *)
(***************************************************************************)
EXTENDS Segments

(* bsp_broadcast: x, of length n, from src to the processes s0 + t*stride  *)
(* in blocks, which src deals out in phase 0 and all hand on in phase 1.   *)
Block(n, p0) == IF n % p0 = 0 THEN n \div p0 ELSE n \div p0 + 1
NBytes(n, b, t) == IF b < n - t*b THEN b ELSE n - t*b
bsp_broadcast(var, x, n, src, s0, stride, p0, s, phase) ==
  LET b == Block(n, p0)
      Some(t) == NBytes(n, b, t) > 0
      Piece(dest, t) == Puts(dest, var, t*b, [j \in 1 .. NBytes(n, b, t) |-> x[t*b + j - 1]])
      mine == (s - s0) \div stride
  IN  IF phase = 0
      THEN IF s # src THEN {}
           ELSE {Piece(s0 + t*stride, t) : t \in {u \in 0 .. p0-1 : Some(u)}}
      ELSE IF s % stride # s0 % stride \/ mine \notin 0 .. p0-1 \/ ~Some(mine) THEN {}
           ELSE {Piece(s0 + t*stride, mine) : t \in {u \in 0 .. p0-1 : s0 + u*stride # src}}

(* The process s, t, its rows and columns, and the first of them that are  *)
(* k or behind, by the number of the process.                              *)
S(job, id) == id % job.M
T(job, id) == id \div job.M
Nlr(job, id) == nloc(job.M, S(job, id), job.n)
Nlc(job, id) == nloc(job.N, T(job, id), job.n)
Kr(job, id, k) == nloc(job.M, S(job, id), k)
Kc(job, id, k) == nloc(job.N, T(job, id), k)
InColumn(job, id, k) == k % job.N = T(job, id)
InRow(job, id, k) == k % job.M = S(job, id)

(* a is the array pa, with the local rows one after the other. *)
At(job, id, i, j) == i * Nlc(job, id) + j
Row(job, id, a, i) == [j \in 1 .. Nlc(job, id) |-> a[At(job, id, i, j-1)]]

LuStart(job, id) ==
  LET nlr == Nlr(job, id)  nlc == Nlc(job, id)  s == S(job, id)  t == T(job, id)
  IN  [r |-> vecalloc(1), imax |-> Undefined,
       pa |-> Array(nlr * nlc, LAMBDA x :
                job.a[(x \div nlc) * job.M + s][(x % nlc) * job.N + t]),
       pi |-> IF t = 0 THEN Array(nlr, LAMBDA i : i * job.M + s) ELSE vecalloc(nlr),
       uk |-> vecalloc(nlc), lk |-> vecalloc(nlr),
       Max |-> vecalloc(job.M), Imax |-> vecalloc(job.M)]

(* Superstep 0: the local maximum of column k, the first one if several.   *)
IsFirstMax(V(_), D, i) == /\ V(i) > 0
                          /\ \A j \in D : V(j) < V(i) \/ (V(j) = V(i) /\ i <= j)
RowsBelow(job, id, k) == Kr(job, id, k+1) .. Nlr(job, id) - 1     \* mutant
Searched(job, id, k) == Kr(job, id, k) .. Nlr(job, id) - 1
FindMaximum(job, id, k, m) ==
  LET kc == Kc(job, id, k)
      rows == Searched(job, id, k)
      Abs(i) == m.pa[At(job, id, i, kc)]
      imax == IF \A i \in rows : Abs(i) = 0 THEN -1
              ELSE CHOOSE i \in rows : IsFirstMax(Abs, rows, i)
      max == IF imax = -1 THEN 0 ELSE Abs(imax)
      ToColumn(var, v) ==
        {Puts(s1 + T(job, id) * job.M, var, S(job, id), <<v>>) : s1 \in 0 .. job.M - 1}
  IN  IF ~InColumn(job, id, k) THEN Segment(m)
      ELSE [Segment([m EXCEPT !.imax = imax]) EXCEPT
              !.put = ToColumn("Max", max) \union ToColumn("Imax", imax)]

(* Superstep 1: the global maximum is the pivot; the column is divided by  *)
(* it, and the index of its row goes to all processes.                     *)
DividePivotToo(job, id, k, m, smax) == FALSE     \* mutant: it is not restored
IsPivot(job, id, k, m, smax) == S(job, id) = smax
DivideColumn(job, id, k, m) ==
  LET procs == 0 .. job.M - 1
      Abs(s1) == m.Max[s1]
      smax == CHOOSE s1 \in procs : IsFirstMax(Abs, procs, s1)
      r == m.Imax[smax] * job.M + smax
      pivot == m.Max[smax]
      column == {At(job, id, i, Kc(job, id, k)) : i \in Kr(job, id, k) .. Nlr(job, id) - 1}
      restored == IF IsPivot(job, id, k, m, smax) THEN {At(job, id, m.imax, Kc(job, id, k))} ELSE {}
      divided == [x \in DOMAIN m.pa |->
                    IF x \in restored THEN pivot
                    ELSE IF x \in column THEN (m.pa[x] * Reciprocal(pivot)) % Prime
                    ELSE m.pa[x]]
  IN  IF ~InColumn(job, id, k) THEN Segment(m)
      ELSE IF \A s1 \in procs : Abs(s1) = 0 THEN Aborts(m)
      ELSE [Segment([m EXCEPT !.pa = divided, !.r = Scalar(r)]) EXCEPT
              !.put = {Puts(S(job, id) + t1 * job.M, "r", 0, <<r>>) : t1 \in 0 .. job.N - 1}]

(* Superstep 2: rows k and r are swapped, and so are pi(k) and pi(r).      *)
SwapRows(job, id, k, m) ==
  LET r == m.r[0]
      t == T(job, id)
      RowTo(from, to) ==
        IF ~InRow(job, id, from) THEN {}
        ELSE {Puts((to % job.M) + t * job.M, "pa", (to \div job.M) * Nlc(job, id),
                   Row(job, id, m.pa, from \div job.M))}
             \union IF t # 0 THEN {}
                    ELSE {Puts(to % job.M, "pi", to \div job.M, <<m.pi[from \div job.M]>>)}
  IN  [Segment(m) EXCEPT !.put = RowTo(k, r) \union RowTo(r, k)]

(* Supersteps 3 and 4: column k and row k are broadcast in two phases.     *)
Broadcasts(job, id, k, m, phase) ==
  LET s == S(job, id)  t == T(job, id)
  IN  bsp_broadcast("lk", m.lk, Nlr(job, id) - Kr(job, id, k+1), s + (k % job.N) * job.M,
                    s, job.M, job.N, id, phase)
      \union
      bsp_broadcast("uk", m.uk, Nlc(job, id) - Kc(job, id, k+1), (k % job.M) + t * job.M,
                    t * job.M, 1, job.M, id, phase)
StoreColumnAndRow(job, id, k, m) ==
  LET kr1 == Kr(job, id, k+1)  kc1 == Kc(job, id, k+1)
      lk == [i \in DOMAIN m.lk |->
               IF InColumn(job, id, k) /\ i + kr1 < Nlr(job, id)
               THEN m.pa[At(job, id, i + kr1, Kc(job, id, k))] ELSE m.lk[i]]
      uk == [j \in DOMAIN m.uk |->
               IF InRow(job, id, k) /\ j + kc1 < Nlc(job, id)
               THEN m.pa[At(job, id, Kr(job, id, k), j + kc1)] ELSE m.uk[j]]
  IN  [m EXCEPT !.lk = lk, !.uk = uk]

(* The update of A that ends a stage. *)
Updated(job, id, k, m) ==
  LET kr1 == Kr(job, id, k+1)  kc1 == Kc(job, id, k+1)  nlc == Nlc(job, id)
  IN  [m EXCEPT !.pa = [x \in DOMAIN m.pa |->
         LET i == x \div nlc  j == x % nlc
         IN  IF i >= kr1 /\ j >= kc1
             THEN (m.pa[x] - m.lk[i - kr1] * m.uk[j - kc1]) % Prime ELSE m.pa[x]]]

LuSegment(job, i, id, m) ==
  LET k == (i - 1) \div 5
      superstep == (i - 1) % 5
      m0 == IF k > 0 THEN Updated(job, id, k-1, m) ELSE m
  IN  CASE i = 0 -> Segment(LuStart(job, id))
        [] i > 0 /\ superstep = 0 -> IF k = job.n THEN Ends(m0) ELSE FindMaximum(job, id, k, m0)
        [] i > 0 /\ superstep = 1 -> DivideColumn(job, id, k, m)
        [] i > 0 /\ superstep = 2 -> SwapRows(job, id, k, m)
        [] i > 0 /\ superstep = 3 ->
             LET m3 == StoreColumnAndRow(job, id, k, m)
             IN  [Segment(m3) EXCEPT !.put = Broadcasts(job, id, k, m3, 0)]
        [] i > 0 /\ superstep = 4 -> [Segment(m) EXCEPT !.put = Broadcasts(job, id, k, m, 1)]

(* The rows of A in the order pi are the product of L and U, which the     *)
(* processes have where A was.                                             *)
LuMeant(job, mem) ==
  LET n == job.n
      Entry(i, j) == LET id == (i % job.M) + (j % job.N) * job.M
                     IN  mem[id].pa[At(job, id, i \div job.M, j \div job.N)]
      Pi(i) == mem[i % job.M].pi[i \div job.M]
      L(i, j) == IF i = j THEN 1 ELSE IF i > j THEN Entry(i, j) ELSE 0
      U(i, j) == IF i <= j THEN Entry(i, j) ELSE 0
  IN  \A i, j \in 0 .. n-1 :
        Sum(0 .. n-1, LAMBDA h : L(i, h) * U(h, j)) % Prime = job.a[Pi(i)][j] % Prime

(* The matrix is singular: it takes a vector other than zero to zero.      *)
LuAborts(job) ==
  \E x \in [0 .. job.n - 1 -> 0 .. Prime - 1] :
    /\ \E i \in DOMAIN x : x[i] # 0
    /\ \A i \in 0 .. job.n - 1 :
         Sum(0 .. job.n - 1, LAMBDA j : job.a[i][j] * x[j]) % Prime = 0

=============================================================================
