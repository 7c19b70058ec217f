------------------------------- MODULE MpiLU -------------------------------
(***************************************************************************)
(* mpilu.c: the LU decomposition of bsplu.c with MPI's operations.  Those  *)
(* of a stage are made among the processes of a row or of a column, or by  *)
(* two processes; the others do not wait.                                  *)
(***************************************************************************)
EXTENDS LU, TLC

RowComm(job, id) == {S(job, id) + t * job.M : t \in 0 .. job.N - 1}
ColComm(job, id) == {s + T(job, id) * job.M : s \in 0 .. job.M - 1}

MpiLuStart(job, id) ==
  [pa |-> LuStart(job, id).pa, pi |-> LuStart(job, id).pi, r |-> vecalloc(1),
   pivot |-> Scalar(0), tmp |-> vecalloc(1), cand |-> vecalloc(2 * job.M),
   uk |-> vecalloc(Nlc(job, id)), lk |-> vecalloc(Nlr(job, id))]

(* Superstep 0: the absolute maximum of the column and the global index of *)
(* its row, or n; MPI_MAXLOC finds the first of the largest.               *)
LocalMaximum(job, id, k, m) ==
  LET Abs(i) == m.pa[At(job, id, i, Kc(job, id, k))]
      rows == {i \in Kr(job, id, k) .. Nlr(job, id) - 1 : Abs(i) > 0}
      imax == CHOOSE i \in rows : IsFirstMax(Abs, rows, i)
      max == IF rows = {} THEN <<0, job.n>> ELSE <<Abs(imax), imax * job.M + S(job, id)>>
  IN  IF InColumn(job, id, k) THEN MPI_Allreduce(m, ColComm(job, id), "cand", max) ELSE GoesOn(m)
MaxLoc(job, m) ==
  CHOOSE c \in {[val |-> m.cand[2*s], idx |-> m.cand[2*s + 1]] : s \in 0 .. job.M - 1} :
    \A s \in 0 .. job.M - 1 :
      \/ m.cand[2*s] < c.val
      \/ m.cand[2*s] = c.val /\ m.cand[2*s + 1] >= c.idx

(* Superstep 1: the process that has the pivot broadcasts it; all divide   *)
(* their column by it, and hand on the index of its row.                   *)
BcastPivot(job, id, k, m) ==
  LET max == MaxLoc(job, m)
      smax == max.idx % job.M
      pivot == IF S(job, id) = smax THEN m.pa[At(job, id, max.idx \div job.M, Kc(job, id, k))] ELSE 0
  IN  IF ~InColumn(job, id, k) THEN GoesOn(m)
      ELSE IF max.val = 0 THEN Aborts(m)
      ELSE MPI_Bcast([m EXCEPT !.r = Scalar(max.idx), !.pivot = Scalar(pivot)], ColComm(job, id),
                     smax + T(job, id) * job.M, id, "pivot", <<pivot>>)
DivideAndBcastRow(job, id, k, m) ==
  LET r == m.r[0]
      kc == Kc(job, id, k)
      restored == IF S(job, id) = r % job.M THEN {At(job, id, r \div job.M, kc)} ELSE {}
      column == {At(job, id, i, kc) : i \in Kr(job, id, k) .. Nlr(job, id) - 1}
      divided == [x \in DOMAIN m.pa |->
                    IF x \in restored THEN m.pivot[0]
                    ELSE IF x \in column THEN (m.pa[x] * Reciprocal(m.pivot[0])) % Prime
                    ELSE m.pa[x]]
      m1 == IF InColumn(job, id, k) THEN [m EXCEPT !.pa = divided] ELSE m
  IN  MPI_Bcast(m1, RowComm(job, id), S(job, id) + (k % job.N) * job.M, id, "r", <<r>>)

(* Superstep 2: of two processes the one with row k sends before it        *)
(* receives, the one with row r receives, into a buffer, before it sends.  *)
MPI_Send(id, m, dest, vals) ==
  [Segment(m) EXCEPT !.comm = {id, dest}, !.give = {Gives(dest, vals)}]
MPI_Recv(id, m, src, var, at, len) ==
  [Segment(m) EXCEPT !.comm = {id, src}, !.take = {Takes(src, var, at, len)}]
SendsFirst(job, id, k) == InRow(job, id, k)
Swap(job, id, k, m, column, var, at, len, buffer, second) ==
  LET r == m.r[0]
      Rank(row) == (row % job.M) + column * job.M
      Vals(row) == [j \in 1 .. len |-> m[var][at[row] + j - 1]]
      FromBuffer == [m EXCEPT ![var] = [x \in DOMAIN @ |->
                       IF x \in at[r] .. at[r] + len - 1 THEN m[buffer][x - at[r]] ELSE @[x]]]
      Exchanged == [m EXCEPT ![var] = [x \in DOMAIN @ |->
                       IF x \in at[r] .. at[r] + len - 1 THEN @[x - at[r] + at[k]]
                       ELSE IF x \in at[k] .. at[k] + len - 1 THEN @[x - at[k] + at[r]] ELSE @[x]]]
  IN  IF k % job.M = r % job.M
      THEN GoesOn(IF InRow(job, id, k) /\ ~second THEN Exchanged ELSE m)
      ELSE IF InRow(job, id, k) \/ InRow(job, id, r)
      THEN IF SendsFirst(job, id, k) = ~second
           THEN IF InRow(job, id, k) THEN MPI_Send(id, m, Rank(r), Vals(k))
                ELSE MPI_Send(id, FromBuffer, Rank(k), Vals(r))
           ELSE IF InRow(job, id, k) THEN MPI_Recv(id, m, Rank(r), var, at[k], len)
                ELSE MPI_Recv(id, m, Rank(k), buffer, 0, len)
      ELSE GoesOn(m)
SwapPi(job, id, k, m, second) ==
  IF T(job, id) # 0 THEN GoesOn(m)
  ELSE Swap(job, id, k, m, 0, "pi", [row \in {k, m.r[0]} |-> row \div job.M], 1, "tmp", second)
SwapRow(job, id, k, m, second) ==
  Swap(job, id, k, m, T(job, id), "pa",
       [row \in {k, m.r[0]} |-> (row \div job.M) * Nlc(job, id)], Nlc(job, id), "uk", second)

(* Supersteps 3 and 4. *)
BcastColumn(job, id, k, m) ==
  LET m3 == StoreColumnAndRow(job, id, k, m)
  IN  MPI_Bcast(m3, RowComm(job, id), S(job, id) + (k % job.N) * job.M, id, "lk",
                [i \in 1 .. Nlr(job, id) - Kr(job, id, k+1) |-> m3.lk[i-1]])
BcastRow(job, id, k, m) ==
  MPI_Bcast(m, ColComm(job, id), (k % job.M) + T(job, id) * job.M, id, "uk",
            [j \in 1 .. Nlc(job, id) - Kc(job, id, k+1) |-> m.uk[j-1]])

MpiLuSegment(job, i, id, m) ==
  LET k == (i - 1) \div 9
      call == (i - 1) % 9
      m0 == IF k > 0 THEN Updated(job, id, k-1, m) ELSE m
  IN  CASE i = 0 -> GoesOn(MpiLuStart(job, id))
        [] i > 0 /\ call = 0 -> IF k = job.n THEN Ends(m0) ELSE LocalMaximum(job, id, k, m0)
        [] i > 0 /\ call = 1 -> BcastPivot(job, id, k, m)
        [] i > 0 /\ call = 2 -> DivideAndBcastRow(job, id, k, m)
        [] i > 0 /\ call \in {3, 4} -> SwapPi(job, id, k, m, call = 4)
        [] i > 0 /\ call \in {5, 6} -> SwapRow(job, id, k, m, call = 6)
        [] i > 0 /\ call = 7 -> BcastColumn(job, id, k, m)
        [] i > 0 /\ call = 8 -> BcastRow(job, id, k, m)

=============================================================================
