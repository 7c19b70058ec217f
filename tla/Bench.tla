------------------------------- MODULE Bench -------------------------------
(***************************************************************************)
(* bspbench.c, its version with contexts, bspbench.cpp, and mpibench.c:    *)
(* the communication they measure and the line they fit to the times.  In  *)
(* an h-relation every process sends h values and receives h values.  The  *)
(* times are inputs: they lie on the line slope * h + start.               *)
(***************************************************************************)
EXTENDS Segments

Benchmarks == {"bspbench", "bspbench++", "mpibench"}

(* The pattern of bspbench: to the others in turn, into the own part there. *)
DestIndexShared(p, s, i) == i \div (p - 1)        \* mutant
DestProc(p, s, i) == IF p = 1 THEN 0 ELSE (s + 1 + (i % (p-1))) % p
PartIndex(p, s, i) == s + (i \div (p-1)) * p
DestPlace(p, s, i) == IF p = 1 THEN i ELSE PartIndex(p, s, i)
HRelation(p, s, h) == {Puts(DestProc(p, s, i), "dest", DestPlace(p, s, i), <<i>>) : i \in 0 .. h-1}

(* The pattern of mpibench: how many values go to t and come from t.       *)
Share(p, h, isExtra) == (h \div (p-1)) + IF isExtra THEN 1 ELSE 0
NrecvAscending(p, s, h) ==                        \* mutant
  [t \in 0 .. p-1 |-> IF p = 1 THEN h ELSE IF t = s THEN 0
     ELSE Share(p, h, \E i \in 0 .. (h % (p-1)) - 1 : t = (s + 1 + i) % p)]
Nsend(p, s, h) ==
  [t \in 0 .. p-1 |-> IF p = 1 THEN h ELSE IF t = s THEN 0
     ELSE Share(p, h, \E i \in 0 .. (h % (p-1)) - 1 : t = (s + 1 + i) % p)]
Nrecv(p, s, h) ==
  [t \in 0 .. p-1 |-> IF p = 1 THEN h ELSE IF t = s THEN 0
     ELSE Share(p, h, \E i \in 0 .. (h % (p-1)) - 1 : t = (s - 1 - i + p) % p)]
Offset(N, t) == Sum(0 .. t-1, LAMBDA u : N[u])
Alltoallv(p, s, h, m) ==
  LET ns == Nsend(p, s, h)
      nr == Nrecv(p, s, h)
  IN  [Segment(m) EXCEPT
         !.give = {Gives(t, [j \in 1 .. ns[t] |-> Offset(ns, t) + j - 1]) : t \in 0 .. p-1},
         !.take = {Takes(t, "dest", Offset(nr, t), nr[t]) : t \in 0 .. p-1}]

(* The line g*h + l that best fits t[h] for h0 <= h <= h1.                 *)
leastsquares(h0, h1, t) ==
  LET Over(x, y) == (x * Reciprocal(y % Prime)) % Prime
      nh == h1 - h0 + 1
      sumt == Sum(h0 .. h1, LAMBDA h : t[h])
      sumth == Sum(h0 .. h1, LAMBDA h : t[h] * h)
      sumh == (h1*h1 - h0*h0 + h1 + h0) \div 2
      sumhh == (h1 * (h1+1) * (2*h1 + 1) - (h0-1) * h0 * (2*h0 - 1)) \div 6
      a == IF nh > sumh THEN Over(sumh, nh) ELSE Over(nh, sumh)
      g == IF nh > sumh THEN Over(sumth - a*sumt, sumhh - a*sumh) ELSE Over(sumt - a*sumth, sumh - a*sumhh)
      l == IF nh > sumh THEN Over(sumt - sumh*g, nh) ELSE Over(sumth - sumhh*g, sumh)
  IN  [g |-> g, l |-> l]

(* The time of the processor in a round is put to process 0, or gathered.  *)
Start(job) ==
  [Time |-> vecalloc(job.p),
   dest |-> vecalloc(IF job.name = "mpibench" THEN job.MAXH ELSE 2 * job.MAXH + job.p)]
ReportTime(job, s, m) == [Segment(m) EXCEPT !.put = {Puts(0, "Time", s, <<s + 1>>)}]
GatherTime(job, s, m) ==
  [Segment(m) EXCEPT !.give = {Gives(0, <<s + 1>>)},
                     !.take = IF s = 0 THEN {Takes(t, "Time", t, 1) : t \in 0 .. job.p-1} ELSE {}]
Fit(job, s, m) ==
  LET t == Array(job.MAXH + 1, LAMBDA h : (job.slope * h + job.start) % Prime)
  IN  IF s # 0 THEN Ends(m)
      ELSE Ends([Time |-> m.Time, dest |-> m.dest,
                 lines |-> {leastsquares(0, job.p, t), leastsquares(job.p, job.MAXH, t)}])

(* A sync, the rounds that measure r, and for every h a sync and NITERS    *)
(* h-relations.                                                            *)
BenchSegment(job, k, s, m) ==
  LET after == k - job.rounds - 1
      h == after \div (job.NITERS + 1)
      mpi == job.name = "mpibench"
  IN  IF k = 0 THEN Segment(Start(job))
      ELSE IF k <= job.rounds THEN IF mpi THEN GatherTime(job, s, m) ELSE ReportTime(job, s, m)
      ELSE IF h > job.MAXH THEN Fit(job, s, m)
      ELSE IF after % (job.NITERS + 1) = 0 THEN Segment(m)
      ELSE IF mpi THEN Alltoallv(job.p, s, h, m)
      ELSE [Segment(m) EXCEPT !.put = HRelation(job.p, s, h)]

(* Every process has received MAXH values, process 0 all times and the     *)
(* line, over both ranges.                                                 *)
BenchMeant(job, mem) ==
  /\ \A s \in 0 .. job.p - 1 :
       Cardinality({i \in DOMAIN mem[s].dest : mem[s].dest[i] # Undefined}) = job.MAXH
  /\ \A s \in 0 .. job.p - 1 : mem[0].Time[s] = s + 1
  /\ mem[0].lines = {[g |-> job.slope, l |-> job.start]}

=============================================================================
