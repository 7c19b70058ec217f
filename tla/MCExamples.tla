----------------------------- MODULE MCExamples -----------------------------
(***************************************************************************)
(* Small inputs of the example programs.                                   *)
(***************************************************************************)
EXTENDS Examples

InnerProductJobs == [name : {"inprod", "mpiinprod"}, p : 1 .. 3, n : -1 .. 4]
MirrorJobs == [name : Mirrors, p : 1 .. 3]

(* Matrices with zeros, ones and a larger element, and grids of processes. *)
Matrix(n, V) == [0 .. n-1 -> [0 .. n-1 -> V]]
Grids == {<<1, 1>>, <<2, 1>>, <<1, 2>>, <<2, 2>>}
LuJob(name, g, n, a) == [name |-> name, p |-> g[1] * g[2], M |-> g[1], N |-> g[2], n |-> n, a |-> a]
Rows(q) == [i \in 0 .. Len(q) - 1 |-> [j \in 0 .. Len(q) - 1 |-> q[i+1][j+1]]]
Chosen ==
  {Rows(<<<<0, 2, 1>>, <<1, 1, 0>>, <<3, 0, 2>>>>), Rows(<<<<1, 2, 3>>, <<2, 4, 5>>, <<3, 1, 1>>>>),
   Rows(<<<<0, 0, 1>>, <<0, 1, 0>>, <<1, 0, 0>>>>), Rows(<<<<1, 2, 3>>, <<2, 3, 4>>, <<3, 5, 7>>>>)}
LuJobs ==
  {LuJob(name, g, 2, a) : name \in {"lu", "mpilu"}, g \in Grids, a \in Matrix(2, {0, 1, 3})}
  \union {LuJob(name, g, 2, a)   \* a process without rows, or without columns
         : name \in {"lu", "mpilu"}, g \in {<<3, 1>>, <<1, 3>>}, a \in Matrix(2, {0, 1})}
  \union {LuJob(name, g, 3, a) : name \in {"lu", "mpilu"},
                                g \in Grids \union {<<3, 1>>, <<1, 3>>}, a \in Chosen}

(* The transform is linear: the unit vectors are enough, and one other.    *)
Units(n) == {[j \in 0 .. n-1 |-> IF j = i THEN 1 ELSE 0] : i \in 0 .. n-1}
              \union {[j \in 0 .. n-1 |-> (j * j + 3) % Prime]}
FftJob(name, p, n, sign, x) == [name |-> name, p |-> p, n |-> n, sign |-> sign, x |-> x]
FftJobs ==
  UNION {{FftJob(name, q[1], q[2], sign, x) : name \in {"fft", "mpifft"}, x \in Units(q[2]), sign \in {1, -1}}
         : q \in {<<1, 2>>, <<1, 8>>, <<2, 4>>, <<2, 8>>, <<4, 8>>, <<4, 16>>}}

(* Sparse 2 by 2 matrices on two processes in every distribution, and one  *)
(* of five nonzeros on three processes.                                    *)
MvJob(p, n, a, owner, ofV, ofU) ==
  [name |-> "mv", p |-> p, n |-> n, a |-> a, owner |-> owner,
   v |-> [j \in 0 .. n-1 |-> j + 2], ofV |-> FromZero(ofV), ofU |-> FromZero(ofU)]
Numbered(nz) == [e \in nz |-> 1 + e[1] + 3 * e[2]]
Cells(n) == (0 .. n-1) \X (0 .. n-1)
MvJobs ==
  UNION {{MvJob(2, 2, Numbered(nz), owner, ofV, ofU)
          : owner \in [nz -> 0 .. 1], ofV \in {<<0, 1>>, <<1, 1>>} , ofU \in {<<0, 1>>, <<1, 0>>}}
         : nz \in SUBSET Cells(2)}
  \union
  {MvJob(3, 3, Numbered(nz), [e \in nz |-> (e[1] + 2 * e[2]) % 3], <<2, 0, 2>>, <<1, 2, 0>>)
   : nz \in {{<<0, 0>>, <<0, 2>>, <<1, 1>>, <<2, 0>>, <<2, 2>>}}}

BenchJobs ==
  [name : Benchmarks, p : 1 .. 4, MAXH : {6}, NITERS : {2}, rounds : {2}, slope : {3}, start : {5}]

MCJobs == InnerProductJobs \union MirrorJobs \union LuJobs \union FftJobs \union MvJobs \union BenchJobs

=============================================================================
