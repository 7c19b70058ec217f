--------------------------------- MODULE FFT ---------------------------------
(***************************************************************************)
(* bspfft.c and mpifft.c: the Fourier transform of a vector of n = 2^m     *)
(* numbers in cyclic distribution over p = 2^q < n processes.  A pair of   *)
(* doubles is one number; exp(-2*pi*i/n) is a primitive root of unity of   *)
(* order n.                                                                *)
(***************************************************************************)
EXTENDS Segments, SequencesExt

(* exp(-2*pi*i*j/n), and its conjugate unless sign = 1. *)
Weight(n, j) == Powers[(j * ((Prime - 1) \div n)) % (Prime - 1)]
Conjugate(w, sign) == IF sign = 1 THEN w ELSE Reciprocal(w)

(* The tables.  ufft_init: half the weights of length n; bitrev_init: the  *)
(* bits of j, of which there are as many as n has; k1_init: n divided by   *)
(* the first power of n/p that is not below p; twiddle_init: the weights   *)
(* for the shift (s%c)/c.                                                  *)
ufft_init(n) == Array(n \div 2, LAMBDA j : Weight(n, j))
RECURSIVE Reversed(_, _)
Reversed(n, j) == IF n = 1 THEN 0 ELSE (j % 2) * (n \div 2) + Reversed(n \div 2, j \div 2)
bitrev_init(n) == Array(n, LAMBDA j : Reversed(n, j))
RECURSIVE PowerFrom(_, _, _)
PowerFrom(c, np, p) == IF c < p THEN PowerFrom(c * np, np, p) ELSE c
k1_init(n, p) == n \div PowerFrom(1, n \div p, p)
twiddle_init(np, s, c, rho) == Array(np, LAMBDA j : Weight(np * c, rho[j] * (s % c)))

(* The cycles c = k1, k1*np, ... up to p, and a table for each of them.    *)
RECURSIVE Cycles(_, _, _)
Cycles(c, np, p) == IF c > p THEN <<>> ELSE <<c>> \o Cycles(c * np, np, p)
bspfft_init(n, p, s) ==
  LET np == n \div p
      k1 == k1_init(n, p)
      rho_np == bitrev_init(np)
      cycles == Cycles(k1, np, p)
  IN  [rho_np |-> rho_np, rho_p |-> bitrev_init(p), w0 |-> ufft_init(k1), w |-> ufft_init(np),
       tw |-> [i \in DOMAIN cycles |-> twiddle_init(np, s, cycles[i], rho_np)]]

(* ufft: the butterflies of size k = 2, 4 .. n on n elements from "at" on. *)
RECURSIVE PowersOfTwo(_)
PowersOfTwo(n) == IF n < 2 THEN <<>> ELSE Append(PowersOfTwo(n \div 2), n)
Butterflies(x, at, n, k, sign, w) ==
  [i \in DOMAIN x |->
     LET j == (i - at) % k
         upper == j >= k \div 2
         j0 == IF upper THEN i - k \div 2 ELSE i
         weight == w[(IF upper THEN j - k \div 2 ELSE j) * (n \div k)]
         tau == Conjugate(weight, sign) * x[j0 + k \div 2]
     IN  IF i \notin at .. at + n - 1 THEN x[i]
         ELSE IF upper THEN (x[j0] - tau) % Prime ELSE (x[j0] + tau) % Prime]
ufft(x, at, n, sign, w) ==
  FoldLeft(LAMBDA y, k : Butterflies(y, at, n, k, sign, w), x, PowersOfTwo(n))

(* permute: j and sigma[j] are swapped if j is the smaller.                *)
permute(x, n, sigma) ==
  FoldLeft(LAMBDA y, j : IF j < sigma[j] THEN [y EXCEPT ![j] = y[sigma[j]], ![sigma[j]] = y[j]] ELSE y,
           x, [j \in 1 .. n |-> j - 1])
twiddle(x, sign, w) == [j \in DOMAIN x |-> (Conjugate(w[j], sign) * x[j]) % Prime]

(* bspredistr: from the group-cyclic distribution with cycle c0 to that    *)
(* with cycle c1, in packets of elements that stay together.               *)
IndexByOldCycle(jglob, c0, c1, np) == (jglob % (c1 * np)) \div c0    \* mutant
DestIndex(jglob, c0, c1, np) == (jglob % (c1 * np)) \div c1
bspredistr(x, n, p, s, c0, c1, rev, rho_p) ==
  LET np == n \div p
      ratio == c1 \div c0
      size == IF np \div ratio > 1 THEN np \div ratio ELSE 1
      npackets == np \div size
      from == IF rev THEN rho_p[s] ELSE s
      j0 == from % c0
      j2 == from \div c0
      Packet(j) ==
        LET jglob == j2 * c0 * np + j * c0 + j0
        IN  Puts((jglob \div (c1 * np)) * c1 + (jglob % c1), "x", DestIndex(jglob, c0, c1, np),
                 [r \in 1 .. size |-> x[j + (r-1) * ratio]])
  IN  {Packet(j) : j \in 0 .. npackets - 1}

(* mpiredistr: every process also works out which packet comes from whom,  *)
(* and where it goes; a later packet to a process would replace an earlier.*)
Source(rev, rho_p, q) == IF rev THEN rho_p[q] ELSE q
mpiredistr(m, n, p, s, c0, c1, rev, rho_p) ==
  LET np == n \div p
      ratio == c1 \div c0
      size == IF np \div ratio > 1 THEN np \div ratio ELSE 1
      packets == 0 .. (np \div size) - 1
      from == IF rev THEN rho_p[s] ELSE s
      Out(j) == (from \div c0) * c0 * np + j * c0 + (from % c0)
      destproc(j) == (Out(j) \div (c1 * np)) * c1 + (Out(j) % c1)
      In(r) == (s \div c1) * c1 * np + r * size * c1 + (s % c1)
      srcproc(r) == Source(rev, rho_p, (In(r) \div (c0 * np)) * c0 + (In(r) % c0))
      To(t) == {j \in packets : destproc(j) = t}
      From(t) == {r \in packets : srcproc(r) = t}
      Packet(j) == [r \in 1 .. size |-> m.x[j + (r-1) * ratio]]
  IN  [Segment(m) EXCEPT
         !.give = {Gives(t, IF To(t) = {} THEN <<>> ELSE Packet(Max(To(t)))) : t \in 0 .. p-1},
         !.take = {IF From(t) = {} THEN Takes(t, "x", 0, 0)
                   ELSE Takes(t, "x", Max(From(t)) * size, size) : t \in 0 .. p-1}]

(* bspfft and mpifft: a redistribution before every round of butterflies   *)
(* but the first.  c is the cycle of the next one, c0 that of the last,    *)
(* ntw the number of twiddles done.                                        *)
Scaled(job, x) ==
  IF job.sign = 1 THEN x
  ELSE [j \in DOMAIN x |-> (x[j] * Reciprocal(job.n % Prime)) % Prime]
bspfft(job, s, m, rev, tables) ==
  IF m.c > job.p THEN Ends([m EXCEPT !.x = Scaled(job, m.x)])
  ELSE [Segment(m) EXCEPT !.put = bspredistr(m.x, job.n, job.p, s, m.c0, m.c, rev, tables.rho_p)]
mpifft(job, s, m, rev, tables) ==
  IF m.c > job.p THEN Ends([m EXCEPT !.x = Scaled(job, m.x)])
  ELSE mpiredistr(m, job.n, job.p, s, m.c0, m.c, rev, tables.rho_p)
FirstRound(job, s, tables) ==
  LET np == job.n \div job.p
      k1 == k1_init(job.n, job.p)
      local == permute(Array(np, LAMBDA j : job.x[j * job.p + s]), np, tables.rho_np)
      blocks == [r \in 1 .. np \div k1 |-> (r-1) * k1]
  IN  [x |-> FoldLeft(LAMBDA y, at : ufft(y, at, k1, job.sign, tables.w0), local, blocks),
       c0 |-> 1, c |-> k1, ntw |-> 0]
NextRound(job, m, tables) ==
  LET np == job.n \div job.p
      twiddled == twiddle(m.x, job.sign, tables.tw[m.ntw + 1])
  IN  [x |-> ufft(twiddled, 0, np, job.sign, tables.w), c0 |-> m.c, c |-> m.c * np, ntw |-> m.ntw + 1]
FftSegment(job, i, s, m) ==
  LET tables == bspfft_init(job.n, job.p, s)
      m1 == IF i = 0 THEN FirstRound(job, s, tables) ELSE NextRound(job, m, tables)
  IN  IF job.name = "mpifft" THEN mpifft(job, s, m1, i = 0, tables) ELSE bspfft(job, s, m1, i = 0, tables)

(* The components of y, again in cyclic distribution, are the transform:   *)
(* y[k] = sum exp(-2*pi*i*j*k/n) * x[j], or with +2*pi and divided by n.   *)
FftMeant(job, mem) ==
  \A k \in 0 .. job.n - 1 :
    LET sum == Sum(0 .. job.n - 1, LAMBDA j : Conjugate(Weight(job.n, j * k), job.sign) * job.x[j])
        y == mem[k % job.p].x[k \div job.p]
    IN  (IF job.sign = 1 THEN y ELSE y * job.n) % Prime = sum % Prime

=============================================================================
