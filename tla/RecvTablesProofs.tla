-------------------------- MODULE RecvTablesProofs --------------------------
(***************************************************************************)
(* Proofs about RecvTables, for any number of processes, calls and         *)
(* supersteps and any sizes: no table is written beyond its rows, and none *)
(* grows without need.                                                     *)
(***************************************************************************)
EXTENDS RecvTables, Recursion, SequenceTheorems

-----------------------------------------------------------------------------
(* The largest of the numbers a table has for its columns. *)
LEMMA MostOfColumns ==
  ASSUME NEW columns \in [Proc -> Nat]
  PROVE  /\ Most(columns) \in Nat
         /\ \A q \in Proc : columns[q] <= Most(columns)
         /\ \E q \in Proc : Most(columns) = columns[q]
<1>1. IsLargest(Max({columns[q] : q \in 0 .. N-1}), columns, 0 .. N-1)
  BY NAssumption, LargestOfFamily DEF Proc
<1> QED BY <1>1 DEF Most, Proc, IsLargest

-----------------------------------------------------------------------------
(* Pushing into a delivery table. *)

Table == [rows : Nat, used : [Proc -> AtLeastIndex]]
Fit(t) == \A q \in Proc : t.used[q] <= t.rows

(* A table that has grown from t is no more than twice as large as one of  *)
(* its columns needs.                                                      *)
GrownFrom(t, r) ==
  /\ \A q \in Proc : t.used[q] <= r.used[q]
  /\ r.rows = t.rows \/ \E q \in Proc : r.rows <= 2 * r.used[q]

LEMMA GrownFromTransitive ==
  ASSUME NEW t \in Table, NEW r \in Table, NEW s \in Table, GrownFrom(t, r), GrownFrom(r, s)
  PROVE  GrownFrom(t, s)
BY DEF GrownFrom, Table, AtLeastIndex

LEMMA SlotsOfElement ==
  ASSUME NEW size \in Sizes
  PROVE  DelivSlots(size) \in Nat /\ DelivSlots(size) <= size + ElementBytes
BY SizesAssumption DEF DelivSlots, no_slots, SlotBytes, ElementBytes

LEMMA PushedRows ==
  ASSUME NEW t \in Table, NEW q \in Proc, NEW size \in Sizes
  PROVE  /\ Pushed(t, q, size).rows \in Nat
         /\ Pushed(t, q, size).rows >= t.rows
         /\ Pushed(t, q, size).rows >= t.used[q] + DelivSlots(size)
         /\ Pushed(t, q, size).used = [t.used EXCEPT ![q] = @ + DelivSlots(size)]
         /\ \/ Pushed(t, q, size).rows = t.rows
            \/ Pushed(t, q, size).rows <= 2 * (t.used[q] + DelivSlots(size))
<1> DEFINE object == DelivSlots(size)
           free == t.rows - t.used[q]
           r == Pushed(t, q, size)
<1>1. object \in Nat /\ t.rows \in Nat /\ t.used[q] \in Nat
  BY SlotsOfElement DEF Table, AtLeastIndex
<1>2. r.used = [t.used EXCEPT ![q] = @ + object]
  BY DEF Pushed
<1>3. r.rows = IF object > free THEN t.rows + (IF t.rows >= object - free THEN t.rows ELSE object - free)
               ELSE t.rows
  <2>1. Max({t.rows, object - free}) = IF t.rows >= object - free THEN t.rows ELSE object - free
    BY <1>1, MaxOfTwo
  <2> HIDE DEF object
  <2>2. r.rows = IF object > free THEN t.rows + Max({t.rows, object - free}) ELSE t.rows
    BY DEF Pushed, object
  <2> QED BY <2>1, <2>2
<1> HIDE DEF object, r
<1>4. /\ r.rows \in Nat /\ r.rows >= t.rows /\ r.rows >= t.used[q] + object
      /\ r.rows = t.rows \/ r.rows <= 2 * (t.used[q] + object)
  BY <1>1, <1>3
<1> QED BY <1>2, <1>4 DEF object, r

LEMMA PushedFits ==
  ASSUME NEW t \in Table, NEW q \in Proc, NEW size \in Sizes
  PROVE  /\ Pushed(t, q, size) \in Table
         /\ Pushed(t, q, size).used = [t.used EXCEPT ![q] = @ + DelivSlots(size)]
         /\ Fit(t) => Fit(Pushed(t, q, size))
         /\ GrownFrom(t, Pushed(t, q, size))
<1> DEFINE object == DelivSlots(size)
           r == Pushed(t, q, size)
<1>1. object \in Nat /\ t.rows \in Nat /\ t.used[q] \in Nat /\ t.used[q] >= IndexSlots
  BY SlotsOfElement DEF Table, AtLeastIndex
<1>2. r.used = [t.used EXCEPT ![q] = @ + object]
  BY DEF Pushed
<1>4. r.rows \in Nat /\ r.rows >= t.rows /\ r.rows >= t.used[q] + object
  BY PushedRows
<1> HIDE DEF object
<1>5. r.used \in [Proc -> AtLeastIndex] /\ r.used[q] = t.used[q] + object
      /\ \A p \in Proc \ {q} : r.used[p] = t.used[p]
  <2>1. t.used \in [Proc -> AtLeastIndex]
    BY DEF Table
  <2>2. t.used[q] + object \in AtLeastIndex
    BY <1>1 DEF AtLeastIndex, IndexSlots
  <2> HIDE DEF r
  <2> QED BY <1>2, <2>1, <2>2
<1>6. r \in Table
  <2>1. r = [rows |-> r.rows, used |-> r.used]
    BY DEF Pushed
  <2> HIDE DEF r
  <2> QED BY <1>4, <1>5, <2>1 DEF Table
<1>7. Fit(t) => Fit(r)
  <2> HIDE DEF r
  <2> QED BY <1>1, <1>4, <1>5 DEF Fit, Table, AtLeastIndex
<1>8. r.rows = t.rows \/ r.rows <= 2 * r.used[q]
  <2>1. r.rows = t.rows \/ r.rows <= 2 * (t.used[q] + object)
    BY PushedRows DEF object
  <2> HIDE DEF r
  <2> QED BY <1>5, <2>1
<1>9. GrownFrom(t, r)
  <2>2. \A p \in Proc : t.used[p] <= r.used[p]
    <3> HIDE DEF r
    <3> QED BY <1>1, <1>5 DEF Table, AtLeastIndex
  <2> HIDE DEF r
  <2> QED BY <1>8, <2>2 DEF GrownFrom
<1> QED BY <1>2, <1>6, <1>7, <1>8, <1>9 DEF object

-----------------------------------------------------------------------------
(* The answers to the requests of a column, one after the other. *)

LEMMA ColumnSteps ==
  ASSUME NEW t \in Table, NEW q \in Proc, NEW sizes \in Seq(Sizes)
  PROVE  \E h \in [0 .. Len(sizes) -> Table] :
           /\ h[0] = t /\ h[Len(sizes)] = AnsweredColumn(t, q, sizes)
           /\ \A k \in 1 .. Len(sizes) : h[k] = Pushed(h[k-1], q, sizes[k])
<1> DEFINE n == Len(sizes)
           g == [td \in Table \X Sizes |-> Pushed(td[1], q, td[2])]
           P(f) == f = [s \in SUBSET (1 .. n) |->
                          IF s = {} THEN t ELSE Pushed(f[s \ {Max(s)}], q, sizes[Max(s)])]
           iter == CHOOSE f : P(f)
<1>1. n \in Nat /\ sizes \in Listing(n, Sizes) /\ DOMAIN sizes = 1 .. n
  BY LenProperties DEF Listing
<1>2. AnsweredColumn(t, q, sizes) = iter[1 .. n]
  BY <1>1, Zenon DEF AnsweredColumn, FoldLeft, MapThenFoldSet
<1> HIDE DEF n
<1>3. g \in Steps(Table, Sizes)
  BY PushedFits DEF Steps
<1>4. \A td \in Table, d \in Sizes : g[<<td, d>>] = Pushed(td, q, d)
  OBVIOUS
<1> HIDE DEF g
<1>5. PICK it : Recurs(it, Table, g, t, n, sizes)
  BY <1>1, <1>3, SubsetRecursion
<1>6. \A k \in 1 .. n : sizes[k] \in Sizes
  BY <1>1 DEF Listing
<1>7. P([s \in SUBSET (1 .. n) |-> it[s]])
  BY <1>4, <1>5, <1>6 DEF Recurs
<1>8. P(iter)
  <2> HIDE DEF P
  <2> QED BY <1>7
<1>9. Follows(iter, Table, g, t, n, sizes)
  <2> HIDE DEF iter
  <2>1. ASSUME NEW s \in SUBSET (1 .. n)
        PROVE  iter[s] = IF s = {} THEN t ELSE Pushed(iter[s \ {Max(s)}], q, sizes[Max(s)])
    BY <1>8
  <2>2. \A s \in SUBSET (1 .. n) : s # {} => sizes[Max(s)] \in Sizes
    BY <1>5, <1>6 DEF Recurs
  <2> HIDE DEF P
  <2> QED BY <1>4, <2>1, <2>2 DEF Follows
<1> HIDE DEF iter, P
<1>10. PICK h \in [0 .. n -> Table] :
         /\ h[0] = t /\ h[n] = iter[1 .. n]
         /\ \A k \in 1 .. n : h[k-1] \in Table /\ sizes[k] \in Sizes
                             /\ h[k] = g[<<h[k-1], sizes[k]>>]
  BY <1>1, <1>3, <1>9, SegmentsInOrder
<1>11. \A k \in 1 .. n : h[k] = Pushed(h[k-1], q, sizes[k])
  BY <1>4, <1>10
<1> QED BY <1>2, <1>10, <1>11 DEF n

(* The requests of a column come to n slots. *)
Total(sizes, n) ==
  \E sum \in [0 .. Len(sizes) -> Nat] :
    /\ sum[0] = 0 /\ sum[Len(sizes)] = n
    /\ \A k \in 1 .. Len(sizes) : sum[k] = sum[k-1] + DelivSlots(sizes[k])

LEMMA TotalOfNone == Total(<<>>, 0)
<1> DEFINE sum == [k \in 0 .. 0 |-> 0]
<1>1. sum \in [0 .. Len(<<>>) -> Nat] /\ sum[0] = 0 /\ Len(<<>>) = 0
  OBVIOUS
<1> HIDE DEF sum
<1> QED BY <1>1 DEF Total

LEMMA TotalOfAppended ==
  ASSUME NEW sizes \in Seq(Sizes), NEW n \in Nat, Total(sizes, n), NEW size \in Sizes
  PROVE  Total(Append(sizes, size), n + DelivSlots(size))
<1> DEFINE m == Len(sizes)
           longer == Append(sizes, size)
<1>1. PICK sum \in [0 .. m -> Nat] :
        /\ sum[0] = 0 /\ sum[m] = n
        /\ \A k \in 1 .. m : sum[k] = sum[k-1] + DelivSlots(sizes[k])
  BY DEF Total
<1> DEFINE next == [k \in 0 .. m+1 |-> IF k = m + 1 THEN n + DelivSlots(size) ELSE sum[k]]
<1>2. m \in Nat /\ Len(longer) = m + 1 /\ longer[m+1] = size
      /\ \A k \in 1 .. m : longer[k] = sizes[k]
  BY LenProperties
<1> HIDE DEF m, longer
<1>3. next \in [0 .. m+1 -> Nat]
  BY <1>2, SlotsOfElement
<1>4. next[0] = 0 /\ next[m+1] = n + DelivSlots(size)
  BY <1>1, <1>2
<1>5. \A k \in 1 .. m+1 : next[k] = next[k-1] + DelivSlots(longer[k])
  <2> SUFFICES ASSUME NEW k \in 1 .. m+1
               PROVE  next[k] = next[k-1] + DelivSlots(longer[k])
    OBVIOUS
  <2>1. CASE k = m + 1
    BY <1>1, <1>2, <2>1
  <2>2. CASE k \in 1 .. m
    BY <1>1, <1>2, <2>2
  <2> QED BY <1>2, <2>1, <2>2
<1> HIDE DEF next
<1>6. Total(longer, n + DelivSlots(size))
  BY <1>2, <1>3, <1>4, <1>5 DEF Total
<1> QED BY <1>6 DEF longer

LEMMA ColumnAnswered ==
  ASSUME NEW t \in Table, NEW q \in Proc, NEW sizes \in Seq(Sizes)
  PROVE  /\ AnsweredColumn(t, q, sizes) \in Table
         /\ Fit(t) => Fit(AnsweredColumn(t, q, sizes))
         /\ GrownFrom(t, AnsweredColumn(t, q, sizes))
         /\ \A n \in Nat : Total(sizes, n) =>
              AnsweredColumn(t, q, sizes).used = [t.used EXCEPT ![q] = @ + n]
<1> DEFINE m == Len(sizes)
<1>1. m \in Nat /\ \A k \in 1 .. m : sizes[k] \in Sizes
  BY LenProperties
<1>2. PICK h \in [0 .. m -> Table] :
         /\ h[0] = t /\ h[m] = AnsweredColumn(t, q, sizes)
         /\ \A k \in 1 .. m : h[k] = Pushed(h[k-1], q, sizes[k])
  BY ColumnSteps
<1> HIDE DEF m
<1>0. ASSUME NEW k \in 1 .. m
      PROVE  /\ (Fit(h[k-1]) => Fit(h[k])) /\ GrownFrom(h[k-1], h[k])
             /\ h[k].used = [h[k-1].used EXCEPT ![q] = @ + DelivSlots(sizes[k])]
  <2> DEFINE r == h[k-1]
             d == sizes[k]
  <2>1. r \in Table /\ d \in Sizes /\ h[k] = Pushed(r, q, d)
    BY <1>1, <1>2
  <2> HIDE DEF r, d
  <2>2. /\ (Fit(r) => Fit(h[k])) /\ GrownFrom(r, h[k])
        /\ h[k].used = [r.used EXCEPT ![q] = @ + DelivSlots(d)]
    <3>1. /\ (Fit(r) => Fit(Pushed(r, q, d))) /\ GrownFrom(r, Pushed(r, q, d))
          /\ Pushed(r, q, d).used = [r.used EXCEPT ![q] = @ + DelivSlots(d)]
      BY <2>1, PushedFits, SMTT(30)
    <3> QED BY <2>1, <3>1
  <2> QED BY <2>2 DEF r, d
<1>3. (Fit(t) => Fit(h[m])) /\ GrownFrom(t, h[m])
  <2> DEFINE T == {k \in 0 .. m : (Fit(t) => Fit(h[k])) /\ GrownFrom(t, h[k])}
  <2>1. 0 \in T
    <3>1. GrownFrom(t, t)
      BY DEF GrownFrom, Table, AtLeastIndex
    <3> QED BY <1>1, <1>2, <3>1
  <2>2. ASSUME NEW k \in 0 .. m-1, k \in T PROVE k + 1 \in T
    <3>1. k + 1 \in 1 .. m /\ (k + 1) - 1 = k /\ k + 1 \in 0 .. m
      BY <1>1
    <3>2. h[k] \in Table /\ h[k+1] \in Table
      BY <1>1, <1>2, <3>1
    <3>3. (Fit(h[k]) => Fit(h[k+1])) /\ GrownFrom(h[k], h[k+1])
      BY <1>0, <3>1
    <3>4. (Fit(t) => Fit(h[k])) /\ GrownFrom(t, h[k])
      BY <2>2
    <3>5. GrownFrom(t, h[k+1])
      BY <3>2, <3>3, <3>4, GrownFromTransitive
    <3> QED BY <3>1, <3>3, <3>4, <3>5
  <2> HIDE DEF T
  <2>3. 0 .. m \subseteq T
    BY <1>1, <2>1, <2>2, BoundedInduction
  <2> QED BY <1>1, <2>3 DEF T
<1>4. ASSUME NEW n \in Nat, Total(sizes, n)
      PROVE  h[m].used = [t.used EXCEPT ![q] = @ + n]
  <2>1. PICK sum \in [0 .. m -> Nat] :
          /\ sum[0] = 0 /\ sum[m] = n
          /\ \A k \in 1 .. m : sum[k] = sum[k-1] + DelivSlots(sizes[k])
    BY <1>4 DEF Total, m
  <2> DEFINE T == {k \in 0 .. m : h[k].used = [t.used EXCEPT ![q] = @ + sum[k]]}
  <2>2. 0 \in T
    <3>1. t.used = [t.used EXCEPT ![q] = @ + 0]
      BY DEF Table, AtLeastIndex
    <3> QED BY <1>1, <1>2, <2>1, <3>1
  <2>3. ASSUME NEW k \in 0 .. m-1, k \in T PROVE k + 1 \in T
    <3>1. k + 1 \in 1 .. m /\ (k + 1) - 1 = k /\ k + 1 \in 0 .. m
      BY <1>1
    <3>2. h[k] \in Table /\ sizes[k+1] \in Sizes
      BY <1>1, <1>2, <3>1
    <3>3. h[k+1].used = [h[k].used EXCEPT ![q] = @ + DelivSlots(sizes[k+1])]
      BY <1>0, <3>1
    <3>4. h[k].used = [t.used EXCEPT ![q] = @ + sum[k]]
      BY <2>3
    <3>5. sum[k+1] = sum[k] + DelivSlots(sizes[k+1])
      BY <2>1, <3>1
    <3>6. DelivSlots(sizes[k+1]) \in Nat /\ sum[k] \in Nat
      BY <1>1, <2>1, <3>1, SlotsOfElement
    <3>7. t.used \in [Proc -> Nat]
      BY DEF Table, AtLeastIndex
    <3>8. h[k+1].used = [t.used EXCEPT ![q] = @ + sum[k+1]]
      BY <3>3, <3>4, <3>5, <3>6, <3>7
    <3> QED BY <3>1, <3>8
  <2> HIDE DEF T
  <2>4. 0 .. m \subseteq T
    BY <1>1, <2>2, <2>3, BoundedInduction
  <2> QED BY <1>1, <2>1, <2>4 DEF T
<1> QED BY <1>1, <1>2, <1>3, <1>4

-----------------------------------------------------------------------------
(* The answers to the requests of all columns, process by process. *)

LEMMA AnswerSteps ==
  ASSUME NEW p \in Proc, del[p] \in Table, \A q \in Proc : req[q].column[p] \in Seq(Sizes)
  PROVE  \E h \in [0 .. N -> Table] :
           /\ h[0] = del[p] /\ h[N] = Answered(p)
           /\ \A k \in 1 .. N : h[k] = AnsweredColumn(h[k-1], k-1, req[k-1].column[p])
<1> DEFINE t == del[p]
           seq == [i \in 1 .. N |-> i - 1]
           g == [tq \in Table \X Proc |-> AnsweredColumn(tq[1], tq[2], req[tq[2]].column[p])]
           P(f) == f = [s \in SUBSET (1 .. N) |->
                          IF s = {} THEN t
                          ELSE AnsweredColumn(f[s \ {Max(s)}], seq[Max(s)], req[seq[Max(s)]].column[p])]
           iter == CHOOSE f : P(f)
<1>1. N \in Nat /\ seq \in Listing(N, Proc) /\ DOMAIN seq = 1 .. N /\ \A k \in 1 .. N : seq[k] = k - 1
  BY NAssumption DEF Listing, Proc
<1>2. Answered(p) = iter[1 .. N]
  <2>1. DOMAIN [i \in 1 .. N |-> i - 1] = 1 .. N
    OBVIOUS
  <2> QED BY <2>1, Zenon DEF Answered, FoldLeft, MapThenFoldSet
<1>0. t \in Table
  OBVIOUS
<1> HIDE DEF seq
<1>3. g \in Steps(Table, Proc)
  BY ColumnAnswered DEF Steps
<1>4. \A td \in Table, d \in Proc : g[<<td, d>>] = AnsweredColumn(td, d, req[d].column[p])
  OBVIOUS
<1> HIDE DEF g
<1>5. PICK it : Recurs(it, Table, g, t, N, seq)
  BY <1>1, <1>3, SubsetRecursion
<1>6. \A k \in 1 .. N : seq[k] \in Proc
  BY <1>1 DEF Listing
<1>7. P([s \in SUBSET (1 .. N) |-> it[s]])
  BY <1>4, <1>5, <1>6 DEF Recurs
<1>8. P(iter)
  <2> HIDE DEF P
  <2> QED BY <1>7
<1>9. Follows(iter, Table, g, t, N, seq)
  <2> HIDE DEF iter
  <2>1. ASSUME NEW s \in SUBSET (1 .. N)
        PROVE  iter[s] = IF s = {} THEN t
                         ELSE AnsweredColumn(iter[s \ {Max(s)}], seq[Max(s)], req[seq[Max(s)]].column[p])
    BY <1>8
  <2>2. \A s \in SUBSET (1 .. N) : s # {} => seq[Max(s)] \in Proc
    BY <1>5, <1>6 DEF Recurs
  <2> HIDE DEF P
  <2> QED BY <1>4, <2>1, <2>2 DEF Follows
<1> HIDE DEF iter, P, t
<1>10. PICK h \in [0 .. N -> Table] :
         /\ h[0] = t /\ h[N] = iter[1 .. N]
         /\ \A k \in 1 .. N : h[k-1] \in Table /\ seq[k] \in Proc
                             /\ h[k] = g[<<h[k-1], seq[k]>>]
  <2>1. N \in Nat /\ seq \in Listing(N, Proc)
    BY <1>1
  <2> QED BY <1>0, <1>3, <1>9, <2>1, SegmentsInOrder
<1>11. \A k \in 1 .. N : h[k] = AnsweredColumn(h[k-1], k-1, req[k-1].column[p])
  BY <1>1, <1>4, <1>10, ZenonT(40)
<1> QED BY <1>2, <1>10, <1>11 DEF t

(* No column takes more than its requests come to. *)
LEMMA AllAnswered ==
  ASSUME NEW p \in Proc, del[p] \in Table, Fit(del[p]),
         NEW most \in [Proc -> Nat],
         \A q \in Proc : /\ req[q].column[p] \in Seq(Sizes)
                         /\ \E n \in Nat : Total(req[q].column[p], n) /\ n <= most[q]
  PROVE  /\ Answered(p) \in Table
         /\ Fit(Answered(p))
         /\ GrownFrom(del[p], Answered(p))
         /\ \A q \in Proc : Answered(p).used[q] <= del[p].used[q] + most[q]
<1> DEFINE t == del[p]
<1>1. PICK h \in [0 .. N -> Table] :
         /\ h[0] = t /\ h[N] = Answered(p)
         /\ \A k \in 1 .. N : h[k] = AnsweredColumn(h[k-1], k-1, req[k-1].column[p])
  BY AnswerSteps
<1> DEFINE Within(r, k) == \A q \in Proc :
             r.used[q] <= IF q < k THEN t.used[q] + most[q] ELSE t.used[q]
<1>2. ASSUME NEW k \in 1 .. N, Fit(h[k-1]), Within(h[k-1], k-1)
      PROVE  Fit(h[k]) /\ GrownFrom(h[k-1], h[k]) /\ Within(h[k], k)
  <2> DEFINE r == h[k-1]
             c == req[k-1].column[p]
             o == k - 1
  <2>1. r \in Table /\ o \in Proc /\ o \in Int /\ c \in Seq(Sizes) /\ h[k] = AnsweredColumn(r, o, c)
    BY <1>1, NAssumption DEF Proc
  <2>2. PICK n \in Nat : Total(c, n) /\ n <= most[o]
    BY <2>1
  <2>3. Fit(r) /\ Within(r, o)
    BY <1>2
  <2>4. k = o + 1
    OBVIOUS
  <2> HIDE DEF r, c, o
  <2>5. Fit(h[k]) /\ GrownFrom(r, h[k]) /\ h[k].used = [r.used EXCEPT ![o] = @ + n]
    BY <2>1, <2>2, <2>3, ColumnAnswered
  <2>6. t.used \in [Proc -> Nat] /\ r.used \in [Proc -> Nat]
    BY <2>1 DEF Table, AtLeastIndex
  <2>7. Within(h[k], o + 1)
    <3> SUFFICES ASSUME NEW q \in Proc
                 PROVE  h[k].used[q] <= IF q < o + 1 THEN t.used[q] + most[q] ELSE t.used[q]
      OBVIOUS
    <3>1. q \in Int /\ most[q] \in Nat /\ t.used[q] \in Nat /\ r.used[q] \in Nat
      <4>1. q \in Int
        BY NAssumption DEF Proc
      <4>2. most[q] \in Nat
        OBVIOUS
      <4> HIDE DEF t
      <4>3. t.used[q] \in Nat /\ r.used[q] \in Nat
        BY <2>6
      <4> QED BY <4>1, <4>2, <4>3
    <3>2. r.used[q] <= IF q < o THEN t.used[q] + most[q] ELSE t.used[q]
      BY <2>3
    <3>3. h[k].used[q] = IF q = o THEN r.used[q] + n ELSE r.used[q]
      BY <2>5, <2>6
    <3>4. q = o => n <= most[q]
      BY <2>2
    <3> HIDE DEF t, Within
    <3>5. o \in Int
      BY <2>1
    <3>6. CASE q = o
      BY <3>1, <3>2, <3>3, <3>4, <3>5, <3>6, SMTT(30)
    <3>7. CASE q # o
      BY <3>1, <3>2, <3>3, <3>5, <3>7
    <3> QED BY <3>6, <3>7
  <2> QED BY <2>4, <2>5, <2>7 DEF r
<1> DEFINE T == {k \in 0 .. N : Fit(h[k]) /\ GrownFrom(t, h[k]) /\ Within(h[k], k)}
<1>3. 0 \in T
  <2>1. GrownFrom(t, t)
    BY DEF GrownFrom, Table, AtLeastIndex
  <2>2. Within(t, 0)
    <3>1. t.used \in [Proc -> Nat]
      BY DEF Table, AtLeastIndex
    <3>2. \A q \in Proc : q \in Int /\ ~(q < 0)
      BY NAssumption DEF Proc
    <3> HIDE DEF t
    <3> QED BY <3>1, <3>2
  <2>3. Fit(t)
    OBVIOUS
  <2> HIDE DEF t, Within
  <2> QED BY <1>1, <2>1, <2>2, <2>3, NAssumption
<1>4. ASSUME NEW k \in 0 .. N-1, k \in T PROVE k + 1 \in T
  <2>1. k + 1 \in 1 .. N /\ (k + 1) - 1 = k /\ k + 1 \in 0 .. N
    BY NAssumption
  <2> HIDE DEF Within
  <2>2. Fit(h[k+1]) /\ GrownFrom(h[k], h[k+1]) /\ Within(h[k+1], k+1)
    BY <1>2, <1>4, <2>1
  <2>3. h[k] \in Table /\ h[k+1] \in Table /\ t \in Table
    BY <2>1, NAssumption
  <2>4. GrownFrom(t, h[k])
    BY <1>4
  <2> HIDE DEF t
  <2>5. GrownFrom(t, h[k+1])
    BY <2>2, <2>3, <2>4, GrownFromTransitive
  <2> QED BY <2>1, <2>2, <2>5
<1>5. Fit(h[N]) /\ GrownFrom(t, h[N]) /\ Within(h[N], N)
  <2>1. N \in Nat /\ N \in 0 .. N
    BY NAssumption
  <2> HIDE DEF T
  <2>2. 0 .. N \subseteq T
    BY <1>3, <1>4, <2>1, BoundedInduction
  <2> QED BY <2>1, <2>2 DEF T
<1>6. \A q \in Proc : q < N
  BY NAssumption DEF Proc
<1>7. h[N] \in Table
  BY NAssumption
<1> QED BY <1>1, <1>5, <1>6, <1>7

-----------------------------------------------------------------------------
(* The inductive invariant. *)

ReqTable == [rows : Nat \ {0}, column : [Proc -> Seq(Sizes)]]

Types ==
  /\ phase \in {"compute", "req", "deliv"}
  /\ calls \in 0 .. MaxCalls /\ syncs \in 0 .. MaxSync
  /\ phase # "compute" => syncs < MaxSync
  /\ req \in [Proc -> ReqTable]
  /\ data_sizes \in [Proc -> [Proc -> Nat]]
  /\ del \in [Proc -> Table]
  /\ reqRecv \in [Proc -> [rows : Nat, used : [Proc -> Nat]]]
  /\ delRecv \in [Proc -> Table]
  /\ peak \in [Proc -> [req : Nat, del : Nat, reqRecv : Nat, delRecv : Nat]]

(* A process reckons at least what the answers to its gets will take. *)
Reckoned == \A p, q \in Proc : \E n \in Nat :
              Total(req[p].column[q], n) /\ n <= data_sizes[p][q]

(* Every table has the room it needs, those received from the exchange of  *)
(* the sizes on: before the requests are answered, a column of a received  *)
(* delivery table has room for what was put and for what is reckoned.      *)
Room ==
  \A p \in Proc :
    /\ Fit(del[p]) /\ Fit(delRecv[p])
    /\ \A q \in Proc :
         /\ Len(req[p].column[q]) <= req[p].rows
         /\ phase = "req" => /\ ReqSlots(p, q) <= reqRecv[p].rows
                             /\ delRecv[p].used[q] = del[q].used[p] + data_sizes[p][q]
         /\ phase = "deliv" => del[q].used[p] <= delRecv[p].used[q]

IInv == Types /\ Reckoned /\ Room /\ GrowthBounded

-----------------------------------------------------------------------------
(* Peaks. *)

LEMMA PeakRaised ==
  ASSUME NEW old \in Nat, NEW new \in Nat
  PROVE  /\ Max({old, new}) \in Nat
         /\ old <= Max({old, new}) /\ new <= Max({old, new})
BY MaxOfTwo

(* A table whose rows stay within its first size or twice a peak does so   *)
(* when the peak rises, or when it has grown to twice the new peak.        *)
LEMMA BoundKept ==
  ASSUME NEW first \in Nat, NEW old \in Nat, NEW new \in Nat,
         NEW rows \in Nat, NEW rowsNew \in Nat,
         rows <= Max({first, 2 * old}), old <= new,
         rowsNew = rows \/ rowsNew <= 2 * new
  PROVE  rowsNew <= Max({first, 2 * new})
<1>1. 2 * old \in Int /\ 2 * new \in Int /\ first \in Int
  OBVIOUS
<1>2. /\ Max({first, 2 * old}) = IF first >= 2 * old THEN first ELSE 2 * old
      /\ Max({first, 2 * new}) = IF first >= 2 * new THEN first ELSE 2 * new
  BY <1>1, MaxOfTwo
<1> QED BY <1>2

(* A received table that is enlarged has the room that is needed, and no   *)
(* more than twice of it.                                                  *)
LEMMA EnlargedEnough ==
  ASSUME NEW rows \in Nat, NEW needed \in Nat
  PROVE  /\ Enlarged(rows, needed) \in Nat
         /\ needed <= Enlarged(rows, needed)
         /\ Enlarged(rows, needed) = rows \/ Enlarged(rows, needed) <= 2 * needed
BY MaxOfTwo DEF Enlarged

-----------------------------------------------------------------------------
(* The invariant holds at first and is kept by every step. *)

LEMMA InitKeeps == Init => IInv
<1> SUFFICES ASSUME Init PROVE IInv
  OBVIOUS
<1> USE NAssumption, SizesAssumption, MinAssumption
<1>1. Zero \in [Proc -> Nat] /\ EmptyIndex \in [Proc -> AtLeastIndex]
      /\ EmptyReq \in [Proc -> Seq(Sizes)]
  BY DEF Zero, EmptyIndex, EmptyReq, AtLeastIndex, IndexSlots
<1>2. Types
  <2>1. DelivMin + IndexSlots \in Nat /\ IndexSlots \in Nat
    BY DEF IndexSlots
  <2> QED BY <1>1, <2>1 DEF Init, Types, Everywhere, ReqTable, Table
<1>3. Reckoned
  <2> SUFFICES ASSUME NEW p \in Proc, NEW q \in Proc
               PROVE  \E n \in Nat : Total(req[p].column[q], n) /\ n <= data_sizes[p][q]
    BY DEF Reckoned
  <2>1. req[p].column[q] = <<>> /\ data_sizes[p][q] = 0
    BY DEF Init, Everywhere, EmptyReq, Zero
  <2>2. 0 <= 0
    OBVIOUS
  <2> QED BY <2>1, <2>2, TotalOfNone
<1>4. Room
  BY DEF Init, Room, Everywhere, EmptyReq, EmptyIndex, Fit, IndexSlots
<1>5. GrowthBounded
  <2>1. /\ ReqMin <= Max({ReqMin, 2 * 0})
        /\ DelivMin + IndexSlots <= Max({DelivMin + IndexSlots, 2 * IndexSlots})
    BY MaxOfTwo DEF IndexSlots
  <2> QED BY <2>1 DEF Init, GrowthBounded, Everywhere
<1> QED BY <1>2, <1>3, <1>4, <1>5 DEF IInv

LEMMA DeliverKeeps ==
  ASSUME IInv, NEW p \in Proc, NEW q \in Proc, NEW size \in Sizes, Deliver(p, q, size)
  PROVE  IInv'
<1> DEFINE r == Pushed(del[p], q, size)
           top == Max({peak[p].del, r.used[q]})
<1>1. Types /\ Reckoned /\ Room /\ GrowthBounded
  BY DEF IInv
<1>2. /\ del' = [del EXCEPT ![p] = r]
      /\ peak' = [peak EXCEPT ![p].del = top]
      /\ calls' = calls + 1 /\ calls < MaxCalls /\ phase = "compute"
      /\ UNCHANGED <<phase, syncs, req, data_sizes, reqRecv, delRecv>>
  BY <1>1 DEF Deliver, Calls, Types
<1>3. r \in Table /\ (Fit(del[p]) => Fit(r))
      /\ (r.rows = del[p].rows \/ r.rows <= 2 * r.used[q])
  <2>1. del[p] \in Table /\ del[p].used \in [Proc -> AtLeastIndex]
    BY <1>1 DEF Types, Table
  <2>2. r \in Table /\ (Fit(del[p]) => Fit(r))
    BY <2>1, PushedFits
  <2>3. /\ r.used = [del[p].used EXCEPT ![q] = @ + DelivSlots(size)]
        /\ r.rows = del[p].rows \/ r.rows <= 2 * (del[p].used[q] + DelivSlots(size))
    BY <2>1, PushedRows
  <2>4. r.used[q] = del[p].used[q] + DelivSlots(size)
    BY <2>1, <2>3
  <2> QED BY <2>2, <2>3, <2>4
<1>4. /\ top \in Nat /\ peak[p].del <= top /\ r.used[q] <= top
      /\ r.rows \in Nat /\ del[p].rows \in Nat /\ peak[p].del \in Nat
  <2>1. peak[p].del \in Nat /\ r.used[q] \in Nat /\ r.rows \in Nat /\ del[p].rows \in Nat
    BY <1>1, <1>3 DEF Types, Table, AtLeastIndex
  <2> QED BY <2>1, PeakRaised
<1> HIDE DEF r, top
<1>5. Types'
  <2>1. calls' \in 0 .. MaxCalls
    BY <1>1, <1>2, SizesAssumption DEF Types
  <2>2. del' \in [Proc -> Table]
    BY <1>1, <1>2, <1>3 DEF Types
  <2>3. peak' \in [Proc -> [req : Nat, del : Nat, reqRecv : Nat, delRecv : Nat]]
    BY <1>1, <1>2, <1>4, ZenonT(40) DEF Types
  <2> QED BY <1>1, <1>2, <2>1, <2>2, <2>3 DEF Types
<1>6. Reckoned'
  BY <1>1, <1>2 DEF Reckoned
<1>7. Room'
  <2>1. \A s \in Proc : Fit(del'[s])
    BY <1>1, <1>2, <1>3 DEF Room, Types
  <2> QED BY <1>1, <1>2, <2>1 DEF Room
<1>8. GrowthBounded'
  <2>1. r.rows <= Max({DelivMin + IndexSlots, 2 * top})
    <3>1. DelivMin + IndexSlots \in Nat
      BY MinAssumption DEF IndexSlots
    <3>2. del[p].rows <= Max({DelivMin + IndexSlots, 2 * peak[p].del})
      BY <1>1 DEF GrowthBounded
    <3>3. r.rows = del[p].rows \/ r.rows <= 2 * top
      <4>1. r.used[q] \in Nat /\ top \in Nat /\ r.rows \in Nat
        BY <1>3, <1>4 DEF Table, AtLeastIndex
      <4> QED BY <1>3, <1>4, <4>1
    <3> QED BY <1>4, <3>1, <3>2, <3>3, BoundKept
  <2>2. \A x \in Proc : /\ del'[x] = (IF x = p THEN r ELSE del[x])
                        /\ peak'[x] = IF x = p THEN [peak[p] EXCEPT !.del = top] ELSE peak[x]
    BY <1>1, <1>2 DEF Types
  <2>3. peak[p] \in [req : Nat, del : Nat, reqRecv : Nat, delRecv : Nat]
    BY <1>1 DEF Types
  <2>4. ASSUME NEW x \in Proc
        PROVE  /\ req'[x].rows     <= Max({ReqMin, 2 * peak'[x].req})
               /\ reqRecv'[x].rows <= Max({ReqMin, 2 * peak'[x].reqRecv})
               /\ del'[x].rows     <= Max({DelivMin + IndexSlots, 2 * peak'[x].del})
               /\ delRecv'[x].rows <= Max({DelivMin + IndexSlots, 2 * peak'[x].delRecv})
    <3>1. /\ req[x].rows     <= Max({ReqMin, 2 * peak[x].req})
          /\ reqRecv[x].rows <= Max({ReqMin, 2 * peak[x].reqRecv})
          /\ del[x].rows     <= Max({DelivMin + IndexSlots, 2 * peak[x].del})
          /\ delRecv[x].rows <= Max({DelivMin + IndexSlots, 2 * peak[x].delRecv})
      BY <1>1 DEF GrowthBounded
    <3>2. CASE x = p
      <4>1. /\ del'[x] = r /\ peak'[x] = [peak[x] EXCEPT !.del = top]
        BY <2>2, <3>2
      <4>2. /\ peak'[x].del = top
            /\ peak'[x].req = peak[x].req /\ peak'[x].reqRecv = peak[x].reqRecv /\ peak'[x].delRecv = peak[x].delRecv
        BY <2>3, <3>2, <4>1
      <4> QED BY <1>2, <2>1, <3>1, <4>1, <4>2
    <3>3. CASE x # p
      BY <1>2, <2>2, <3>1, <3>3
    <3> QED BY <3>2, <3>3
  <2> QED BY <2>4 DEF GrowthBounded
<1> QED BY <1>5, <1>6, <1>7, <1>8 DEF IInv

LEMMA GetKeeps ==
  ASSUME IInv, NEW p \in Proc, NEW q \in Proc, NEW size \in Sizes, Get(p, q, size)
  PROVE  IInv'
<1> DEFINE r == Requested(req[p], q, size)
           len == Len(req[p].column[q])
           top == Max({peak[p].req, len + 1})
<1>1. Types /\ Reckoned /\ Room /\ GrowthBounded
  BY DEF IInv
<1>2. /\ req' = [req EXCEPT ![p] = r]
      /\ data_sizes' = [data_sizes EXCEPT ![p][q] = @ + AnswerBytes(size)]
      /\ calls' = calls + 1 /\ calls < MaxCalls /\ phase = "compute"
      /\ UNCHANGED <<phase, syncs, del, reqRecv, delRecv>>
  BY DEF Get, Calls
<1>3. /\ req[p] \in ReqTable /\ req[p].column \in [Proc -> Seq(Sizes)]
      /\ req[p].rows \in Nat \ {0} /\ len \in Nat /\ len <= req[p].rows
  <2>1. req[p] \in ReqTable
    BY <1>1 DEF Types
  <2>2. req[p].column \in [Proc -> Seq(Sizes)] /\ req[p].rows \in Nat \ {0}
    BY <2>1 DEF ReqTable
  <2>3. req[p].column[q] \in Seq(Sizes)
    BY <2>2
  <2>4. len \in Nat
    BY <2>3, LenProperties
  <2>5. len <= req[p].rows
    BY <1>1 DEF Room
  <2> QED BY <2>1, <2>2, <2>4, <2>5
<1>4. /\ r.column = [req[p].column EXCEPT ![q] = Append(@, size)]
      /\ r.column[q] = Append(req[p].column[q], size)
      /\ r.rows = IF len = req[p].rows THEN 2 * req[p].rows ELSE req[p].rows
      /\ r = [rows |-> r.rows, column |-> r.column]
  BY <1>3 DEF Requested
<1>5. Len(r.column[q]) = len + 1 /\ Append(req[p].column[q], size) \in Seq(Sizes)
  BY <1>3, <1>4
<1>6. r \in ReqTable /\ \A x \in Proc : Len(r.column[x]) <= r.rows
  <2>1. r.rows \in Nat \ {0} /\ len + 1 <= r.rows /\ req[p].rows <= r.rows
    BY <1>3, <1>4, SMTT(30)
  <2>2. r.column \in [Proc -> Seq(Sizes)]
    BY <1>3, <1>4, <1>5
  <2>3. ASSUME NEW x \in Proc PROVE Len(r.column[x]) <= r.rows
    <3>1. CASE x = q
      BY <1>5, <2>1, <3>1
    <3>2. CASE x # q
      <4>1. r.column[x] = req[p].column[x]
        BY <1>3, <1>4, <3>2
      <4>2. Len(req[p].column[x]) <= req[p].rows
        BY <1>1 DEF Room
      <4>3. req[p].column[x] \in Seq(Sizes)
        BY <1>3
      <4>4. Len(req[p].column[x]) \in Nat
        BY <4>3, LenProperties
      <4> QED BY <1>3, <2>1, <4>1, <4>2, <4>4
    <3> QED BY <3>1, <3>2
  <2> HIDE DEF r
  <2> QED BY <1>4, <2>1, <2>2, <2>3 DEF ReqTable
<1>7. peak' = [peak EXCEPT ![p].req = top]
  <2>1. req'[p] = r
    BY <1>1, <1>2 DEF Types
  <2>2. Len(req'[p].column[q]) = len + 1
    BY <2>1, <1>5
  <2> QED BY <2>2 DEF Get
<1>8. top \in Nat /\ peak[p].req \in Nat /\ peak[p].req <= top /\ len + 1 <= top
  <2>1. peak[p].req \in Nat
    BY <1>1 DEF Types
  <2>2. len + 1 \in Nat
    BY <1>3
  <2> HIDE DEF len
  <2> QED BY <2>1, <2>2, PeakRaised
<1>9. AnswerBytes(size) \in Nat /\ DelivSlots(size) \in Nat /\ DelivSlots(size) <= AnswerBytes(size)
  BY SlotsOfElement, SizesAssumption DEF AnswerBytes, ElementBytes
<1> HIDE DEF r, top, len
<1>10. Types'
  <2>1. calls' \in 0 .. MaxCalls
    BY <1>1, <1>2, SizesAssumption DEF Types
  <2>2. req' \in [Proc -> ReqTable]
    BY <1>1, <1>2, <1>6 DEF Types
  <2>3. data_sizes' \in [Proc -> [Proc -> Nat]]
    BY <1>1, <1>2, <1>9 DEF Types
  <2>4. peak' \in [Proc -> [req : Nat, del : Nat, reqRecv : Nat, delRecv : Nat]]
    BY <1>1, <1>7, <1>8 DEF Types
  <2> QED BY <1>1, <1>2, <2>1, <2>2, <2>3, <2>4 DEF Types
<1>11. Reckoned'
  <2> SUFFICES ASSUME NEW x \in Proc, NEW y \in Proc
               PROVE  \E n \in Nat : Total(req'[x].column[y], n) /\ n <= data_sizes'[x][y]
    BY DEF Reckoned
  <2>1. PICK n \in Nat : Total(req[x].column[y], n) /\ n <= data_sizes[x][y]
    BY <1>1 DEF Reckoned
  <2>2. data_sizes[x][y] \in Nat
    BY <1>1 DEF Types
  <2>3. CASE x = p /\ y = q
    <3>1. req'[x].column[y] = Append(req[p].column[q], size)
      BY <1>1, <1>2, <1>4, <2>3 DEF Types
    <3>2. data_sizes'[x][y] = data_sizes[p][q] + AnswerBytes(size)
      BY <1>1, <1>2, <2>3 DEF Types
    <3>3. n + DelivSlots(size) \in Nat /\ n + DelivSlots(size) <= data_sizes'[x][y]
      BY <1>9, <2>1, <2>2, <2>3, <3>2
    <3>4. req[p].column[q] \in Seq(Sizes) /\ Total(req[p].column[q], n)
      BY <1>3, <2>1, <2>3
    <3>5. Total(Append(req[p].column[q], size), n + DelivSlots(size))
      BY <3>4, TotalOfAppended
    <3> QED BY <3>1, <3>3, <3>5
  <2>4. CASE ~(x = p /\ y = q)
    <3>1. req'[x].column[y] = req[x].column[y]
      BY <1>1, <1>2, <1>3, <1>4, <2>4 DEF Types
    <3>2. data_sizes'[x][y] = data_sizes[x][y]
      BY <1>1, <1>2, <2>4 DEF Types
    <3> QED BY <2>1, <3>1, <3>2
  <2> QED BY <2>3, <2>4
<1>12. Room'
  <2>1. \A x, y \in Proc : Len(req'[x].column[y]) <= req'[x].rows
    BY <1>1, <1>2, <1>6 DEF Room, Types
  <2> QED BY <1>1, <1>2, <2>1 DEF Room
<1>13. GrowthBounded'
  <2>1. r.rows <= Max({ReqMin, 2 * top})
    <3>1. r.rows = req[p].rows \/ r.rows <= 2 * top
      BY <1>3, <1>4, <1>8
    <3>2. req[p].rows <= Max({ReqMin, 2 * peak[p].req})
      BY <1>1 DEF GrowthBounded
    <3>3. ReqMin \in Nat /\ r.rows \in Nat /\ req[p].rows \in Nat
      BY <1>3, <1>4, MinAssumption
    <3> QED BY <1>8, <3>1, <3>2, <3>3, BoundKept
  <2>2. \A x \in Proc : /\ req'[x] = (IF x = p THEN r ELSE req[x])
                        /\ peak'[x] = IF x = p THEN [peak[p] EXCEPT !.req = top] ELSE peak[x]
    BY <1>1, <1>2, <1>7 DEF Types
  <2>3. peak[p] \in [req : Nat, del : Nat, reqRecv : Nat, delRecv : Nat]
    BY <1>1 DEF Types
  <2>4. ASSUME NEW x \in Proc
        PROVE  /\ req'[x].rows     <= Max({ReqMin, 2 * peak'[x].req})
               /\ reqRecv'[x].rows <= Max({ReqMin, 2 * peak'[x].reqRecv})
               /\ del'[x].rows     <= Max({DelivMin + IndexSlots, 2 * peak'[x].del})
               /\ delRecv'[x].rows <= Max({DelivMin + IndexSlots, 2 * peak'[x].delRecv})
    <3>1. /\ req[x].rows     <= Max({ReqMin, 2 * peak[x].req})
          /\ reqRecv[x].rows <= Max({ReqMin, 2 * peak[x].reqRecv})
          /\ del[x].rows     <= Max({DelivMin + IndexSlots, 2 * peak[x].del})
          /\ delRecv[x].rows <= Max({DelivMin + IndexSlots, 2 * peak[x].delRecv})
      BY <1>1 DEF GrowthBounded
    <3>2. CASE x = p
      <4>1. /\ req'[x] = r /\ peak'[x] = [peak[x] EXCEPT !.req = top]
        BY <2>2, <3>2
      <4>2. /\ peak'[x].req = top
            /\ peak'[x].del = peak[x].del /\ peak'[x].reqRecv = peak[x].reqRecv /\ peak'[x].delRecv = peak[x].delRecv
        BY <2>3, <3>2, <4>1
      <4> QED BY <1>2, <2>1, <3>1, <4>1, <4>2
    <3>3. CASE x # p
      BY <1>2, <2>2, <3>1, <3>3
    <3> QED BY <3>2, <3>3
  <2> QED BY <2>4 DEF GrowthBounded
<1> QED BY <1>10, <1>11, <1>12, <1>13 DEF IInv

LEMMA ResetKeeps ==
  ASSUME IInv, NEW p \in Proc, ResetBuffers(p)
  PROVE  IInv'
<1> USE MinAssumption
<1>1. Types /\ Reckoned /\ Room /\ GrowthBounded
  BY DEF IInv
<1>2. EmptyIndex \in [Proc -> AtLeastIndex] /\ Zero \in [Proc -> Nat] /\ IndexSlots \in Nat
  BY DEF EmptyIndex, AtLeastIndex, Zero, IndexSlots
<1>3. req[p].column = EmptyReq /\ del[p].used = EmptyIndex /\ phase = "compute" /\ phase' = phase
  BY DEF ResetBuffers, Calls
<1>10. /\ req' = [req EXCEPT ![p].rows = ReqMin]
       /\ del' = [del EXCEPT ![p].rows = DelivMin]
       /\ data_sizes' = [data_sizes EXCEPT ![p] = Zero]
       /\ delRecv' = [delRecv EXCEPT ![p] = [rows |-> DelivMin, used |-> EmptyIndex]]
  BY DEF ResetBuffers
<1>4. req[p].column \in [Proc -> Seq(Sizes)] /\ del[p].used \in [Proc -> AtLeastIndex]
  BY <1>1 DEF Types, ReqTable, Table
<1>5. Types'
  <2>1. calls' \in 0 .. MaxCalls /\ syncs' = syncs
    BY <1>1, SizesAssumption DEF Types, ResetBuffers, Calls
  <2>2. req' \in [Proc -> ReqTable] /\ data_sizes' \in [Proc -> [Proc -> Nat]]
    <3>1. req[p] \in ReqTable
      BY <1>1 DEF Types
    <3>2. [req[p] EXCEPT !.rows = ReqMin] \in ReqTable
      BY <3>1 DEF ReqTable
    <3>3. req' = [req EXCEPT ![p] = [req[p] EXCEPT !.rows = ReqMin]]
      BY <1>10
    <3>4. req' \in [Proc -> ReqTable]
      BY <1>1, <3>2, <3>3 DEF Types
    <3> QED BY <1>1, <1>2, <1>10, <3>4 DEF Types
  <2>3. del' \in [Proc -> Table] /\ delRecv' \in [Proc -> Table]
    BY <1>1, <1>2, <1>10, ZenonT(40) DEF Types, Table
  <2>4. reqRecv' \in [Proc -> [rows : Nat, used : [Proc -> Nat]]]
    BY <1>1 DEF Types, ResetBuffers
  <2>5. peak' \in [Proc -> [req : Nat, del : Nat, reqRecv : Nat, delRecv : Nat]]
    BY <1>1, <1>2 DEF Types, ResetBuffers
  <2> QED BY <1>1, <1>3, <2>1, <2>2, <2>3, <2>4, <2>5 DEF Types
<1>6. ASSUME NEW x \in Proc
      PROVE  /\ req'[x].column = req[x].column
             /\ req'[x].rows = IF x = p THEN ReqMin ELSE req[x].rows
             /\ del'[x].used = del[x].used
             /\ del'[x].rows = IF x = p THEN DelivMin ELSE del[x].rows
             /\ data_sizes'[x] = IF x = p THEN Zero ELSE data_sizes[x]
             /\ delRecv'[x].rows = IF x = p THEN DelivMin ELSE delRecv[x].rows
             /\ delRecv'[x].used = IF x = p THEN EmptyIndex ELSE delRecv[x].used
  <2>1. /\ DOMAIN req = Proc /\ DOMAIN del = Proc /\ DOMAIN data_sizes = Proc /\ DOMAIN delRecv = Proc
        /\ req[x] \in ReqTable /\ del[x] \in Table
    BY <1>1 DEF Types
  <2>2. /\ req[x] = [rows |-> req[x].rows, column |-> req[x].column]
        /\ del[x] = [rows |-> del[x].rows, used |-> del[x].used]
    BY <2>1 DEF ReqTable, Table
  <2>3. CASE x = p
    <3>1. /\ req'[x] = [req[x] EXCEPT !.rows = ReqMin]
          /\ del'[x] = [del[x] EXCEPT !.rows = DelivMin]
          /\ data_sizes'[x] = Zero /\ delRecv'[x] = [rows |-> DelivMin, used |-> EmptyIndex]
      BY <1>10, <2>1, <2>3
    <3> QED BY <2>2, <2>3, <3>1
  <2>4. CASE x # p
    BY <1>10, <2>1, <2>4
  <2> QED BY <2>3, <2>4
<1>7. Reckoned'
  <2> SUFFICES ASSUME NEW x \in Proc, NEW y \in Proc
               PROVE  \E n \in Nat : Total(req'[x].column[y], n) /\ n <= data_sizes'[x][y]
    BY DEF Reckoned
  <2>1. CASE x = p
    <3>1. req'[x].column[y] = <<>> /\ data_sizes'[x][y] = 0
      BY <1>3, <1>6, <2>1 DEF EmptyReq, Zero
    <3>2. 0 <= 0
      OBVIOUS
    <3> QED BY <3>1, <3>2, TotalOfNone
  <2>2. CASE x # p
    BY <1>1, <1>6, <2>2 DEF Reckoned
  <2> QED BY <2>1, <2>2
<1>8. Room'
  <2>1. \A x, y \in Proc : Len(req'[x].column[y]) <= req'[x].rows
    BY <1>1, <1>3, <1>6 DEF Room, EmptyReq
  <2>2. \A x \in Proc : Fit(del'[x]) /\ Fit(delRecv'[x])
    BY <1>1, <1>3, <1>6 DEF Room, Fit, EmptyIndex, IndexSlots
  <2> QED BY <1>3, <2>1, <2>2 DEF Room
<1>9. GrowthBounded'
  <2>1. /\ ReqMin <= Max({ReqMin, 2 * 0})
        /\ DelivMin <= Max({DelivMin + IndexSlots, 2 * IndexSlots})
    BY MaxOfTwo DEF IndexSlots
  <2>2. /\ reqRecv' = [reqRecv EXCEPT ![p].rows = ReqMin]
        /\ peak' = [peak EXCEPT ![p] = [req |-> 0, del |-> IndexSlots,
                                         reqRecv |-> 0, delRecv |-> IndexSlots]]
    BY DEF ResetBuffers
  <2>3. ASSUME NEW x \in Proc
        PROVE  /\ req'[x].rows     <= Max({ReqMin, 2 * peak'[x].req})
               /\ reqRecv'[x].rows <= Max({ReqMin, 2 * peak'[x].reqRecv})
               /\ del'[x].rows     <= Max({DelivMin + IndexSlots, 2 * peak'[x].del})
               /\ delRecv'[x].rows <= Max({DelivMin + IndexSlots, 2 * peak'[x].delRecv})
    <3>1. CASE x = p
      <4>1. /\ reqRecv'[x].rows = ReqMin /\ peak'[x].req = 0 /\ peak'[x].reqRecv = 0
            /\ peak'[x].del = IndexSlots /\ peak'[x].delRecv = IndexSlots
        BY <1>1, <2>2, <3>1 DEF Types
      <4>2. req'[x].rows = ReqMin /\ del'[x].rows = DelivMin /\ delRecv'[x].rows = DelivMin
        BY <1>6, <3>1
      <4> QED BY <2>1, <4>1, <4>2
    <3>2. CASE x # p
      <4>1. reqRecv'[x] = reqRecv[x] /\ peak'[x] = peak[x]
        BY <1>1, <2>2, <3>2 DEF Types
      <4>2. req'[x].rows = req[x].rows /\ del'[x].rows = del[x].rows /\ delRecv'[x].rows = delRecv[x].rows
        BY <1>6, <3>2
      <4> QED BY <1>1, <4>1, <4>2 DEF GrowthBounded
    <3> QED BY <3>1, <3>2
  <2> QED BY <2>3 DEF GrowthBounded
<1> QED BY <1>5, <1>7, <1>8, <1>9 DEF IInv

LEMMA InfoKeeps ==
  ASSUME IInv, ExchangeInfo
  PROVE  IInv'
<1> DEFINE er(p) == ExpectedReq(p)
           ed(p) == ExpectedDel(p)
           rr(p) == Enlarged(reqRecv[p].rows, Most(er(p)))
           dr(p) == Enlarged(delRecv[p].rows, Most(ed(p)))
           pr(p) == Max({peak[p].reqRecv, Most(er(p))})
           pd(p) == Max({peak[p].delRecv, Most(ed(p))})
<1>1. Types /\ Reckoned /\ Room /\ GrowthBounded
  BY DEF IInv
<1>2. /\ phase' \in {"req", "deliv"} /\ UNCHANGED <<calls, syncs, req, data_sizes, del>>
      /\ reqRecv' = [p \in Proc |-> [rows |-> rr(p), used |-> er(p)]]
      /\ delRecv' = [p \in Proc |-> [rows |-> dr(p), used |-> ed(p)]]
      /\ peak' = [p \in Proc |-> [peak[p] EXCEPT !.reqRecv = pr(p), !.delRecv = pd(p)]]
  BY DEF ExchangeInfo
<1>3. ASSUME NEW p \in Proc
      PROVE  /\ er(p) \in [Proc -> Nat] /\ ed(p) \in [Proc -> AtLeastIndex]
             /\ \A q \in Proc : /\ er(p)[q] = ReqSlots(p, q)
                                /\ ed(p)[q] = del[q].used[p] + data_sizes[p][q]
  <2>1. ASSUME NEW q \in Proc
        PROVE  ReqSlots(p, q) \in Nat /\ del[q].used[p] + data_sizes[p][q] \in AtLeastIndex
    <3>1. req[q].column[p] \in Seq(Sizes)
      BY <1>1 DEF Types, ReqTable
    <3>2. del[q].used[p] \in AtLeastIndex /\ data_sizes[p][q] \in Nat
      BY <1>1 DEF Types, Table
    <3>3. del[q].used[p] + data_sizes[p][q] \in AtLeastIndex
      BY <3>2 DEF AtLeastIndex, IndexSlots
    <3> QED BY <3>1, <3>3, LenProperties DEF ReqSlots
  <2> QED BY <2>1 DEF ExpectedReq, ExpectedDel
<1>4. ASSUME NEW p \in Proc
      PROVE  /\ Most(er(p)) \in Nat /\ Most(ed(p)) \in Nat
             /\ \A q \in Proc : er(p)[q] <= Most(er(p)) /\ ed(p)[q] <= Most(ed(p))
  <2>1. er(p) \in [Proc -> Nat] /\ ed(p) \in [Proc -> Nat]
    BY <1>3 DEF AtLeastIndex
  <2> HIDE DEF er, ed
  <2> QED BY <2>1, MostOfColumns
<1>5. ASSUME NEW p \in Proc
      PROVE  /\ rr(p) \in Nat /\ Most(er(p)) <= rr(p)
             /\ rr(p) = reqRecv[p].rows \/ rr(p) <= 2 * Most(er(p))
             /\ dr(p) \in Nat /\ Most(ed(p)) <= dr(p)
             /\ dr(p) = delRecv[p].rows \/ dr(p) <= 2 * Most(ed(p))
  <2>1. reqRecv[p].rows \in Nat /\ delRecv[p].rows \in Nat
    BY <1>1 DEF Types, Table
  <2> HIDE DEF er, ed
  <2> QED BY <1>4, <2>1, EnlargedEnough
<1>6. ASSUME NEW p \in Proc
      PROVE  /\ pr(p) \in Nat /\ peak[p].reqRecv <= pr(p) /\ Most(er(p)) <= pr(p)
             /\ pd(p) \in Nat /\ peak[p].delRecv <= pd(p) /\ Most(ed(p)) <= pd(p)
             /\ peak[p].reqRecv \in Nat /\ peak[p].delRecv \in Nat
  <2>1. peak[p].reqRecv \in Nat /\ peak[p].delRecv \in Nat
    BY <1>1 DEF Types
  <2> HIDE DEF er, ed
  <2> QED BY <1>4, <2>1, PeakRaised
<1> HIDE DEF er, ed, rr, dr, pr, pd
<1>7. Types'
  <2>1. reqRecv' \in [Proc -> [rows : Nat, used : [Proc -> Nat]]]
    BY <1>2, <1>3, <1>5
  <2>2. delRecv' \in [Proc -> Table]
    BY <1>2, <1>3, <1>5 DEF Table
  <2>3. peak' \in [Proc -> [req : Nat, del : Nat, reqRecv : Nat, delRecv : Nat]]
    <3>1. ASSUME NEW p \in Proc
          PROVE  [peak[p] EXCEPT !.reqRecv = pr(p), !.delRecv = pd(p)]
                    \in [req : Nat, del : Nat, reqRecv : Nat, delRecv : Nat]
      <4>1. peak[p] \in [req : Nat, del : Nat, reqRecv : Nat, delRecv : Nat]
        BY <1>1 DEF Types
      <4> QED BY <1>6, <4>1
    <3> QED BY <1>2, <3>1
  <2>4. syncs < MaxSync
    BY DEF ExchangeInfo
  <2> QED BY <1>1, <1>2, <2>1, <2>2, <2>3, <2>4 DEF Types
<1>8. Reckoned'
  BY <1>1, <1>2 DEF Reckoned
<1>9. Room'
  <2> SUFFICES ASSUME NEW p \in Proc
               PROVE  /\ Fit(del'[p]) /\ Fit(delRecv'[p])
                      /\ \A q \in Proc :
                           /\ Len(req'[p].column[q]) <= req'[p].rows
                           /\ ReqSlots(p, q)' <= reqRecv'[p].rows
                           /\ delRecv'[p].used[q] = del'[q].used[p] + data_sizes'[p][q]
                           /\ del'[q].used[p] <= delRecv'[p].used[q]
    BY DEF Room
  <2>1. Fit(del'[p]) /\ \A q \in Proc : Len(req'[p].column[q]) <= req'[p].rows
    BY <1>1, <1>2 DEF Room
  <2>2. delRecv'[p].rows = dr(p) /\ delRecv'[p].used = ed(p) /\ reqRecv'[p].rows = rr(p)
    BY <1>2
  <2>3. Fit(delRecv'[p])
    <3>1. \A q \in Proc : ed(p)[q] \in Nat /\ ed(p)[q] <= Most(ed(p))
                          /\ Most(ed(p)) \in Nat /\ dr(p) \in Nat /\ Most(ed(p)) <= dr(p)
      BY <1>3, <1>4, <1>5 DEF AtLeastIndex
    <3>2. \A q \in Proc : ed(p)[q] <= dr(p)
      BY <3>1
    <3> QED BY <2>2, <3>2 DEF Fit
  <2>4. ASSUME NEW q \in Proc
        PROVE  /\ ReqSlots(p, q)' <= reqRecv'[p].rows
               /\ delRecv'[p].used[q] = del'[q].used[p] + data_sizes'[p][q]
               /\ del'[q].used[p] <= delRecv'[p].used[q]
    <3>1. ReqSlots(p, q)' = er(p)[q] /\ er(p)[q] <= Most(er(p)) /\ Most(er(p)) <= rr(p)
          /\ er(p)[q] \in Nat /\ Most(er(p)) \in Nat /\ rr(p) \in Nat
      BY <1>2, <1>3, <1>4, <1>5 DEF ReqSlots
    <3>2. delRecv'[p].used[q] = del'[q].used[p] + data_sizes'[p][q]
      BY <1>2, <1>3, <2>2
    <3>3. del[q].used[p] \in Nat /\ data_sizes[p][q] \in Nat
      BY <1>1 DEF Types, Table, AtLeastIndex
    <3>4. del'[q].used[p] <= delRecv'[p].used[q]
      <4>1. del'[q].used[p] = del[q].used[p] /\ data_sizes'[p][q] = data_sizes[p][q]
        BY <1>2
      <4> QED BY <3>2, <3>3, <4>1
    <3>5. ReqSlots(p, q)' <= reqRecv'[p].rows
      BY <2>2, <3>1
    <3> QED BY <3>2, <3>4, <3>5
  <2> QED BY <2>1, <2>3, <2>4
<1>10. GrowthBounded'
  <2> SUFFICES ASSUME NEW p \in Proc
               PROVE  /\ req'[p].rows     <= Max({ReqMin, 2 * peak'[p].req})
                      /\ reqRecv'[p].rows <= Max({ReqMin, 2 * peak'[p].reqRecv})
                      /\ del'[p].rows     <= Max({DelivMin + IndexSlots, 2 * peak'[p].del})
                      /\ delRecv'[p].rows <= Max({DelivMin + IndexSlots, 2 * peak'[p].delRecv})
    BY DEF GrowthBounded
  <2>1. /\ peak'[p].req = peak[p].req /\ peak'[p].del = peak[p].del
        /\ peak'[p].reqRecv = pr(p) /\ peak'[p].delRecv = pd(p)
        /\ reqRecv'[p].rows = rr(p) /\ delRecv'[p].rows = dr(p)
    <3>1. peak[p] \in [req : Nat, del : Nat, reqRecv : Nat, delRecv : Nat]
      BY <1>1 DEF Types
    <3> QED BY <1>2, <3>1
  <2>2. /\ req[p].rows     <= Max({ReqMin, 2 * peak[p].req})
        /\ reqRecv[p].rows <= Max({ReqMin, 2 * peak[p].reqRecv})
        /\ del[p].rows     <= Max({DelivMin + IndexSlots, 2 * peak[p].del})
        /\ delRecv[p].rows <= Max({DelivMin + IndexSlots, 2 * peak[p].delRecv})
    BY <1>1 DEF GrowthBounded
  <2>3. /\ reqRecv[p].rows \in Nat /\ delRecv[p].rows \in Nat
        /\ ReqMin \in Nat /\ DelivMin + IndexSlots \in Nat
    BY <1>1, MinAssumption DEF Types, Table, IndexSlots
  <2>4. rr(p) <= Max({ReqMin, 2 * pr(p)})
    <3>1. rr(p) = reqRecv[p].rows \/ rr(p) <= 2 * pr(p)
      BY <1>4, <1>5, <1>6
    <3> QED BY <1>5, <1>6, <2>2, <2>3, <3>1, BoundKept
  <2>5. dr(p) <= Max({DelivMin + IndexSlots, 2 * pd(p)})
    <3>1. dr(p) = delRecv[p].rows \/ dr(p) <= 2 * pd(p)
      BY <1>4, <1>5, <1>6
    <3> QED BY <1>5, <1>6, <2>2, <2>3, <3>1, BoundKept
  <2> QED BY <1>2, <2>1, <2>2, <2>4, <2>5
<1> QED BY <1>7, <1>8, <1>9, <1>10 DEF IInv

LEMMA RequestsKeep ==
  ASSUME IInv, ExchangeRequests
  PROVE  IInv'
<1> DEFINE a(p) == Answered(p)
           pd(p) == Max({peak[p].del, Most(a(p).used)})
<1>1. Types /\ Reckoned /\ Room /\ GrowthBounded
  BY DEF IInv
<1>2. /\ phase = "req" /\ phase' = "deliv"
      /\ UNCHANGED <<calls, syncs, req, data_sizes, reqRecv, delRecv>>
      /\ del' = [p \in Proc |-> a(p)]
      /\ peak' = [p \in Proc |-> [peak[p] EXCEPT !.del = pd(p)]]
  BY DEF ExchangeRequests
<1>3. ASSUME NEW p \in Proc
      PROVE  /\ a(p) \in Table /\ Fit(a(p)) /\ GrownFrom(del[p], a(p))
             /\ \A q \in Proc : a(p).used[q] <= del[p].used[q] + data_sizes[q][p]
  <2> DEFINE most == [q \in Proc |-> data_sizes[q][p]]
  <2>1. most \in [Proc -> Nat] /\ del[p] \in Table /\ Fit(del[p])
    BY <1>1 DEF Types, Room
  <2>2. ASSUME NEW q \in Proc
        PROVE  /\ req[q].column[p] \in Seq(Sizes)
               /\ \E n \in Nat : Total(req[q].column[p], n) /\ n <= most[q]
    <3>1. req[q].column[p] \in Seq(Sizes)
      BY <1>1 DEF Types, ReqTable
    <3>2. \E n \in Nat : Total(req[q].column[p], n) /\ n <= data_sizes[q][p]
      BY <1>1 DEF Reckoned
    <3> QED BY <3>1, <3>2
  <2>3. \A q \in Proc : most[q] = data_sizes[q][p]
    OBVIOUS
  <2> HIDE DEF most
  <2>4. /\ a(p) \in Table /\ Fit(a(p)) /\ GrownFrom(del[p], a(p))
        /\ \A q \in Proc : a(p).used[q] <= del[p].used[q] + most[q]
    BY <2>1, <2>2, AllAnswered
  <2> QED BY <2>3, <2>4
<1>4. ASSUME NEW p \in Proc
      PROVE  /\ pd(p) \in Nat /\ peak[p].del \in Nat /\ peak[p].del <= pd(p)
             /\ \A q \in Proc : a(p).used[q] <= pd(p)
  <2> DEFINE used == a(p).used
  <2>1. peak[p].del \in Nat /\ used \in [Proc -> Nat]
    BY <1>1, <1>3 DEF Types, Table, AtLeastIndex
  <2> HIDE DEF used
  <2>2. Most(used) \in Nat /\ \A q \in Proc : used[q] <= Most(used)
    BY <2>1, MostOfColumns
  <2>3. /\ Max({peak[p].del, Most(used)}) \in Nat
        /\ peak[p].del <= Max({peak[p].del, Most(used)})
        /\ Most(used) <= Max({peak[p].del, Most(used)})
    BY <2>1, <2>2, PeakRaised
  <2>4. pd(p) = Max({peak[p].del, Most(used)})
    BY DEF used
  <2> HIDE DEF pd
  <2>5. \A q \in Proc : used[q] <= pd(p)
    BY <2>1, <2>2, <2>3, <2>4
  <2> QED BY <2>1, <2>3, <2>4, <2>5 DEF used
<1> HIDE DEF a, pd
<1>5. Types'
  <2>1. del' \in [Proc -> Table]
    BY <1>2, <1>3
  <2>2. peak' \in [Proc -> [req : Nat, del : Nat, reqRecv : Nat, delRecv : Nat]]
    <3>1. ASSUME NEW p \in Proc
          PROVE  [peak[p] EXCEPT !.del = pd(p)]
                    \in [req : Nat, del : Nat, reqRecv : Nat, delRecv : Nat]
      <4>1. peak[p] \in [req : Nat, del : Nat, reqRecv : Nat, delRecv : Nat]
        BY <1>1 DEF Types
      <4> QED BY <1>4, <4>1
    <3> QED BY <1>2, <3>1
  <2> QED BY <1>1, <1>2, <2>1, <2>2 DEF Types
<1>6. Reckoned'
  BY <1>1, <1>2 DEF Reckoned
<1>7. Room'
  <2> SUFFICES ASSUME NEW p \in Proc
               PROVE  /\ Fit(del'[p]) /\ Fit(delRecv'[p])
                      /\ \A q \in Proc :
                           /\ Len(req'[p].column[q]) <= req'[p].rows
                           /\ del'[q].used[p] <= delRecv'[p].used[q]
    BY <1>2 DEF Room
  <2>1. Fit(del'[p]) /\ Fit(delRecv'[p])
    BY <1>1, <1>2, <1>3 DEF Room
  <2>2. ASSUME NEW q \in Proc PROVE del'[q].used[p] <= delRecv'[p].used[q]
    <3>1. a(q).used[p] <= del[q].used[p] + data_sizes[p][q]
      BY <1>3
    <3>2. delRecv[p].used[q] = del[q].used[p] + data_sizes[p][q]
      BY <1>1, <1>2 DEF Room
    <3> QED BY <1>2, <3>1, <3>2
  <2> QED BY <1>1, <1>2, <2>1, <2>2 DEF Room
<1>8. GrowthBounded'
  <2> SUFFICES ASSUME NEW p \in Proc
               PROVE  /\ req'[p].rows     <= Max({ReqMin, 2 * peak'[p].req})
                      /\ reqRecv'[p].rows <= Max({ReqMin, 2 * peak'[p].reqRecv})
                      /\ del'[p].rows     <= Max({DelivMin + IndexSlots, 2 * peak'[p].del})
                      /\ delRecv'[p].rows <= Max({DelivMin + IndexSlots, 2 * peak'[p].delRecv})
    BY DEF GrowthBounded
  <2>1. /\ peak'[p].req = peak[p].req /\ peak'[p].del = pd(p)
        /\ peak'[p].reqRecv = peak[p].reqRecv /\ peak'[p].delRecv = peak[p].delRecv
        /\ del'[p] = a(p)
    <3>1. peak[p] \in [req : Nat, del : Nat, reqRecv : Nat, delRecv : Nat]
      BY <1>1 DEF Types
    <3> QED BY <1>2, <3>1
  <2>2. /\ req[p].rows     <= Max({ReqMin, 2 * peak[p].req})
        /\ reqRecv[p].rows <= Max({ReqMin, 2 * peak[p].reqRecv})
        /\ del[p].rows     <= Max({DelivMin + IndexSlots, 2 * peak[p].del})
        /\ delRecv[p].rows <= Max({DelivMin + IndexSlots, 2 * peak[p].delRecv})
    BY <1>1 DEF GrowthBounded
  <2>3. /\ del[p].rows \in Nat /\ a(p).rows \in Nat /\ DelivMin + IndexSlots \in Nat
        /\ \A q \in Proc : a(p).used[q] \in Nat
    BY <1>1, <1>3, MinAssumption DEF Types, Table, AtLeastIndex, IndexSlots
  <2>4. a(p).rows <= Max({DelivMin + IndexSlots, 2 * pd(p)})
    <3>1. a(p).rows = del[p].rows \/ a(p).rows <= 2 * pd(p)
      <4>1. CASE a(p).rows = del[p].rows
        BY <4>1
      <4>2. CASE \E q \in Proc : a(p).rows <= 2 * a(p).used[q]
        BY <1>4, <2>3, <4>2
      <4> QED BY <1>3, <4>1, <4>2 DEF GrownFrom
    <3> QED BY <1>4, <2>2, <2>3, <3>1, BoundKept
  <2> QED BY <1>2, <2>1, <2>2, <2>4
<1> QED BY <1>5, <1>6, <1>7, <1>8 DEF IInv

LEMMA DeliveriesKeep ==
  ASSUME IInv, ExchangeDeliveries
  PROVE  IInv'
<1>1. Types /\ Reckoned /\ Room /\ GrowthBounded
  BY DEF IInv
<1>2. /\ phase' = "compute" /\ syncs' = syncs + 1
      /\ UNCHANGED <<calls, reqRecv, delRecv, peak>>
      /\ req' = [p \in Proc |-> [req[p] EXCEPT !.column = EmptyReq]]
      /\ data_sizes' = [p \in Proc |-> Zero]
      /\ del' = [p \in Proc |-> [del[p] EXCEPT !.used = EmptyIndex]]
  BY DEF ExchangeDeliveries, Everywhere
<1>3. /\ EmptyIndex \in [Proc -> AtLeastIndex] /\ Zero \in [Proc -> Nat]
      /\ EmptyReq \in [Proc -> Seq(Sizes)]
  BY DEF EmptyIndex, AtLeastIndex, Zero, EmptyReq, IndexSlots
<1>4. ASSUME NEW p \in Proc
      PROVE  /\ req'[p] \in ReqTable /\ req'[p].rows = req[p].rows /\ req'[p].column = EmptyReq
             /\ del'[p] \in Table /\ del'[p].rows = del[p].rows /\ del'[p].used = EmptyIndex
  <2>1. req[p] \in ReqTable /\ del[p] \in Table
    BY <1>1 DEF Types
  <2>2. req'[p] = [req[p] EXCEPT !.column = EmptyReq] /\ del'[p] = [del[p] EXCEPT !.used = EmptyIndex]
    BY <1>2
  <2> QED BY <1>3, <2>1, <2>2 DEF ReqTable, Table
<1>5. ASSUME NEW p \in Proc PROVE Fit(del'[p]) /\ Fit(delRecv'[p])
  <2>1. Fit(del[p]) /\ Fit(delRecv[p]) /\ del[p].used[p] \in AtLeastIndex /\ del[p].rows \in Nat
    BY <1>1 DEF Types, Table, Room
  <2>2. IndexSlots <= del[p].rows
    BY <2>1 DEF Fit, AtLeastIndex, IndexSlots
  <2>3. Fit(del'[p])
    BY <1>4, <2>2 DEF Fit, EmptyIndex
  <2> QED BY <1>2, <2>1, <2>3
<1>6. Types'
  <2>1. phase' \in {"compute", "req", "deliv"} /\ calls' \in 0 .. MaxCalls /\ syncs' \in 0 .. MaxSync
        /\ phase' = "compute"
    <3>1. phase # "compute"
      BY DEF ExchangeDeliveries
    <3> QED BY <1>1, <1>2, <3>1, SizesAssumption DEF Types
  <2>2. req' \in [Proc -> ReqTable] /\ del' \in [Proc -> Table]
    BY <1>2, <1>4
  <2>3. data_sizes' \in [Proc -> [Proc -> Nat]]
    BY <1>2, <1>3
  <2> QED BY <1>1, <1>2, <2>1, <2>2, <2>3 DEF Types
<1>7. Reckoned'
  <2> SUFFICES ASSUME NEW p \in Proc, NEW q \in Proc
               PROVE  \E n \in Nat : Total(req'[p].column[q], n) /\ n <= data_sizes'[p][q]
    BY DEF Reckoned
  <2>1. req'[p].column[q] = <<>> /\ data_sizes'[p][q] = 0
    <3>1. req'[p].column = EmptyReq /\ data_sizes'[p] = Zero
      BY <1>2, <1>4
    <3> QED BY <3>1 DEF EmptyReq, Zero
  <2>2. 0 <= 0
    OBVIOUS
  <2> QED BY <2>1, <2>2, TotalOfNone
<1>8. Room'
  <2>1. ASSUME NEW p \in Proc, NEW q \in Proc PROVE Len(req'[p].column[q]) <= req'[p].rows
    <3>1. req'[p].column[q] = <<>> /\ req'[p].rows \in Nat
      BY <1>4 DEF EmptyReq, ReqTable
    <3> QED BY <3>1
  <2> QED BY <1>2, <1>5, <2>1 DEF Room
<1>9. GrowthBounded'
  BY <1>1, <1>2, <1>4 DEF GrowthBounded
<1> QED BY <1>6, <1>7, <1>8, <1>9 DEF IInv

LEMMA NextKeeps == IInv /\ [Next]_vars => IInv'
<1> SUFFICES ASSUME IInv, [Next]_vars PROVE IInv'
  OBVIOUS
<1>1. CASE \E p, q \in Proc, size \in Sizes : Deliver(p, q, size) \/ Get(p, q, size)
  BY <1>1, DeliverKeeps, GetKeeps
<1>2. CASE \E p \in Proc : ResetBuffers(p)
  BY <1>2, ResetKeeps
<1>3. CASE ExchangeInfo
  BY <1>3, InfoKeeps
<1>4. CASE ExchangeRequests
  BY <1>4, RequestsKeep
<1>5. CASE ExchangeDeliveries
  BY <1>5, DeliveriesKeep
<1>6. CASE Over \/ UNCHANGED vars
  <2>1. UNCHANGED vars
    BY <1>6 DEF Over
  <2>2. Types' /\ Reckoned' /\ Room' /\ GrowthBounded'
    BY <2>1 DEF vars, IInv, Types, Reckoned, Room, ReqSlots, GrowthBounded
  <2> QED BY <2>2 DEF IInv
<1> QED BY <1>1, <1>2, <1>3, <1>4, <1>5, <1>6 DEF Next

LEMMA AlwaysIInv == Spec => []IInv
BY InitKeeps, NextKeeps, PTL DEF Spec

-----------------------------------------------------------------------------
(* What follows from the invariant. *)

(* Every table always has the fields its type says, and the columns of the *)
(* delivery tables never reach into the index on top of them               *)
(* (deliveryTable_create, deliveryTable_reset).                            *)
THEOREM TypesCorrect == Spec => []TypeOK
<1>1. ASSUME IInv PROVE TypeOK
  <2>1. Types /\ Room
    BY <1>1 DEF IInv
  <2>2. ASSUME NEW t \in Table, Fit(t) PROVE t.rows \in AtLeastIndex /\ t.used \in [Proc -> AtLeastIndex]
    <3>1. 0 \in Proc
      BY NAssumption DEF Proc
    <3>2. t.used[0] \in AtLeastIndex /\ t.used[0] <= t.rows /\ t.rows \in Nat
      BY <2>2, <3>1 DEF Table, Fit
    <3> QED BY <3>2 DEF Table, AtLeastIndex, IndexSlots
  <2>3. ASSUME NEW p \in Proc
        PROVE  /\ req[p].rows \in Nat /\ req[p].column \in [Proc -> Seq(Sizes)]
               /\ data_sizes[p] \in [Proc -> Nat]
               /\ reqRecv[p].rows \in Nat /\ reqRecv[p].used \in [Proc -> Nat]
               /\ del[p] \in Table /\ Fit(del[p]) /\ delRecv[p] \in Table /\ Fit(delRecv[p])
    BY <2>1 DEF Types, ReqTable, Room
  <2> QED BY <2>1, <2>2, <2>3 DEF TypeOK, Types
<1> QED BY <1>1, AlwaysIInv, PTL

(* No table is ever written beyond its rows: the rows that bspx_sync gives *)
(* the received tables before the exchange suffice for what arrives, the   *)
(* answers to the gets included (deliveryTable_push, requestTable_execute, *)
(* bspx_get's data_sizes).                                                 *)
THEOREM NothingOverflows == Spec => []Fits
<1>1. ASSUME IInv PROVE Fits
  <2>1. Room
    BY <1>1 DEF IInv
  <2> QED BY <2>1 DEF Room, Fit, Fits
<1> QED BY <1>1, AlwaysIInv, PTL

(* No table is ever more than twice as large as the most one of its        *)
(* columns had to hold since its last reset, or its first size             *)
(* (deliveryTable_push, fixedElSizeTable_push, bspx_sync).                 *)
THEOREM GrowthAlwaysBounded == Spec => []GrowthBounded
<1>1. IInv => GrowthBounded
  BY DEF IInv
<1> QED BY <1>1, AlwaysIInv, PTL

=============================================================================
