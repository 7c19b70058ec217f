------------------------------ MODULE Recursion ------------------------------
(***************************************************************************)
(* Induction and recursion over the natural numbers, in a form that the    *)
(* proofs of this project can cite: sets and functions take the place of   *)
(* the operators in the statements of the library.  From them follow facts *)
(* about maxima, sums and the k-th element of a set, which the models take *)
(* from the community modules.  The lemmas about division and about the    *)
(* blocks of Placement are here for the same reason: several proofs share  *)
(* them.                                                                   *)
(***************************************************************************)
EXTENDS Integers, Placement, Sequences, FiniteSets, FiniteSetsExt, Functions,
        FiniteSetTheorems, SequenceTheorems, WellFoundedInduction, TLAPS

(* A set of natural numbers has a least element. *)
LEMMA LeastNumber ==
  ASSUME NEW T \in SUBSET Nat, T # {}
  PROVE  \E n \in T : \A m \in T : n <= m
<1> DEFINE R == OpToRel(<, Nat)
<1>1. IsWellFoundedOn(R, Nat)
  BY NatLessThanWellFounded
<1>2. \A m, n \in Nat : m < n => <<m, n>> \in R
  BY DEF R, OpToRel
<1> HIDE DEF R
<1>3. PICK n \in T : \A m \in T : ~(<<m, n>> \in R)
  BY <1>1, WFMin
<1>4. \A m \in T : n <= m
  <2> SUFFICES ASSUME NEW m \in T, ~(n <= m) PROVE FALSE
    OBVIOUS
  <2>1. m \in Nat /\ n \in Nat
    OBVIOUS
  <2>2. m < n
    BY <2>1
  <2> QED BY <1>2, <1>3, <2>1, <2>2, Zenon
<1> QED BY <1>4

(* Induction: to prove P for all natural numbers, take {n \in Nat : P(n)}. *)
LEMMA Induction ==
  ASSUME NEW T \in SUBSET Nat, 0 \in T, \A n \in T : n + 1 \in T
  PROVE  T = Nat
<1> SUFFICES ASSUME T # Nat PROVE FALSE
  OBVIOUS
<1>1. PICK n \in Nat \ T : \A m \in Nat \ T : n <= m
  BY LeastNumber
<1>2. n # 0 /\ n - 1 \in Nat /\ n - 1 \in T
  BY <1>1
<1> QED BY <1>1, <1>2

(* Induction up to a bound. *)
LEMMA BoundedInduction ==
  ASSUME NEW n \in Nat, NEW T, 0 \in T, \A k \in 0 .. n-1 : k \in T => k + 1 \in T
  PROVE  0 .. n \subseteq T
<1> DEFINE S == {k \in Nat : k <= n => k \in T}
<1>1. \A k \in S : k + 1 \in S
  OBVIOUS
<1>2. S = Nat
  <2> HIDE DEF S
  <2>1. S \in SUBSET Nat /\ 0 \in S
    BY DEF S
  <2> QED BY <1>1, <2>1, Induction
<1> QED BY <1>2

(* The larger of two numbers. *)
LEMMA MaxOfTwo ==
  ASSUME NEW a \in Int, NEW b \in Int
  PROVE  Max({a, b}) = IF a >= b THEN a ELSE b
<1>1. \E x \in {a, b} : \A y \in {a, b} : x >= y
  OBVIOUS
<1>2. Max({a, b}) \in {a, b} /\ \A y \in {a, b} : Max({a, b}) >= y
  BY <1>1 DEF Max
<1> QED BY <1>2

(* The maximum of a finite set of numbers. *)
LEMMA MaxOfInterval ==
  ASSUME NEW n \in Nat, NEW s \in SUBSET (0 .. n), s # {}
  PROVE  /\ Max(s) \in s
         /\ \A y \in s : y <= Max(s)
<1> DEFINE T == {n - y : y \in s}
<1>1. T \in SUBSET Nat /\ T # {}
  <2>1. \A y \in s : n - y \in Nat
    OBVIOUS
  <2> QED BY <2>1
<1>2. PICK t \in T : \A u \in T : t <= u
  <2> HIDE DEF T
  <2> QED BY <1>1, LeastNumber
<1>3. PICK x \in s : t = n - x
  BY <1>2
<1>4. \A y \in s : x >= y
  BY <1>2, <1>3
<1>5. /\ Max(s) \in s
      /\ \A y \in s : Max(s) >= y
  BY <1>4 DEF Max
<1> QED BY <1>5

(* The largest number of a family. *)
IsLargest(m, f, D) == m \in Nat /\ (\A q \in D : f[q] <= m) /\ (\E q \in D : m = f[q])

LEMMA LargestOfFamily ==
  ASSUME NEW n \in Nat \ {0}, NEW f \in [0 .. n-1 -> Nat]
  PROVE  IsLargest(Max({f[q] : q \in 0 .. n-1}), f, 0 .. n-1)
<1> DEFINE T == {k \in Nat : k <= n => \E b \in Nat : \A q \in 0 .. k-1 : f[q] <= b}
<1>1. 0 \in T
  OBVIOUS
<1>2. ASSUME NEW k \in T PROVE k + 1 \in T
  <2> SUFFICES ASSUME k + 1 <= n
               PROVE  \E b \in Nat : \A q \in 0 .. k : f[q] <= b
    OBVIOUS
  <2>1. PICK b \in Nat : \A q \in 0 .. k-1 : f[q] <= b
    OBVIOUS
  <2>2. f[k] \in Nat
    OBVIOUS
  <2>3. b + f[k] \in Nat
    BY <2>2
  <2>4. ASSUME NEW q \in 0 .. k PROVE f[q] <= b + f[k]
    <3>1. f[q] \in Nat /\ (q = k \/ q \in 0 .. k-1)
      OBVIOUS
    <3> QED BY <2>1, <2>2, <3>1
  <2> QED BY <2>3, <2>4
<1>3. n \in T
  <2> HIDE DEF T
  <2>1. T \in SUBSET Nat
    BY DEF T
  <2> QED BY <1>1, <1>2, <2>1, Induction
<1>4. PICK b \in Nat : \A q \in 0 .. n-1 : f[q] <= b
  BY <1>3
<1> DEFINE S == {f[q] : q \in 0 .. n-1}
<1>5. S \in SUBSET (0 .. b) /\ S # {}
  BY <1>4
<1>6. Max(S) \in S /\ \A y \in S : y <= Max(S)
  <2> HIDE DEF S
  <2> QED BY <1>5, MaxOfInterval
<1> QED BY <1>6 DEF IsLargest

(***************************************************************************)
(* The folds of the community modules recur over the subsets of the        *)
(* indices of a sequence, the largest index taken last.  For a step that   *)
(* is given as a function there is such a recursion, and on the initial    *)
(* segments of the sequence it goes through its elements in order.         *)
(***************************************************************************)
Steps(W, D) == [W \X D -> W]
Listing(n, D) == [1 .. n -> D]

Recurs(it, W, g, base, n, seq) ==
  \A s \in SUBSET (1 .. n) :
    /\ it[s] = IF s = {} THEN base ELSE g[<<it[s \ {Max(s)}], seq[Max(s)]>>]
    /\ it[s] \in W
    /\ s # {} => Max(s) \in 1 .. n /\ s \ {Max(s)} \in SUBSET (1 .. n)

LEMMA SubsetRecursion ==
  ASSUME NEW W, NEW D, NEW g \in Steps(W, D), NEW base \in W,
         NEW n \in Nat, NEW seq \in Listing(n, D)
  PROVE  \E it : Recurs(it, W, g, base, n, seq)
<1> USE DEF Steps, Listing
<1> DEFINE Rec(m, it) ==
             \A s \in SUBSET (1 .. m) :
               it[s] = IF s = {} THEN base ELSE g[<<it[s \ {Max(s)}], seq[Max(s)]>>]
           Its(m) == [SUBSET (1 .. m) -> W]
           T == {m \in Nat : m <= n => \E it \in Its(m) : Rec(m, it)}
<1>1. \E it \in Its(0) : Rec(0, it)
  <2> DEFINE it == [s \in SUBSET (1 .. 0) |-> base]
  <2>1. it \in Its(0)
    OBVIOUS
  <2>2. \A s \in SUBSET (1 .. 0) : s = {}
    OBVIOUS
  <2>3. Rec(0, it)
    BY <2>2
  <2> HIDE DEF it, Rec, Its
  <2> QED BY <2>1, <2>3
<1>2. ASSUME NEW m \in Nat, m + 1 <= n, NEW old \in Its(m), Rec(m, old)
      PROVE  \E it \in Its(m+1) : Rec(m+1, it)
  <2> DEFINE it == [s \in SUBSET (1 .. m+1) |->
                      IF m + 1 \in s THEN g[<<old[s \ {m+1}], seq[m+1]>>] ELSE old[s]]
  <2>1. \A s \in SUBSET (1 .. m) : old[s] = IF s = {} THEN base
                                       ELSE g[<<old[s \ {Max(s)}], seq[Max(s)]>>]
    BY <1>2
  <2>2. \A s \in SUBSET (1 .. m+1) : s \ {m+1} \in SUBSET (1 .. m)
    OBVIOUS
  <2>3. ASSUME NEW s \in SUBSET (1 .. m+1)
        PROVE  it[s] \in W
    <3>1. CASE m + 1 \in s
      <4>1. old[s \ {m+1}] \in W /\ seq[m+1] \in D
        BY <2>2, <1>2
      <4>2. it[s] = g[<<old[s \ {m+1}], seq[m+1]>>]
        BY <3>1
      <4> QED BY <4>1, <4>2
    <3>2. CASE m + 1 \notin s
      BY <2>2, <3>2
    <3> QED BY <3>1, <3>2
  <2>4. it \in Its(m+1)
    BY <2>3
  <2>5. ASSUME NEW s \in SUBSET (1 .. m+1)
        PROVE  it[s] = IF s = {} THEN base ELSE g[<<it[s \ {Max(s)}], seq[Max(s)]>>]
    <3>1. CASE m + 1 \in s
      <4>1. s \in SUBSET (0 .. m+1) /\ s # {} /\ m + 1 \in Nat
        BY <3>1
      <4>2. Max(s) \in s /\ \A y \in s : y <= Max(s)
        BY <4>1, MaxOfInterval
      <4>3. Max(s) \in 1 .. m+1 /\ m + 1 <= Max(s)
        BY <3>1, <4>2
      <4>4. Max(s) = m + 1
        BY <4>3
      <4>5. it[s \ {m+1}] = old[s \ {m+1}]
        BY <2>2
      <4> QED BY <3>1, <4>4, <4>5
    <3>2. CASE m + 1 \notin s /\ s = {}
      BY <2>1, <3>2
    <3>3. CASE m + 1 \notin s /\ s # {}
      <4>1. s \in SUBSET (1 .. m) /\ s \in SUBSET (0 .. m)
        BY <3>3
      <4>2. Max(s) \in s
        BY <3>3, <4>1, MaxOfInterval
      <4>3. it[s] = old[s] /\ it[s \ {Max(s)}] = old[s \ {Max(s)}]
        BY <3>3
      <4> QED BY <2>1, <3>3, <4>1, <4>3
    <3> QED BY <3>1, <3>2, <3>3
  <2>6. Rec(m+1, it)
    BY <2>5
  <2> HIDE DEF it, Rec, Its
  <2> QED BY <2>4, <2>6
<1>3. n \in T
  <2> HIDE DEF Rec, Its
  <2>1. T \in SUBSET Nat /\ 0 \in T
    BY <1>1
  <2>2. \A m \in T : m + 1 \in T
    BY <1>2
  <2> HIDE DEF T
  <2> QED BY <2>1, <2>2, Induction
<1>4. PICK it \in Its(n) : Rec(n, it)
  <2> HIDE DEF Rec, Its
  <2> QED BY <1>3
<1>5. \A s \in SUBSET (1 .. n) : it[s] \in W
  BY <1>4
<1>6. ASSUME NEW s \in SUBSET (1 .. n), s # {}
      PROVE  Max(s) \in 1 .. n /\ s \ {Max(s)} \in SUBSET (1 .. n)
  <2>1. s \in SUBSET (0 .. n)
    OBVIOUS
  <2>2. Max(s) \in s
    BY <1>6, <2>1, MaxOfInterval
  <2> QED BY <2>2
<1>7. Recurs(it, W, g, base, n, seq)
  BY <1>4, <1>5, <1>6 DEF Recurs
<1> QED BY <1>7

(* The largest index of an initial segment, and what is before it. *)
LEMMA Segment ==
  ASSUME NEW k \in Nat \ {0}
  PROVE  /\ Max(1 .. k) = k
         /\ (1 .. k) \ {Max(1 .. k)} = 1 .. k-1
<1>1. Max(1 .. k) \in 1 .. k /\ \A y \in 1 .. k : y <= Max(1 .. k)
  <2>1. 1 .. k \in SUBSET (0 .. k) /\ 1 .. k # {} /\ k \in Nat
    OBVIOUS
  <2> QED BY <2>1, MaxOfInterval
<1>2. Max(1 .. k) = k
  BY <1>1
<1> QED BY <1>2

(* A recursion over subsets that agrees with a function where it has       *)
(* values of W goes through the sequence.                                  *)
Follows(iter, W, g, base, n, seq) ==
  \A s \in SUBSET (1 .. n) :
    IF s = {} THEN iter[s] = base
    ELSE iter[s \ {Max(s)}] \in W => iter[s] = g[<<iter[s \ {Max(s)}], seq[Max(s)]>>]

LEMMA SegmentsInOrder ==
  ASSUME NEW W, NEW D, NEW g \in Steps(W, D), NEW base \in W,
         NEW n \in Nat, NEW seq \in Listing(n, D), NEW iter,
         Follows(iter, W, g, base, n, seq)
  PROVE  \E h \in [0 .. n -> W] :
           /\ h[0] = base /\ h[n] = iter[1 .. n]
           /\ \A k \in 1 .. n : h[k-1] \in W /\ seq[k] \in D /\ h[k] = g[<<h[k-1], seq[k]>>]
<1> USE DEF Steps, Listing
<1>0. /\ iter[{}] = base
      /\ \A s \in SUBSET (1 .. n) : s # {} /\ iter[s \ {Max(s)}] \in W
           => iter[s] = g[<<iter[s \ {Max(s)}], seq[Max(s)]>>]
  BY DEF Follows
<1> DEFINE T == {k \in 0 .. n : iter[1 .. k] \in W}
<1>1. ASSUME NEW k \in 1 .. n, iter[1 .. k-1] \in W
      PROVE  iter[1 .. k] \in W /\ iter[1 .. k] = g[<<iter[1 .. k-1], seq[k]>>]
  <2>1. Max(1 .. k) = k /\ (1 .. k) \ {Max(1 .. k)} = 1 .. k-1
    <3>1. k \in Nat \ {0}
      OBVIOUS
    <3> QED BY <3>1, Segment
  <2>2. 1 .. k \in SUBSET (1 .. n) /\ 1 .. k # {}
    <3>1. \A i \in 1 .. k : i \in 1 .. n
      OBVIOUS
    <3>2. k \in 1 .. k
      OBVIOUS
    <3> QED BY <3>1, <3>2
  <2>3. iter[1 .. k] = g[<<iter[1 .. k-1], seq[k]>>]
    BY <1>0, <1>1, <2>1, <2>2
  <2>4. seq[k] \in D
    OBVIOUS
  <2> QED BY <1>1, <2>3, <2>4
<1>2. 1 .. 0 = {}
  OBVIOUS
<1>3. 0 .. n \subseteq T
  <2>1. 0 \in T
    BY <1>0, <1>2
  <2>2. ASSUME NEW k \in 0 .. n-1, k \in T PROVE k + 1 \in T
    <3>1. k + 1 \in 1 .. n /\ (k + 1) - 1 = k /\ iter[1 .. k] \in W
      BY <2>2
    <3>2. iter[1 .. k+1] \in W
      BY <3>1, <1>1
    <3> QED BY <3>1, <3>2
  <2> HIDE DEF T
  <2> QED BY <2>1, <2>2, BoundedInduction
<1> DEFINE h == [k \in 0 .. n |-> iter[1 .. k]]
<1>4. h \in [0 .. n -> W]
  BY <1>3
<1>5. h[0] = base /\ h[n] = iter[1 .. n]
  BY <1>0, <1>2
<1>6. ASSUME NEW k \in 1 .. n
      PROVE  h[k-1] \in W /\ seq[k] \in D /\ h[k] = g[<<h[k-1], seq[k]>>]
  <2>1. k - 1 \in 0 .. n /\ k \in 0 .. n
    OBVIOUS
  <2>2. iter[1 .. k-1] \in W
    BY <1>3, <2>1
  <2>3. h[k] = iter[1 .. k] /\ h[k-1] = iter[1 .. k-1]
    BY <2>1
  <2> HIDE DEF h
  <2> QED BY <1>1, <2>2, <2>3
<1> HIDE DEF h
<1> QED BY <1>4, <1>5, <1>6

(* What a recursive definition over 0 .. n stands for, when its step is    *)
(* given as a function for each number.                                    *)
StepOfEach(n, W) == [1 .. n -> [W -> W]]
Iterates(f, n, W, base, step) ==
  /\ f \in [0 .. n -> W] /\ f[0] = base
  /\ \A k \in 1 .. n : f[k] = step[k][f[k-1]]

LEMMA RecursiveFunction ==
  ASSUME NEW n \in Nat, NEW W, NEW base \in W, NEW step \in StepOfEach(n, W)
  PROVE  \E f : Iterates(f, n, W, base, step)
<1> USE DEF StepOfEach
<1> DEFINE Rec(m, f) == f[0] = base /\ \A k \in 1 .. m : f[k] = step[k][f[k-1]]
           T == {m \in 0 .. n : \E f \in [0 .. m -> W] : Rec(m, f)}
<1>1. 0 \in T
  <2> DEFINE f == [k \in 0 .. 0 |-> base]
  <2>1. f \in [0 .. 0 -> W] /\ Rec(0, f)
    OBVIOUS
  <2> HIDE DEF f, Rec
  <2> QED BY <2>1
<1>2. ASSUME NEW m \in 0 .. n-1, m \in T PROVE m + 1 \in T
  <2>1. PICK f \in [0 .. m -> W] : Rec(m, f)
    BY <1>2
  <2> DEFINE g == [k \in 0 .. m+1 |-> IF k <= m THEN f[k] ELSE step[m+1][f[m]]]
  <2>2. f[m] \in W /\ step[m+1] \in [W -> W] /\ m + 1 \in 0 .. n
    OBVIOUS
  <2>3. g \in [0 .. m+1 -> W]
    BY <2>2
  <2>4. g[0] = base
    BY <2>1
  <2>5. ASSUME NEW k \in 1 .. m+1 PROVE g[k] = step[k][g[k-1]]
    <3>1. CASE k <= m
      <4>1. g[k] = f[k] /\ g[k-1] = f[k-1] /\ k \in 1 .. m
        BY <3>1
      <4> QED BY <2>1, <4>1
    <3>2. CASE k = m + 1
      BY <3>2
    <3> QED BY <3>1, <3>2
  <2>6. Rec(m+1, g)
    BY <2>4, <2>5
  <2> HIDE DEF g, Rec
  <2> QED BY <2>2, <2>3, <2>6
<1>3. n \in T
  <2> HIDE DEF T
  <2>1. 0 .. n \subseteq T
    BY <1>1, <1>2, BoundedInduction
  <2> QED BY <2>1
<1> QED BY <1>3 DEF Iterates

(* Two such functions agree as far as their steps do. *)
GoTogether(f, g, n) ==
  /\ f[0] = g[0]
  /\ \A k \in 1 .. n : f[k-1] = g[k-1] => f[k] = g[k]

LEMMA RecursionsAgree ==
  ASSUME NEW n \in Nat, NEW f, NEW g, GoTogether(f, g, n)
  PROVE  \A k \in 0 .. n : f[k] = g[k]
<1> USE DEF GoTogether
<1> DEFINE T == {k \in 0 .. n : f[k] = g[k]}
<1>1. ASSUME NEW k \in 0 .. n-1, k \in T PROVE k + 1 \in T
  <2>1. k + 1 \in 1 .. n /\ (k + 1) - 1 = k /\ f[k] = g[k]
    BY <1>1
  <2> QED BY <2>1
<1>2. 0 \in T
  OBVIOUS
<1>3. 0 .. n \subseteq T
  <2> HIDE DEF T
  <2> QED BY <1>1, <1>2, BoundedInduction
<1> QED BY <1>3

(* The elements of a finite set of numbers can be counted in order. *)
LEMMA KthElement ==
  ASSUME NEW n \in Nat, NEW kept \in SUBSET (1 .. n), NEW k \in 1 .. Cardinality(kept)
  PROVE  \E i \in kept : Cardinality({j \in kept : j <= i}) = k
<1> DEFINE upto(i) == {j \in kept : j <= i}
<1>0. \A j \in kept : j \in Int /\ 1 <= j /\ j <= n
  OBVIOUS
<1>1. IsFiniteSet(kept) /\ Cardinality(kept) \in Nat
  <2>1. IsFiniteSet(1 .. n)
    BY FS_Interval
  <2>2. IsFiniteSet(kept)
    BY <2>1, FS_Subset
  <2> QED BY <2>2, FS_CardinalityType
<1>2. ASSUME NEW i PROVE IsFiniteSet(upto(i)) /\ Cardinality(upto(i)) \in Nat
  <2>1. IsFiniteSet(upto(i))
    BY <1>1, FS_Subset
  <2> QED BY <2>1, FS_CardinalityType
<1>3. upto(n) = kept
  BY <1>0
<1> DEFINE T == {i \in 0 .. n : k <= Cardinality(upto(i))}
<1>4. T \in SUBSET Nat /\ n \in T
  BY <1>1, <1>3
<1> HIDE DEF T
<1>5. PICK i \in T : \A m \in T : i <= m
  BY <1>4, LeastNumber
<1>6. i \in 0 .. n /\ k <= Cardinality(upto(i))
  BY <1>5 DEF T
<1>7. i # 0
  <2>1. ASSUME NEW j \in kept PROVE ~(j <= 0)
    BY <1>0
  <2>2. upto(0) = {}
    BY <2>1
  <2>3. Cardinality(upto(0)) = 0 /\ k \in Nat /\ k # 0
    BY <1>1, <2>2, FS_EmptySet
  <2> HIDE DEF upto
  <2> QED BY <1>6, <2>3
<1>8. i - 1 \in 0 .. n /\ ~(k <= Cardinality(upto(i-1)))
  <2>1. i - 1 \in 0 .. n /\ ~(i <= i-1)
    BY <1>6, <1>7
  <2>2. i - 1 \notin T
    BY <1>5, <2>1
  <2> HIDE DEF upto
  <2> QED BY <2>1, <2>2 DEF T
<1>9. i \in kept
  <2> SUFFICES ASSUME i \notin kept PROVE FALSE
    OBVIOUS
  <2>1. ASSUME NEW j \in kept PROVE j <= i <=> j <= i-1
    <3>1. j # i
      OBVIOUS
    <3> QED BY <1>0, <1>6, <3>1
  <2>2. upto(i) = upto(i-1)
    BY <2>1
  <2> HIDE DEF upto
  <2> QED BY <2>2, <1>6, <1>8
<1>10. Cardinality(upto(i)) = Cardinality(upto(i-1)) + 1
  <2>0. i \in Int /\ ~(i <= i-1) /\ i <= i /\ \A j \in kept : j <= i <=> j <= i-1 \/ j = i
    BY <1>0, <1>9
  <2>1. upto(i) = upto(i-1) \union {i} /\ i \notin upto(i-1)
    BY <1>9, <2>0
  <2> HIDE DEF upto
  <2> QED BY <1>2, <2>1, FS_AddElement
<1>11. Cardinality(upto(i)) = k
  <2> DEFINE a == Cardinality(upto(i))
             b == Cardinality(upto(i-1))
  <2>0. a \in Nat /\ b \in Nat
    BY <1>2
  <2>1. a = b + 1 /\ k <= a /\ ~(k <= b) /\ k \in Nat
    <3> HIDE DEF upto
    <3> QED BY <1>1, <1>6, <1>8, <1>10
  <2> HIDE DEF a, b
  <2>2. a = k
    BY <2>0, <2>1
  <2> QED BY <2>2 DEF a
<1> QED BY <1>9, <1>11

-----------------------------------------------------------------------------
(***************************************************************************)
(* Sums of the values of a function, over the subsets of a finite set.     *)
(***************************************************************************)
Adds(t, f, D) ==
  /\ t \in [SUBSET D -> Nat] /\ t[{}] = 0
  /\ \A s \in SUBSET D : \A x \in s : t[s] = f[x] + t[s \ {x}]

LEMMA SumsExist ==
  ASSUME NEW n \in Nat, NEW f \in [0 .. n -> Nat]
  PROVE  \E t : Adds(t, f, 0 .. n)
<1> DEFINE T == {m \in 0 .. n : \E t : Adds(t, f, 0 .. m)}
<1>1. 0 \in T
  <2> DEFINE t == [s \in SUBSET (0 .. 0) |-> IF s = {} THEN 0 ELSE f[0]]
  <2>1. t \in [SUBSET (0 .. 0) -> Nat] /\ t[{}] = 0
    OBVIOUS
  <2>2. ASSUME NEW s \in SUBSET (0 .. 0), NEW x \in s PROVE t[s] = f[x] + t[s \ {x}]
    <3>1. x = 0 /\ s # {} /\ s \ {x} = {}
      OBVIOUS
    <3>2. f[0] \in Nat
      OBVIOUS
    <3>3. t[s] = f[0] /\ t[s \ {x}] = 0
      BY <3>1
    <3> QED BY <3>1, <3>2, <3>3
  <2> HIDE DEF t
  <2>3. Adds(t, f, 0 .. 0)
    BY <2>1, <2>2 DEF Adds
  <2> QED BY <2>3
<1>2. ASSUME NEW m \in 0 .. n-1, m \in T PROVE m + 1 \in T
  <2>1. PICK old : Adds(old, f, 0 .. m)
    BY <1>2
  <2> DEFINE lower(s) == s \ {m+1}
             t == [s \in SUBSET (0 .. m+1) |->
                     IF m + 1 \in s THEN f[m+1] + old[lower(s)] ELSE old[s]]
  <2>2. /\ old \in [SUBSET (0 .. m) -> Nat] /\ old[{}] = 0
        /\ \A s \in SUBSET (0 .. m) : \A x \in s : old[s] = f[x] + old[s \ {x}]
    BY <2>1 DEF Adds
  <2>3. m \in Nat /\ m + 1 \in 0 .. n /\ f[m+1] \in Nat
    OBVIOUS
  <2>4. \A s \in SUBSET (0 .. m+1) : /\ lower(s) \in SUBSET (0 .. m)
                                     /\ m + 1 \notin s => s \in SUBSET (0 .. m)
    BY <2>3
  <2>5. t \in [SUBSET (0 .. m+1) -> Nat]
    <3> HIDE DEF lower
    <3> QED BY <2>2, <2>3, <2>4
  <2>6. t[{}] = 0
    BY <2>2
  <2>7. ASSUME NEW s \in SUBSET (0 .. m+1), NEW x \in s PROVE t[s] = f[x] + t[s \ {x}]
    <3>0. s \ {x} \in SUBSET (0 .. m+1)
      OBVIOUS
    <3>1. CASE x = m + 1
      <4>1. t[s] = f[m+1] + old[lower(s)]
        BY <3>1
      <4>2. t[s \ {x}] = old[lower(s)]
        BY <3>0, <3>1
      <4> HIDE DEF t
      <4> QED BY <3>1, <4>1, <4>2
    <3>2. CASE x # m + 1 /\ m + 1 \in s
      <4>1. t[s] = f[m+1] + old[lower(s)] /\ t[s \ {x}] = f[m+1] + old[lower(s \ {x})]
        BY <3>0, <3>2
      <4>2. lower(s \ {x}) = lower(s) \ {x} /\ x \in lower(s)
        BY <3>2
      <4>3. lower(s) \in SUBSET (0 .. m) /\ lower(s) \ {x} \in SUBSET (0 .. m)
        BY <2>4
      <4>4. x \in 0 .. n /\ f[x] \in Nat
        BY <2>3
      <4> DEFINE a == old[lower(s)]
                 b == old[lower(s) \ {x}]
                 c == f[x]
                 d == f[m+1]
      <4>5. a \in Nat /\ b \in Nat /\ a = c + b
        <5> HIDE DEF lower
        <5> QED BY <2>2, <4>2, <4>3
      <4>6. c \in Nat /\ d \in Nat
        BY <2>3, <4>4
      <4>7. t[s] = d + a /\ t[s \ {x}] = d + b
        <5> HIDE DEF t, lower
        <5> QED BY <4>1, <4>2
      <4>8. t[s] = c + t[s \ {x}]
        <5> HIDE DEF a, b, c, d, t
        <5> QED BY <4>5, <4>6, <4>7
      <4> QED BY <4>8
    <3>3. CASE m + 1 \notin s
      <4>1. t[s] = old[s] /\ t[s \ {x}] = old[s \ {x}]
        BY <3>0, <3>3
      <4>2. s \in SUBSET (0 .. m)
        BY <2>4, <3>3
      <4> HIDE DEF t
      <4> QED BY <2>2, <4>1, <4>2
    <3> QED BY <3>1, <3>2, <3>3
  <2> HIDE DEF t
  <2>8. Adds(t, f, 0 .. m+1)
    BY <2>5, <2>6, <2>7 DEF Adds
  <2>9. m + 1 \in 0 .. n
    BY <2>3
  <2> QED BY <2>8, <2>9
<1>3. 0 .. n \subseteq T
  <2> HIDE DEF T
  <2> QED BY <1>1, <1>2, BoundedInduction
<1>4. n \in T
  BY <1>3
<1> QED BY <1>4

(* Sums of functions that agree on a set are equal there. *)
AgreeOn(f, g, E) == \A x \in E : f[x] = g[x]

LEMMA SumsAgree ==
  ASSUME NEW D, NEW E, NEW t, NEW u, NEW f, NEW g, Adds(t, f, D), Adds(u, g, E),
         NEW S \in SUBSET D, S \in SUBSET E, IsFiniteSet(S), AgreeOn(f, g, S)
  PROVE  t[S] = u[S]
<1> DEFINE T == {k \in Nat : \A s \in SUBSET S : Cardinality(s) = k => t[s] = u[s]}
<1>0. \A s \in SUBSET S : IsFiniteSet(s) /\ Cardinality(s) \in Nat
  <2> SUFFICES ASSUME NEW s \in SUBSET S PROVE IsFiniteSet(s) /\ Cardinality(s) \in Nat
    OBVIOUS
  <2>1. IsFiniteSet(s)
    BY FS_Subset
  <2> QED BY <2>1, FS_CardinalityType
<1>1. 0 \in T
  <2> SUFFICES ASSUME NEW s \in SUBSET S, Cardinality(s) = 0 PROVE t[s] = u[s]
    OBVIOUS
  <2>1. s = {}
    BY <1>0, FS_EmptySet
  <2> QED BY <2>1 DEF Adds
<1>2. ASSUME NEW k \in T PROVE k + 1 \in T
  <2> SUFFICES ASSUME NEW s \in SUBSET S, Cardinality(s) = k + 1 PROVE t[s] = u[s]
    OBVIOUS
  <2>0. k \in Nat /\ Cardinality({}) = 0
    BY FS_EmptySet
  <2>1. s # {} /\ k \in Nat
    BY <2>0
  <2>2. PICK x \in s : TRUE
    BY <2>1
  <2>3. Cardinality(s \ {x}) = k
    <3>1. Cardinality(s \ {x}) = Cardinality(s) - 1
      BY <1>0, FS_RemoveElement
    <3> QED BY <2>1, <3>1
  <2>4. s \ {x} \in SUBSET S
    OBVIOUS
  <2>5. t[s \ {x}] = u[s \ {x}]
    <3>1. \A v \in SUBSET S : Cardinality(v) = k => t[v] = u[v]
      BY <1>2
    <3> HIDE DEF T
    <3> QED BY <2>3, <2>4, <3>1
  <2>6. f[x] = g[x] /\ s \in SUBSET D /\ s \in SUBSET E
    BY DEF AgreeOn
  <2>7. t[s] = f[x] + t[s \ {x}] /\ u[s] = g[x] + u[s \ {x}]
    BY <2>6 DEF Adds
  <2> QED BY <2>5, <2>6, <2>7
<1>3. T = Nat
  <2>1. T \in SUBSET Nat
    OBVIOUS
  <2> HIDE DEF T
  <2> QED BY <1>1, <1>2, <2>1, Induction
<1>4. Cardinality(S) \in T
  BY <1>0, <1>3
<1> QED BY <1>4

(* SumFunction of the community modules is such a sum. *)
LEMMA SumIs ==
  ASSUME NEW D, IsFiniteSet(D), NEW f, DOMAIN f = D, NEW t, Adds(t, f, D)
  PROVE  SumFunction(f) = t[D]
<1> DEFINE pick(s) == CHOOSE x \in s : TRUE
           Rec(it) == it = [s \in SUBSET D |-> IF s = {} THEN 0 ELSE f[pick(s)] + it[s \ {pick(s)}]]
           iter == CHOOSE it : Rec(it)
<1>1. SumFunction(f) = iter[D]
  BY Zenon DEF SumFunction, SumFunctionOnSet, FoldFunctionOnSet, MapThenFoldSet
<1>2. \A s \in SUBSET D : s # {} => pick(s) \in s /\ s \ {pick(s)} \in SUBSET D
  OBVIOUS
<1>3. Rec(t)
  <2> HIDE DEF pick
  <2>1. t = [s \in SUBSET D |-> t[s]]
    BY DEF Adds
  <2>2. \A s \in SUBSET D : t[s] = IF s = {} THEN 0 ELSE f[pick(s)] + t[s \ {pick(s)}]
    BY <1>2 DEF Adds
  <2> QED BY <2>1, <2>2
<1>4. Rec(iter)
  <2> HIDE DEF Rec
  <2> QED BY <1>3
<1> HIDE DEF iter
<1>5. \A s \in SUBSET D : iter[s] = IF s = {} THEN 0 ELSE f[pick(s)] + iter[s \ {pick(s)}]
  <2> HIDE DEF pick
  <2> QED BY <1>4
<1> DEFINE T == {k \in Nat : \A s \in SUBSET D : Cardinality(s) = k => t[s] = iter[s]}
<1>6. \A s \in SUBSET D : IsFiniteSet(s) /\ Cardinality(s) \in Nat
  <2> SUFFICES ASSUME NEW s \in SUBSET D PROVE IsFiniteSet(s) /\ Cardinality(s) \in Nat
    OBVIOUS
  <2>1. IsFiniteSet(s)
    BY FS_Subset
  <2> QED BY <2>1, FS_CardinalityType
<1>7. 0 \in T
  <2> SUFFICES ASSUME NEW s \in SUBSET D, Cardinality(s) = 0 PROVE t[s] = iter[s]
    OBVIOUS
  <2>1. s = {}
    BY <1>6, FS_EmptySet
  <2> HIDE DEF pick
  <2> QED BY <2>1, <1>5 DEF Adds
<1>8. ASSUME NEW k \in T PROVE k + 1 \in T
  <2> SUFFICES ASSUME NEW s \in SUBSET D, Cardinality(s) = k + 1 PROVE t[s] = iter[s]
    OBVIOUS
  <2>0. k \in Nat /\ Cardinality({}) = 0
    BY FS_EmptySet
  <2>1. s # {} /\ k \in Nat
    BY <2>0
  <2>2. Cardinality(s \ {pick(s)}) = k
    <3>1. pick(s) \in s
      BY <1>2, <2>1
    <3> HIDE DEF pick
    <3>2. Cardinality(s \ {pick(s)}) = Cardinality(s) - 1
      BY <1>6, <3>1, FS_RemoveElement
    <3> QED BY <2>1, <3>2
  <2>3. t[s \ {pick(s)}] = iter[s \ {pick(s)}]
    <3>1. \A v \in SUBSET D : Cardinality(v) = k => t[v] = iter[v]
      BY <1>8
    <3> HIDE DEF T, pick
    <3> QED BY <1>2, <2>1, <2>2, <3>1
  <2>4. t[s] = f[pick(s)] + t[s \ {pick(s)}]
    BY <1>2, <2>1 DEF Adds
  <2> HIDE DEF pick
  <2> QED BY <1>5, <2>1, <2>3, <2>4
<1>9. T = Nat
  <2>1. T \in SUBSET Nat
    OBVIOUS
  <2> HIDE DEF T
  <2> QED BY <1>7, <1>8, <2>1, Induction
<1>10. t[D] = iter[D]
  <2>1. Cardinality(D) \in T
    BY <1>6, <1>9
  <2> HIDE DEF pick
  <2> QED BY <2>1
<1> QED BY <1>1, <1>10

(* Sums over sets of small numbers: that of a family with one value        *)
(* changed, and that of a sequence without its first element.              *)
Families(D) == [D -> Nat]
Small(D) == \E n \in Nat : D \in SUBSET (0 .. n)

LEMMA SumOfFamily ==
  ASSUME NEW D, Small(D), NEW f \in Families(D)
  PROVE  /\ IsFiniteSet(D) /\ SumFunction(f) \in Nat
         /\ \E t : Adds(t, f, D) /\ SumFunction(f) = t[D]
<1> USE DEF Families
<1>0. PICK n \in Nat : D \in SUBSET (0 .. n)
  BY DEF Small
<1>1. IsFiniteSet(D)
  <2>1. IsFiniteSet(0 .. n)
    BY FS_Interval
  <2> QED BY <1>0, <2>1, FS_Subset
<1> DEFINE g == [i \in 0 .. n |-> IF i \in D THEN f[i] ELSE 0]
<1>2. PICK u : Adds(u, g, 0 .. n)
  <2>1. g \in [0 .. n -> Nat]
    OBVIOUS
  <2> HIDE DEF g
  <2> QED BY <2>1, SumsExist
<1> DEFINE t == [s \in SUBSET D |-> u[s]]
<1>3. Adds(t, f, D)
  <2>1. /\ u \in [SUBSET (0 .. n) -> Nat] /\ u[{}] = 0
        /\ \A s \in SUBSET (0 .. n) : \A x \in s : u[s] = g[x] + u[s \ {x}]
    BY <1>2 DEF Adds
  <2>2. \A x \in D : g[x] = f[x]
    BY <1>0
  <2> HIDE DEF g
  <2>3. t \in [SUBSET D -> Nat] /\ t[{}] = 0
    BY <1>0, <2>1
  <2>4. ASSUME NEW s \in SUBSET D, NEW x \in s PROVE t[s] = f[x] + t[s \ {x}]
    <3>1. s \in SUBSET (0 .. n) /\ s \ {x} \in SUBSET D
      BY <1>0
    <3> QED BY <2>1, <2>2, <3>1
  <2> QED BY <2>3, <2>4 DEF Adds
<1> HIDE DEF t
<1>4. SumFunction(f) = t[D]
  BY <1>1, <1>3, SumIs
<1>5. t[D] \in Nat
  BY <1>3 DEF Adds
<1> QED BY <1>1, <1>3, <1>4, <1>5

LEMMA SumOfZeros ==
  ASSUME NEW D, Small(D), NEW f \in Families(D), \A x \in D : f[x] = 0
  PROVE  SumFunction(f) = 0
<1> DEFINE t == [s \in SUBSET D |-> 0]
<1>1. Adds(t, f, D)
  BY DEF Adds
<1>2. IsFiniteSet(D) /\ DOMAIN f = D
  BY SumOfFamily DEF Families
<1>3. t[D] = 0
  OBVIOUS
<1> HIDE DEF t
<1> QED BY <1>1, <1>2, <1>3, SumIs

LEMMA SumWithOneChanged ==
  ASSUME NEW D, Small(D), NEW x \in D,
         NEW f \in Families(D), NEW g \in Families(D), AgreeOn(f, g, D \ {x})
  PROVE  SumFunction(f) + g[x] = SumFunction(g) + f[x]
<1>1. PICK t : Adds(t, f, D) /\ SumFunction(f) = t[D]
  BY SumOfFamily
<1>2. PICK u : Adds(u, g, D) /\ SumFunction(g) = u[D]
  BY SumOfFamily
<1> DEFINE S == D \ {x}
<1>3. S \in SUBSET D /\ IsFiniteSet(S)
  <2>1. IsFiniteSet(D)
    BY SumOfFamily
  <2> QED BY <2>1, FS_Subset
<1>4. t[S] = u[S]
  <2>1. AgreeOn(f, g, S)
    OBVIOUS
  <2>2. Adds(t, f, D) /\ Adds(u, g, D)
    BY <1>1, <1>2
  <2> HIDE DEF S
  <2> QED BY <1>3, <2>1, <2>2, SumsAgree
<1>5. t[D] = f[x] + t[S] /\ u[D] = g[x] + u[S] /\ t[S] \in Nat
  BY <1>1, <1>2 DEF Adds
<1>6. f[x] \in Nat /\ g[x] \in Nat
  BY DEF Families
<1> HIDE DEF S
<1> QED BY <1>1, <1>2, <1>4, <1>5, <1>6

LEMMA SumOfTail ==
  ASSUME NEW n \in Nat \ {0}, NEW f \in Families(1 .. n), NEW g \in Families(1 .. n-1),
         \A i \in 1 .. n-1 : g[i] = f[i+1]
  PROVE  SumFunction(f) = f[1] + SumFunction(g)
<1> DEFINE D == 1 .. n
           E == 1 .. n-1
           up(s) == {i + 1 : i \in s}
<1>1. PICK t : Adds(t, f, D) /\ SumFunction(f) = t[D]
  <2>1. Small(D) /\ f \in Families(D)
    BY DEF Small
  <2> HIDE DEF D
  <2> QED BY <2>1, SumOfFamily
<1>2. PICK u : Adds(u, g, E) /\ SumFunction(g) = u[E] /\ IsFiniteSet(E)
  <2>1. Small(E) /\ g \in Families(E)
    <3>1. E \in SUBSET (0 .. n) /\ n \in Nat
      OBVIOUS
    <3> QED BY <3>1 DEF Small
  <2> HIDE DEF E
  <2> QED BY <2>1, SumOfFamily
<1> DEFINE v == [s \in SUBSET E |-> t[up(s)]]
<1>3. \A s \in SUBSET E : up(s) \in SUBSET D
  OBVIOUS
<1>4. t \in [SUBSET D -> Nat] /\ t[{}] = 0
      /\ \A s \in SUBSET D : \A x \in s : t[s] = f[x] + t[s \ {x}]
  BY <1>1 DEF Adds
<1>5. Adds(v, g, E)
  <2>1. v \in [SUBSET E -> Nat]
    <3> HIDE DEF up, D, E
    <3> QED BY <1>3, <1>4
  <2>2. v[{}] = 0
    <3>1. up({}) = {} /\ {} \in SUBSET E
      OBVIOUS
    <3> HIDE DEF up, D, E
    <3> QED BY <1>4, <3>1
  <2>3. ASSUME NEW s \in SUBSET E, NEW x \in s PROVE v[s] = g[x] + v[s \ {x}]
    <3>1. x + 1 \in up(s) /\ f[x+1] = g[x]
      OBVIOUS
    <3>2. up(s) \ {x + 1} = up(s \ {x})
      <4>1. \A i \in s : i \in Int /\ (i + 1 # x + 1 <=> i # x)
        OBVIOUS
      <4> QED BY <4>1
    <3>3. s \ {x} \in SUBSET E
      OBVIOUS
    <3> HIDE DEF up, D, E
    <3>4. t[up(s)] = f[x+1] + t[up(s) \ {x+1}]
      BY <1>3, <1>4, <3>1
    <3> QED BY <3>1, <3>2, <3>3, <3>4
  <2> HIDE DEF v
  <2> QED BY <2>1, <2>2, <2>3 DEF Adds
<1>6. v[E] = u[E]
  <2>1. E \in SUBSET E /\ AgreeOn(g, g, E)
    BY DEF AgreeOn
  <2> HIDE DEF v, E
  <2> QED BY <1>2, <1>5, <2>1, SumsAgree
<1>7. v[E] = t[D \ {1}]
  <2>1. up(E) = D \ {1}
    <3>1. \A i \in D \ {1} : i - 1 \in E /\ i = (i - 1) + 1
      OBVIOUS
    <3>2. \A i \in E : i + 1 \in D \ {1}
      OBVIOUS
    <3> HIDE DEF D, E
    <3> QED BY <3>1, <3>2
  <2>2. v[E] = t[up(E)]
    <3> HIDE DEF up, D
    <3> QED OBVIOUS
  <2> QED BY <2>1, <2>2
<1>8. t[D] = f[1] + t[D \ {1}]
  <2>1. D \in SUBSET D /\ 1 \in D
    OBVIOUS
  <2> HIDE DEF D
  <2> QED BY <1>4, <2>1
<1> HIDE DEF D, E, v
<1> QED BY <1>1, <1>2, <1>6, <1>7, <1>8

-----------------------------------------------------------------------------
(***************************************************************************)
(* What is dealt out in blocks of the rounded-up quotient, as Placement    *)
(* deals out processors to nodes.                                          *)
(***************************************************************************)
(* Multiplication keeps the order. *)
LEMMA TimesMonotone ==
  ASSUME NEW a \in Int, NEW b \in Int, NEW m \in Nat, a <= b
  PROVE  a * m <= b * m
<1> DEFINE d == b - a
<1>1. d \in Nat
  OBVIOUS
<1>2. d * m \in Nat
  BY <1>1, SMT
<1>3. b * m = a * m + d * m
  BY SMT
<1> QED BY <1>2, <1>3, SMT

(* The quotient is the block a number lies in. *)
LEMMA Quotient ==
  ASSUME NEW a \in Nat, NEW m \in Nat \ {0}
  PROVE  /\ a \div m \in Nat
         /\ (a \div m) * m <= a
         /\ a < (a \div m) * m + m
  BY SMT

(* The share of a node covers the processors, and is not more than all. *)
LEMMA ShareCovers ==
  ASSUME NEW j \in Nat \ {0}, NEW k \in Nat \ {0}
  PROVE  /\ ICD(j, k) \in Nat \ {0}
         /\ j <= k * ICD(j, k)
         /\ ICD(j, k) <= j
<1> DEFINE m == ICD(j, k)
<1>1. j + k - 1 \in Nat
  OBVIOUS
<1>2. m \in Nat /\ m * k <= j + k - 1 /\ j + k - 1 < m * k + k
  BY <1>1, Quotient DEF ICD
<1>3. j <= m * k
  BY <1>2, SMT
<1>4. m # 0
  BY <1>3, SMT
<1>5. m <= j
  <2> SUFFICES ASSUME j + 1 <= m PROVE FALSE
    BY <1>2
  <2>1. (j + 1) * k <= m * k
    BY <1>2, TimesMonotone
  <2>2. (j + 1) * k = j * k + k
    BY SMT
  <2>3. j * 1 <= j * k
    BY SMT
  <2> QED BY <1>2, <2>1, <2>2, <2>3, SMT
<1> QED BY <1>2, <1>3, <1>4, <1>5, SMT

(* The block of a processor exists, and holds it. *)
LEMMA BlockOf ==
  ASSUME NEW j \in Nat, NEW k \in Nat \ {0}, NEW q \in 0 .. j-1
  PROVE  /\ ICD(j, k) \in Nat \ {0} /\ ICD(j, k) <= j /\ j <= k * ICD(j, k)
         /\ NodeOf(j, k, q) \in 0 .. k-1
         /\ NodeOf(j, k, q) * ICD(j, k) \in Nat
         /\ NodeOf(j, k, q) * ICD(j, k) <= q
         /\ q < NodeOf(j, k, q) * ICD(j, k) + ICD(j, k)
<1> DEFINE m == ICD(j, k)
           n == q \div m
<1>1. m \in Nat \ {0} /\ m <= j /\ j <= k * m
  BY ShareCovers
<1>2. n \in Nat /\ n * m <= q /\ q < n * m + m
  BY <1>1, Quotient
<1>3. n < k
  <2> SUFFICES ASSUME k <= n PROVE FALSE
    BY <1>2
  <2>1. k * m <= n * m
    BY <1>1, <1>2, TimesMonotone
  <2> QED BY <1>1, <1>2, <2>1, SMT
<1>4. n * m \in Nat
  BY <1>1, <1>2, SMT
<1> QED BY <1>1, <1>2, <1>3, <1>4 DEF NodeOf

(* A processor of one block is in no other. *)
LEMMA OtherBlock ==
  ASSUME NEW n \in Nat, NEW o \in Nat, NEW m \in Nat \ {0}, NEW q \in Nat,
         n * m <= q, q < n * m + m, o # n
  PROVE  o * m \in Nat /\ (q < o * m \/ o * m + m <= q)
<1>1. o * m \in Nat /\ n * m \in Nat
  BY SMT
<1>2. CASE o < n
  <2>1. (o + 1) * m <= n * m
    BY <1>2, TimesMonotone
  <2>2. (o + 1) * m = o * m + m
    BY SMT
  <2> QED BY <1>1, <2>1, <2>2, SMT
<1>3. CASE n < o
  <2>1. (n + 1) * m <= o * m
    BY <1>3, TimesMonotone
  <2>2. (n + 1) * m = n * m + m
    BY SMT
  <2> QED BY <1>1, <2>1, <2>2, SMT
<1> QED BY <1>2, <1>3

(* The processors of a node are numbered without gaps. *)
Dealt(j, k, n) == {q \in 0 .. j-1 : NodeOf(j, k, q) = n}

LEMMA PlacesOfNode ==
  ASSUME NEW j \in Nat, NEW k \in Nat \ {0}, NEW n \in Nat
  PROVE  /\ Cardinality(Dealt(j, k, n)) \in Nat
         /\ \A i \in 1 .. Cardinality(Dealt(j, k, n)) :
              \E q \in Dealt(j, k, n) : LocalOf(j, k, q) = i - 1
<1> DEFINE m == ICD(j, k)
           lo == n * m
           hi == IF lo + m <= j THEN lo + m ELSE j
           on == Dealt(j, k, n)
           c == Cardinality(on)
<1>1. c \in Nat
  <2>1. IsFiniteSet(0 .. j-1)
    BY FS_Interval
  <2>2. IsFiniteSet(on)
    BY <2>1, FS_Subset DEF Dealt
  <2> QED BY <2>2, FS_CardinalityType
<1>2. ASSUME NEW i \in 1 .. c PROVE \E q \in on : LocalOf(j, k, q) = i - 1
  <2>1. j # 0
    <3> SUFFICES ASSUME j = 0 PROVE FALSE
      OBVIOUS
    <3>1. on = {}
      BY DEF Dealt
    <3> QED BY <1>1, <1>2, <3>1, FS_EmptySet
  <2>2. m \in Nat \ {0} /\ lo \in Nat
    <3>1. m \in Nat \ {0}
      BY <2>1, ShareCovers
    <3> HIDE DEF m
    <3> QED BY <3>1, SMT
  <2>3. ASSUME NEW q \in 0 .. j-1
        PROVE  /\ NodeOf(j, k, q) = n <=> q \in lo .. lo + m - 1
               /\ LocalOf(j, k, q) = q - NodeOf(j, k, q) * m
    <3> DEFINE h == NodeOf(j, k, q)
    <3>1. /\ h \in 0 .. k-1 /\ h * m \in Nat /\ h * m <= q /\ q < h * m + m
      BY BlockOf
    <3>2. LocalOf(j, k, q) = q - h * m
      BY DEF LocalOf
    <3>3. h = n \/ q < lo \/ lo + m <= q
      <4>1. h \in Nat /\ q \in Nat
        BY <3>1
      <4> HIDE DEF h, m
      <4> QED BY <2>2, <3>1, <4>1, OtherBlock
    <3>4. q \in Nat
      OBVIOUS
    <3> HIDE DEF h, m
    <3>5. h = n <=> q \in lo .. lo + m - 1
      BY <2>2, <3>1, <3>3, <3>4
    <3> QED BY <3>2, <3>5 DEF h
  <2>4. on = lo .. hi - 1
    <3> HIDE DEF m
    <3>1. on = {q \in 0 .. j-1 : q \in lo .. lo + m - 1}
      BY <2>3 DEF Dealt
    <3> HIDE DEF lo
    <3> QED BY <2>2, <3>1
  <2>5. lo + (i - 1) \in on
    <3>1. lo \in Int /\ hi - 1 \in Int
      <4> HIDE DEF m, lo
      <4> QED BY <2>2
    <3> HIDE DEF lo, hi, on
    <3>2. c = IF lo <= hi - 1 THEN (hi - 1) - lo + 1 ELSE 0
      BY <2>4, <3>1, FS_Interval
    <3> QED BY <1>1, <2>4, <3>1, <3>2
  <2>6. LocalOf(j, k, lo + (i - 1)) = i - 1
    <3> DEFINE q == lo + (i - 1)
    <3>1. q \in 0 .. j-1 /\ NodeOf(j, k, q) = n
      BY <2>5 DEF Dealt
    <3> HIDE DEF q
    <3>2. LocalOf(j, k, q) = q - n * m
      BY <2>3, <3>1
    <3> HIDE DEF m
    <3> QED BY <2>2, <3>2 DEF q
  <2> HIDE DEF on, lo
  <2> QED BY <2>5, <2>6
<1> QED BY <1>1, <1>2

(* Sequences of which nothing is known but that they are sequences. *)

IsSequence(s) == \E S : s \in Seq(S)

LEMMA AppendToSequence ==
  ASSUME NEW s, IsSequence(s), NEW e
  PROVE  /\ IsSequence(Append(s, e))
         /\ Len(s) \in Nat /\ Len(Append(s, e)) = Len(s) + 1
         /\ Append(s, e)[Len(s) + 1] = e
         /\ \A i \in 1 .. Len(s) : Append(s, e)[i] = s[i]
<1>1. PICK S : s \in Seq(S)
  BY DEF IsSequence
<1> DEFINE T == S \union {e}
<1>2. s \in Seq(T) /\ e \in T
  BY <1>1, SeqMonotonic
<1>3. Append(s, e) \in Seq(T)
  BY <1>2
<1> HIDE DEF T
<1> QED BY <1>2, <1>3 DEF IsSequence

=============================================================================
