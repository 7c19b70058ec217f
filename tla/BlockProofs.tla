----------------------------- MODULE BlockProofs -----------------------------
(***************************************************************************)
(* Proofs about what is dealt out in blocks of the rounded-up quotient:    *)
(* logical processors to nodes (TaskMapper) and the bytes of a global      *)
(* array to processes (GlobalArray).                                       *)
(*                                                                         *)
(* TaskMapper: with m the rounded-up quotient, node n has the processors   *)
(* from n*m on, and as soon as node 0 is full max_procs_per_node is m.     *)
(* So the slot of a processor in which_global is the processor's own       *)
(* number, and no two processors share a slot.                             *)
(*                                                                         *)
(* GlobalArray: byte b of the array is byte b % m of the slice of process  *)
(* b \div m.  A round of the loop that cuts a range goes to the end of a   *)
(* slice or of the range, so that each piece is the part of the range in   *)
(* one slice; and pieces of one call that meet would write the same.       *)
(***************************************************************************)
EXTENDS TaskMapper, GlobalArray, SequenceTheorems, Recursion

-----------------------------------------------------------------------------
LEMMA MppnIsNat == Arguments => Mppn \in Nat
<1> SUFFICES ASSUME Arguments PROVE Mppn \in Nat
  OBVIOUS
<1>1. processors + nprocs - 1 \in Nat
  BY DEF Arguments
<1> QED BY <1>1, Quotient DEF Arguments, Mppn, ICD

LEMMA InitMapper == Init => MapperInv
<1> SUFFICES ASSUME Init PROVE MapperInv
  OBVIOUS
<1>1. Arguments
  BY SizesAssumption DEF Init, Arguments
<1>2. PlacesRight
  BY <1>1 DEF Init, PlacesRight, Placed, Arguments, Global
<1>3. CountsRight
  <2>1. Mppn \in Nat
    BY <1>1, MppnIsNat
  <2>2. \A n \in Node : n * Mppn \in Nat
    BY <1>1, <2>1 DEF Node, Arguments
  <2>3. \A n \in Node : Taken(0, n) = 0
    BY <2>1, <2>2 DEF Taken
  <2> QED BY <1>1, <2>1, <2>3 DEF Init, CountsRight, Placed, Arguments
<1>4. IndexRight
  BY DEF Init, IndexRight
<1> QED BY <1>1, <1>2, <1>3, <1>4 DEF MapperInv

(* The first loop: only the node of p has one more. *)
LEMMA PlaceKeeps == MapperInv /\ Place => MapperInv'
<1> SUFFICES ASSUME MapperInv, Place PROVE MapperInv'
  OBVIOUS
<1> DEFINE n == NodeOf(processors, nprocs, p)
           m == Mppn
<1>1. Arguments /\ loop = "place" /\ p \in Global /\ Placed = p /\ p \in Nat
  BY DEF MapperInv, Arguments, Place, Global, Placed
<1>2. m \in Nat \ {0} /\ m <= processors /\ n \in Node /\ n \in Nat /\ n * m \in Nat /\ n * m <= p /\ p < n * m + m
  BY <1>1, BlockOf DEF Mppn, Arguments, Global, Node
<1>3. UNCHANGED <<processors, nprocs, my_node, loop>> /\ p' = p + 1
  BY DEF Place, args
<1>4. Arguments'
  BY <1>1, <1>3 DEF Arguments, Node, Global
<1>5. Global' = Global /\ Node' = Node /\ Mppn' = Mppn /\ Placed' = p + 1
  BY <1>1, <1>3 DEF Global, Node, Mppn, Placed
<1>6. PlacesRight'
  <2>1. LocalOf(processors, nprocs, p) = p - n * m /\ p - n * m \in Int
    BY <1>1, <1>2 DEF LocalOf, Mppn
  <2>2. /\ where_is_node' \in [Global -> Int] /\ where_is_local' \in [Global -> Int]
        /\ where_is_local_here' \in [Global -> Int]
    BY <1>1, <1>2, <2>1 DEF Place, MapperInv, PlacesRight
  <2>3. ASSUME NEW q \in Global, q < p + 1
        PROVE  /\ where_is_node'[q] = Where(q)
               /\ where_is_local'[q] = q - Where(q) * m
               /\ where_is_local_here'[q] = IF Where(q) = my_node THEN where_is_local'[q] ELSE -1
    <3>1. CASE q = p
      BY <1>1, <2>1, <3>1 DEF Place, MapperInv, PlacesRight, Where
    <3>2. CASE q # p
      <4>1. q < p
        BY <1>1, <2>3, <3>2 DEF Global, Arguments
      <4> QED BY <1>1, <3>2, <4>1 DEF Place, MapperInv, PlacesRight
    <3> QED BY <3>1, <3>2
  <2>4. \A q : Where(q)' = Where(q)
    BY <1>3 DEF Where
  <2> QED BY <1>3, <1>5, <2>2, <2>3, <2>4 DEF PlacesRight
<1>7. CountsRight'
  <2>1. procs_on_node = [o \in Node |-> Taken(p, o)] /\ procs_on_this_node = Taken(p, my_node)
    BY <1>1 DEF MapperInv, CountsRight
  <2>2. max_procs_per_node = IF p < m THEN p ELSE m
    BY <1>1 DEF MapperInv, CountsRight
  <2>3. Taken(p, n) = p - n * m /\ Taken(p + 1, n) = p + 1 - n * m
    BY <1>1, <1>2 DEF Taken
  <2>4. \A o \in Node \ {n} : Taken(p + 1, o) = Taken(p, o)
    <3> SUFFICES ASSUME NEW o \in Node, o # n PROVE Taken(p + 1, o) = Taken(p, o)
      OBVIOUS
    <3>1. o \in Nat
      BY <1>1 DEF Node, Arguments
    <3>2. o * m \in Nat /\ (p < o * m \/ o * m + m <= p)
      BY <1>1, <1>2, <3>1, OtherBlock
    <3> QED BY <1>1, <1>2, <3>2 DEF Taken
  <2>5. procs_on_node'[n] = p + 1 - n * m
    BY <1>1, <1>2, <2>1, <2>3 DEF Place
  <2>6. procs_on_node' = [o \in Node |-> Taken(p + 1, o)]
    BY <1>1, <1>2, <2>1, <2>3, <2>4 DEF Place
  <2>7. procs_on_this_node' = Taken(p + 1, my_node)
    <3>1. CASE n = my_node
      BY <1>1, <1>2, <2>1, <2>3, <3>1 DEF Place
    <3>2. CASE n # my_node
      BY <1>1, <1>2, <2>1, <2>4, <3>2 DEF Place, Arguments
    <3> QED BY <3>1, <3>2
  <2>8. max_procs_per_node' = IF p + 1 < m THEN p + 1 ELSE m
    <3>1. max_procs_per_node' = IF p + 1 - n * m > max_procs_per_node
                                  THEN p + 1 - n * m ELSE max_procs_per_node
      BY <2>5 DEF Place
    <3>2. n = 0 => n * m = 0
      BY <1>2
    <3>3. n # 0 => m <= n * m
      <4>1. n # 0 => 1 * m <= n * m
        BY <1>2, TimesMonotone
      <4> QED BY <1>2, <4>1
    <3>4. CASE n = 0
      <4>1. p + 1 - n * m = p + 1 /\ p < m
        BY <1>1, <1>2, <3>2, <3>4
      <4> QED BY <1>1, <1>2, <2>2, <3>1, <4>1
    <3>5. CASE n # 0
      <4>1. m <= p /\ ~(p < m) /\ ~(p + 1 < m)
        BY <1>1, <1>2, <3>3, <3>5
      <4>2. ~(p + 1 - n * m > m)
        BY <1>1, <1>2
      <4>3. max_procs_per_node = m
        BY <2>2, <4>1
      <4> QED BY <3>1, <4>1, <4>2, <4>3
    <3> QED BY <3>4, <3>5
  <2>9. \A o \in Node : Taken(Placed, o)' = Taken(p + 1, o)
    BY <1>5 DEF Taken
  <2>10. Taken(Placed, my_node)' = Taken(p + 1, my_node)
    BY <1>3, <1>5 DEF Taken
  <2> QED BY <1>5, <2>6, <2>7, <2>8, <2>9, <2>10 DEF CountsRight
<1>8. IndexRight'
  BY <1>1, <1>3 DEF IndexRight
<1> QED BY <1>4, <1>6, <1>7, <1>8 DEF MapperInv

LEMMA AllocateKeeps == MapperInv /\ Allocate => MapperInv'
<1> SUFFICES ASSUME MapperInv, Allocate PROVE MapperInv'
  OBVIOUS
<1>1. UNCHANGED <<processors, nprocs, my_node, places, counts>> /\ loop = "place" /\ loop' = "index"
      /\ p = processors /\ p' = 0
  BY DEF Allocate, args
<1>2. Placed' = Placed /\ Global' = Global /\ Node' = Node /\ Mppn' = Mppn
  BY <1>1 DEF Placed, Global, Node, Mppn
<1>3. Arguments'
  BY <1>1 DEF MapperInv, Arguments, Node
<1>4. PlacesRight'
  BY <1>1, <1>2 DEF MapperInv, PlacesRight, places, Where
<1>5. CountsRight'
  BY <1>1, <1>2 DEF MapperInv, CountsRight, counts, Taken
<1>6. IndexRight'
  BY <1>1, <1>2 DEF MapperInv, Arguments, IndexRight, Allocate, counts, Global
<1> QED BY <1>3, <1>4, <1>5, <1>6 DEF MapperInv

(* With all processors placed, the slot of a processor is the processor. *)
LEMMA SlotIsProcessor ==
  ASSUME Arguments, PlacesRight, CountsRight, loop # "place", NEW q \in Global
  PROVE  /\ Slot(where_is_node[q], where_is_local[q]) = q
         /\ Slot(Where(q), q - Where(q) * Mppn) = q
         /\ q \in 0 .. nprocs * max_procs_per_node - 1
         /\ max_procs_per_node = Mppn
<1>1. Placed = processors /\ q \in Nat /\ q < processors
  BY DEF Placed, Global, Arguments
<1>2. /\ Mppn \in Nat \ {0} /\ Mppn <= processors /\ processors <= nprocs * Mppn
      /\ Where(q) \in Node /\ Where(q) * Mppn \in Nat
  BY BlockOf DEF Arguments, Global, Mppn, Where, Node
<1>3. max_procs_per_node = Mppn
  BY <1>1, <1>2 DEF CountsRight, Arguments
<1>4. where_is_node[q] = Where(q) /\ where_is_local[q] = q - Where(q) * Mppn
  BY <1>1 DEF PlacesRight
<1>5. Slot(Where(q), q - Where(q) * Mppn) = q
  BY <1>1, <1>2, <1>3 DEF Slot
<1>6. q <= nprocs * Mppn - 1
  BY <1>1, <1>2 DEF Arguments
<1> QED BY <1>1, <1>3, <1>4, <1>5, <1>6

LEMMA IndexKeeps == MapperInv /\ Index => MapperInv'
<1> SUFFICES ASSUME MapperInv, Index PROVE MapperInv'
  OBVIOUS
<1>1. UNCHANGED <<processors, nprocs, my_node, loop, places, counts>> /\ loop = "index" /\ p' = p + 1
      /\ p \in Global /\ p \in Nat /\ p + 1 <= processors
  BY DEF Index, args, MapperInv, Arguments, Global
<1>2. Placed' = Placed /\ Global' = Global /\ Node' = Node /\ Mppn' = Mppn
  BY <1>1 DEF Placed, Global, Node, Mppn
<1>3. Arguments'
  BY <1>1 DEF MapperInv, Arguments, Node
<1>4. PlacesRight'
  BY <1>1, <1>2 DEF MapperInv, PlacesRight, places, Where
<1>5. CountsRight'
  BY <1>1, <1>2 DEF MapperInv, CountsRight, counts, Taken
<1>6. IndexRight'
  <2>1. which_global' = [which_global EXCEPT ![p] = p] /\ p \in DOMAIN which_global
    BY <1>1, SlotIsProcessor DEF Index, MapperInv, IndexRight
  <2>2. \A q \in Global : q < p + 1 => which_global'[q] = q
    <3> SUFFICES ASSUME NEW q \in Global, q < p + 1 PROVE which_global'[q] = q
      OBVIOUS
    <3>1. q \in DOMAIN which_global
      BY <1>1, SlotIsProcessor DEF MapperInv, IndexRight
    <3>2. q = p \/ q < p
      BY <1>1 DEF Global, MapperInv, Arguments
    <3> QED BY <1>1, <2>1, <3>1, <3>2 DEF MapperInv, IndexRight
  <2>3. DOMAIN which_global' = 0 .. nprocs * max_procs_per_node - 1
    BY <1>1, <2>1 DEF MapperInv, IndexRight
  <2> QED BY <1>1, <1>2, <2>2, <2>3 DEF IndexRight, counts
<1> QED BY <1>3, <1>4, <1>5, <1>6 DEF MapperInv

LEMMA CreateKeeps == MapperInv /\ CreateContexts => MapperInv'
<1> SUFFICES ASSUME MapperInv, CreateContexts PROVE MapperInv'
  OBVIOUS
<1>1. UNCHANGED <<processors, nprocs, my_node, p, places, counts, which_global>>
      /\ loop = "index" /\ loop' = "done" /\ p = processors
  BY DEF CreateContexts, args
<1>2. Placed' = Placed /\ Global' = Global /\ Node' = Node /\ Mppn' = Mppn
  BY <1>1 DEF Placed, Global, Node, Mppn
<1>3. Arguments'
  BY <1>1 DEF MapperInv, Arguments, Node
<1>4. PlacesRight'
  BY <1>1, <1>2 DEF MapperInv, PlacesRight, places, Where
<1>5. CountsRight'
  BY <1>1, <1>2 DEF MapperInv, CountsRight, counts, Taken
<1>6. IndexRight'
  BY <1>1, <1>2 DEF MapperInv, IndexRight, CreateContexts, LocalToGlobal, Slot, counts
<1> QED BY <1>3, <1>4, <1>5, <1>6 DEF MapperInv

(* The inductive invariant holds for all numbers of processors and nodes,  *)
(* on every node.                                                          *)
THEOREM MapperInvariant == Spec => []MapperInv
<1>1. Init => MapperInv
  BY InitMapper
<1>2. MapperInv /\ [Next]_vars => MapperInv'
  <2>1. MapperInv /\ UNCHANGED vars => MapperInv'
    BY SMTT(30) DEF MapperInv, Arguments, PlacesRight, CountsRight, IndexRight, vars, args, places, counts,
           Node, Global, Placed, Where, Mppn, Taken, LocalToGlobal, Slot
  <2> QED BY <2>1, PlaceKeeps, AllocateKeeps, IndexKeeps, CreateKeeps DEF Next
<1> QED BY <1>1, <1>2, PTL DEF Spec

(* global_to_node and global_to_local are undone by local_to_global_pid,   *)
(* for all processors, so what one node addresses to a processor by node   *)
(* and local number is for that processor on the node that receives it.    *)
THEOREM PlacesInvert == Spec => []TablesInverse
<1>1. MapperInv => TablesInverse
  <2> SUFFICES ASSUME MapperInv, loop = "done", NEW q \in Global
               PROVE  LocalToGlobal(where_is_node[q], where_is_local[q]) = q
    BY DEF TablesInverse
  <2>1. Slot(where_is_node[q], where_is_local[q]) = q
    BY SlotIsProcessor DEF MapperInv
  <2>2. which_global[q] = q
    BY DEF MapperInv, IndexRight, Arguments, Global
  <2> QED BY <2>1, <2>2 DEF LocalToGlobal
<1> QED BY <1>1, MapperInvariant, PTL

(* The contexts a node creates are those of its processors, each in the    *)
(* place where its local number says.                                      *)
THEOREM ContextsOfNode == Spec => []ContextsAreMine
<1>1. MapperInv => ContextsAreMine
  <2> SUFFICES ASSUME MapperInv, loop = "done" PROVE ContextsAreMine
    BY DEF ContextsAreMine
  <2>1. Placed = processors /\ Arguments /\ PlacesRight /\ CountsRight
    BY DEF Placed, MapperInv
  <2>2. procs_on_this_node = procs_on_node[my_node]
    BY <2>1 DEF CountsRight, Arguments
  <2>3. DOMAIN context_store = 0 .. procs_on_node[my_node] - 1
    BY <2>2 DEF MapperInv, IndexRight
  <2>4. ASSUME NEW q \in Global, where_is_node[q] = my_node
        PROVE  /\ where_is_local_here[q] = where_is_local[q]
               /\ where_is_local[q] \in DOMAIN context_store
               /\ context_store[where_is_local[q]] = q
    <3>1. /\ q < Placed /\ q \in Nat /\ where_is_node[q] = Where(q)
          /\ where_is_local[q] = q - Where(q) * Mppn
      BY <2>1 DEF PlacesRight, Global, Arguments
    <3>2. where_is_local_here[q] = where_is_local[q]
      BY <2>1, <2>4, <3>1 DEF PlacesRight
    <3>3. /\ Mppn \in Nat \ {0} /\ Where(q) * Mppn \in Nat
          /\ Where(q) * Mppn <= q /\ q < Where(q) * Mppn + Mppn
      BY <2>1, BlockOf DEF Arguments, Global, Mppn, Where
    <3>4. procs_on_node[my_node] = Taken(processors, Where(q))
      BY <2>1, <2>4, <3>1 DEF CountsRight, Arguments
    <3>5. q - Where(q) * Mppn < Taken(processors, Where(q)) /\ Taken(processors, Where(q)) \in Nat
      BY <2>1, <3>1, <3>3 DEF Taken, Arguments
    <3>6. where_is_local[q] \in 0 .. procs_on_node[my_node] - 1
      BY <3>1, <3>3, <3>4, <3>5
    <3>7. context_store[where_is_local[q]] = LocalToGlobal(my_node, where_is_local[q])
      BY <2>2, <3>6 DEF MapperInv, IndexRight
    <3>8. which_global[q] = q
      BY <2>1 DEF MapperInv, IndexRight, Arguments, Global
    <3>9. Slot(my_node, where_is_local[q]) = q
      BY <2>1, <2>4, SlotIsProcessor
    <3> QED BY <2>3, <3>2, <3>6, <3>7, <3>8, <3>9 DEF LocalToGlobal
  <2> QED BY <2>3, <2>4 DEF ContextsAreMine
<1> QED BY <1>1, MapperInvariant, PTL

-----------------------------------------------------------------------------
(* Division, where a product is close by. *)

LEMMA UniqueQuotient ==
  ASSUME NEW a \in Nat, NEW m \in Nat \ {0}, NEW q \in Nat, q * m <= a, a < q * m + m
  PROVE  a \div m = q /\ a % m = a - q * m
<1> DEFINE d == a \div m
<1>1. d \in Nat /\ d * m <= a /\ a < d * m + m
  BY Quotient
<1>2. a % m = a - d * m
  BY SMT
<1> HIDE DEF d
<1>3. d = q
  BY <1>1, OtherBlock, SMT
<1> QED BY <1>2, <1>3 DEF d

LEMMA NoWrap ==
  ASSUME NEW i \in Nat, i < SizeMod
  PROVE  size_t(i) = i
<1>1. SizeMod \in Nat \ {0} /\ 0 * SizeMod = 0
  BY ArraysAssumption
<1> QED BY <1>1, UniqueQuotient DEF size_t

LEMMA SizeTypes ==
  ASSUME NEW i \in Int
  PROVE  size_t(i) \in Nat
BY ArraysAssumption DEF size_t

(* The slices are full. *)
LEMMA FullSlices ==
  ASSUME WholeSlices, NEW g \in ArraySizes
  PROVE  /\ LocalSize(g) \in Nat \ {0}
         /\ g = N * LocalSize(g) /\ g \in Nat \ {0} /\ g * N < SizeMod
<1> DEFINE q == g \div N
<1>1. /\ g \in Nat \ {0} /\ N \in Nat \ {0} /\ g % N = 0 /\ g * N < SizeMod
  BY ArraysAssumption, NAssumption DEF WholeSlices
<1>2. q \in Nat /\ q * N = g
  BY <1>1, SMT
<1> HIDE DEF q
<1>3. g + N - 1 \in Nat /\ q * N <= g + N - 1 /\ g + N - 1 < q * N + N
  BY <1>1, <1>2, SMT
<1>4. LocalSize(g) = q
  BY <1>1, <1>2, <1>3, UniqueQuotient DEF LocalSize
<1>5. q # 0
  BY <1>1, <1>2, SMT
<1>6. N * q = q * N
  BY <1>1, <1>2, SMT
<1> QED BY <1>1, <1>2, <1>4, <1>5, <1>6

(* Where a range begins. *)
LEMMA Beginning ==
  ASSUME WholeSlices, gsize \in ArraySizes, NEW offset \in 0 .. gsize - 1
  PROVE  /\ OffsetProc(offset) \in Nat /\ OffsetIdx(offset) \in 0 .. local_size - 1
         /\ OffsetProc(offset) * local_size + OffsetIdx(offset) = offset
<1> DEFINE L == local_size
           q == offset \div L
<1>1. L \in Nat \ {0} /\ gsize = N * L /\ gsize \in Nat \ {0} /\ gsize * N < SizeMod
      /\ N \in Nat \ {0} /\ offset \in Nat
  BY FullSlices, NAssumption DEF local_size
<1> HIDE DEF L
<1>2. q \in Nat /\ q * L <= offset /\ offset < q * L + L
  BY <1>1, Quotient
<1> HIDE DEF q
<1>3. offset * N \in Nat /\ offset * N < gsize * N
  <2>1. (offset + 1) * N <= gsize * N
    BY <1>1, TimesMonotone
  <2>2. (offset + 1) * N = offset * N + N
    BY <1>1, SMT
  <2>3. offset * N \in Nat
    BY <1>1, SMT
  <2> QED BY <1>1, <2>1, <2>2, <2>3, SMT
<1>4. size_t(offset * N) = offset * N
  <2>1. SizeMod \in Nat /\ gsize * N \in Nat
    BY <1>1, ArraysAssumption, SMT
  <2>2. offset * N < SizeMod
    BY <1>1, <1>3, <2>1
  <2> QED BY <1>3, <2>2, NoWrap
<1>5. q * gsize <= offset * N /\ offset * N < q * gsize + gsize
  <2>1. q * L \in Nat /\ (q * L) * N <= offset * N
    BY <1>1, <1>2, TimesMonotone, SMT
  <2>2. (q * L) * N = q * (N * L)
    BY <1>1, <1>2, SMT
  <2>3. (offset + 1) * N <= (q * L + L) * N
    BY <1>1, <1>2, <2>1, TimesMonotone
  <2>4. (q * L + L) * N = (q * L) * N + N * L
    BY <1>1, <1>2, SMT
  <2>5. (offset + 1) * N = offset * N + N
    BY <1>1, SMT
  <2> QED BY <1>1, <1>3, <2>1, <2>2, <2>3, <2>4, <2>5, SMT
<1>6. OffsetProc(offset) = q
  BY <1>1, <1>2, <1>3, <1>4, <1>5, UniqueQuotient DEF OffsetProc
<1>7. offset - q * L \in Nat /\ offset - q * L < L /\ offset - q * L < SizeMod
  <2>1. q * L \in Nat
    BY <1>1, <1>2, SMT
  <2>2. gsize * 1 <= gsize * N
    BY <1>1, SMT
  <2>3. SizeMod \in Nat /\ gsize * N \in Nat
    BY <1>1, ArraysAssumption, SMT
  <2> QED BY <1>1, <1>2, <2>1, <2>2, <2>3
<1>8. OffsetIdx(offset) = offset - q * L
  BY <1>6, <1>7, NoWrap DEF OffsetIdx, L
<1>9. OffsetProc(offset) * L + OffsetIdx(offset) = offset
  <2>1. q * L \in Nat
    BY <1>1, <1>2, SMT
  <2> QED BY <1>1, <1>6, <1>8, <2>1
<1>10. OffsetProc(offset) \in Nat /\ OffsetIdx(offset) \in 0 .. L - 1
  BY <1>1, <1>2, <1>6, <1>7, <1>8
<1> QED BY <1>9, <1>10 DEF L

-----------------------------------------------------------------------------
(* The loop. *)

Lefts == [proc : Nat, idx : Nat, from : Nat, size : Nat, pieces : Seq(PieceType)]

LEMMA TodoTyped ==
  ASSUME NEW idx \in Nat, NEW size \in Nat, local_size \in Nat
  PROVE  Todo(idx, size) \in Nat /\ Todo(idx, size) <= size
<1> DEFINE room == size_t(local_size - idx)
<1>1. room \in Nat
  BY SizeTypes
<1> HIDE DEF room
<1>2. Todo(idx, size) = IF size > room THEN room ELSE size
  BY DEF Todo, room
<1> QED BY <1>1, <1>2

LEMMA TodoInSlice ==
  ASSUME NEW idx \in 0 .. local_size - 1, NEW size \in Nat \ {0}, local_size \in Nat, local_size < SizeMod
  PROVE  /\ Todo(idx, size) \in 1 .. size /\ Todo(idx, size) <= local_size - idx
         /\ Todo(idx, size) = size \/ Todo(idx, size) = local_size - idx
<1> DEFINE room == local_size - idx
<1>1. room \in Nat \ {0} /\ room < SizeMod
  BY ArraysAssumption
<1> HIDE DEF room
<1>2. size_t(room) = room
  BY <1>1, NoWrap
<1>3. Todo(idx, size) = IF size > room THEN room ELSE size
  BY <1>2 DEF Todo, room
<1>4. Todo(idx, size) \in 1 .. size /\ Todo(idx, size) <= room /\ (Todo(idx, size) = size \/ Todo(idx, size) = room)
  BY <1>1, <1>3
<1> QED BY <1>4 DEF room

LEMMA RoundTyped ==
  ASSUME NEW left \in Lefts, local_size \in Nat
  PROVE  Round(left) \in Lefts
<1> DEFINE todo == Todo(left.idx, left.size)
<1>1. /\ left.proc \in Nat /\ left.idx \in Nat /\ left.from \in Nat /\ left.size \in Nat
      /\ left.pieces \in Seq(PieceType)
  BY DEF Lefts
<1>2. todo \in Nat /\ todo <= left.size
  BY <1>1, TodoTyped
<1> HIDE DEF todo
<1>3. Piece(left.proc, left.idx, left.from, todo) \in PieceType
  BY <1>1, <1>2 DEF Piece, PieceType
<1>4. Append(left.pieces, Piece(left.proc, left.idx, left.from, todo)) \in Seq(PieceType)
  BY <1>1, <1>3
<1>5. CASE left.size = 0
  BY <1>5 DEF Round
<1>6. CASE left.size # 0
  <2>1. Round(left) = [proc |-> left.proc + 1, idx |-> 0, from |-> left.from + todo,
                       size |-> left.size - todo,
                       pieces |-> Append(left.pieces, Piece(left.proc, left.idx, left.from, todo))]
    BY <1>6 DEF Round, Cut, todo
  <2> QED BY <1>1, <1>2, <1>4, <2>1 DEF Lefts
<1> QED BY <1>5, <1>6

(* What is left after so many rounds. *)
Rounds(f, offset, size) ==
  /\ f \in [0 .. size + 1 -> Lefts] /\ f[0] = Whole(offset, size)
  /\ \A k \in 1 .. size + 1 : f[k] = Round(f[k-1])

LEMMA PiecesByRounds ==
  ASSUME NEW offset, NEW size \in Nat, local_size \in Nat, Whole(offset, size) \in Lefts
  PROVE  \E f : Rounds(f, offset, size) /\ Pieces(offset, size) = f[size + 1].pieces
<1> DEFINE n == size + 1
           base == Whole(offset, size)
           step == [k \in 1 .. n |-> [left \in Lefts |-> Round(left)]]
           P(f) == f = [k \in 0 .. n |-> IF k = 0 THEN base ELSE Round(f[k-1])]
           after == CHOOSE f : P(f)
<1>1. Pieces(offset, size) = after[n].pieces
  BY DEF Pieces
<1>2. n \in Nat
  OBVIOUS
<1> HIDE DEF n, base
<1>3. step \in StepOfEach(n, Lefts) /\ base \in Lefts
  BY RoundTyped DEF StepOfEach, base
<1>4. \A k \in 1 .. n, left \in Lefts : step[k][left] = Round(left)
  OBVIOUS
<1> HIDE DEF step
<1>5. PICK f : Iterates(f, n, Lefts, base, step)
  BY <1>2, <1>3, RecursiveFunction
<1>6. f \in [0 .. n -> Lefts] /\ f[0] = base /\ \A k \in 1 .. n : f[k] = Round(f[k-1])
  <2>1. ASSUME NEW k \in 1 .. n PROVE f[k] = Round(f[k-1])
    <3>1. f[k-1] \in Lefts
      BY <1>2, <1>5 DEF Iterates
    <3> QED BY <1>4, <1>5, <3>1 DEF Iterates
  <2> QED BY <1>5, <2>1 DEF Iterates
<1>7. P(f)
  <2> DEFINE g == [k \in 0 .. n |-> IF k = 0 THEN base ELSE Round(f[k-1])]
  <2>1. \A k \in 0 .. n : f[k] = g[k]
    BY <1>2, <1>6
  <2>2. f = [k \in 0 .. n |-> f[k]] /\ g = [k \in 0 .. n |-> g[k]]
    BY <1>6
  <2> QED BY <2>1, <2>2
<1>8. P(after)
  <2> HIDE DEF P
  <2> QED BY <1>7
<1> HIDE DEF after
<1>9. GoTogether(f, after, n)
  <2>1. after[0] = base /\ \A k \in 1 .. n : after[k] = Round(after[k-1])
    BY <1>2, <1>8
  <2> HIDE DEF P
  <2> QED BY <1>6, <2>1 DEF GoTogether
<1>10. \A k \in 0 .. n : f[k] = after[k]
  BY <1>2, <1>9, RecursionsAgree
<1>11. f[n] = after[n]
  BY <1>2, <1>10
<1> QED BY <1>1, <1>6, <1>11 DEF Rounds, n, base

(* After k rounds nothing is left, or at least k bytes have been cut: what *)
(* has been cut is in pieces that are parts of the range.                  *)
Progress(left, k, offset, size) ==
  /\ left \in Lefts
  /\ left.from + left.size = size
  /\ left.size = 0 \/ left.from >= k
  /\ left.size # 0 => /\ left.idx \in 0 .. local_size - 1
                      /\ Position(left.proc, left.idx) = offset + left.from
  /\ \A j \in DOMAIN left.pieces : PartOf(left.pieces[j], offset, size)
  /\ \A i \in 0 .. left.from - 1 : \E j \in DOMAIN left.pieces : i \in Bytes(left.pieces[j])

(* The process of a position in the array. *)
LEMMA ProcOfPosition ==
  ASSUME WholeSlices, gsize \in ArraySizes,
         NEW proc \in Nat, NEW idx \in Nat, Position(proc, idx) < gsize
  PROVE  proc \in Proc
<1> DEFINE L == local_size
<1>1. L \in Nat \ {0} /\ gsize = N * L /\ N \in Nat \ {0}
  BY FullSlices, NAssumption DEF local_size
<1>2. proc * L + idx < N * L
  BY <1>1 DEF Position
<1> HIDE DEF L
<1>3. proc < N
  <2> SUFFICES ASSUME N <= proc PROVE FALSE
    BY <1>1
  <2>1. N * L <= proc * L /\ proc * L \in Nat /\ N * L \in Nat
    BY <1>1, TimesMonotone, SMT
  <2> QED BY <1>2, <2>1
<1> QED BY <1>1, <1>3 DEF Proc

LEMMA RoundProgress ==
  ASSUME WholeSlices, gsize \in ArraySizes, NEW offset \in Nat, NEW size \in Nat, offset + size <= gsize,
         NEW left, NEW k \in Nat, Progress(left, k, offset, size)
  PROVE  Progress(Round(left), k + 1, offset, size)
<1> DEFINE L == local_size
           todo == Todo(left.idx, left.size)
           piece == Piece(left.proc, left.idx, left.from, todo)
           next == Round(left)
<1>1. /\ L \in Nat \ {0} /\ gsize = N * L /\ gsize \in Nat \ {0} /\ gsize * N < SizeMod
      /\ N \in Nat \ {0}
  BY FullSlices, NAssumption DEF local_size
<1>2. /\ left.proc \in Nat /\ left.idx \in Nat /\ left.from \in Nat /\ left.size \in Nat
      /\ left.pieces \in Seq(PieceType) /\ left \in Lefts
  BY DEF Lefts, Progress
<1>3. CASE left.size = 0
  <2>1. Round(left) = left
    BY <1>3 DEF Round
  <2> QED BY <1>3, <2>1 DEF Progress
<1>4. CASE left.size # 0
  <2> DEFINE proc == left.proc
             idx == left.idx
             from == left.from
             rest == left.size
  <2>1. /\ idx \in 0 .. L - 1 /\ Position(proc, idx) = offset + from
        /\ from + rest = size /\ from >= k /\ rest \in Nat \ {0}
    BY <1>2, <1>4 DEF Progress
  <2>2. L < SizeMod
    <3>1. L <= N * L /\ N * L <= gsize * N
      BY <1>1, SMT
    <3>2. SizeMod \in Nat /\ N * L \in Nat /\ gsize * N \in Nat
      BY <1>1, ArraysAssumption, SMT
    <3> QED BY <1>1, <3>1, <3>2
  <2>3. /\ todo \in 1 .. rest /\ todo <= L - idx
        /\ todo = rest \/ todo = L - idx
    BY <1>1, <2>1, <2>2, TodoInSlice
  <2> HIDE DEF todo
  <2>4. /\ next.proc = proc + 1 /\ next.idx = 0 /\ next.from = from + todo
        /\ next.size = rest - todo /\ next.pieces = Append(left.pieces, piece)
    BY <1>4 DEF Round, Cut, todo
  <2>5. next \in Lefts
    BY <1>1, <1>2, RoundTyped DEF L
  <2>6. /\ piece.proc = proc /\ piece.idx = idx /\ piece.from = from /\ piece.size = todo
        /\ piece \in PieceType
    BY <1>2, <2>3 DEF Piece, PieceType
  <2>7. proc \in Nat /\ idx \in Nat /\ from \in Nat /\ rest \in Nat
    BY <1>2
  <2> HIDE DEF piece, next, proc, idx, from, rest, L
  <2>8. PartOf(piece, offset, size)
    <3>1. Position(proc, idx) < gsize
      BY <1>1, <2>1, <2>7
    <3>2. proc \in Proc
      BY <2>7, <3>1, ProcOfPosition
    <3>3. idx + todo <= L /\ from + todo <= size
      BY <1>1, <2>1, <2>3, <2>7
    <3> QED BY <2>1, <2>6, <3>2, <3>3 DEF PartOf, InSlice, L
  <2>9. next.from + next.size = size /\ next.from >= k + 1 /\ next.from \in Nat
    <3>1. (from + todo) + (rest - todo) = size /\ from + todo >= k + 1 /\ from + todo \in Nat
      BY <2>1, <2>3, <2>7
    <3> QED BY <2>4, <3>1
  <2>10. ASSUME next.size # 0
        PROVE  next.idx \in 0 .. L - 1 /\ Position(next.proc, next.idx) = offset + next.from
    <3>1. todo = L - idx
      BY <2>3, <2>4, <2>7, <2>10
    <3> DEFINE there == proc * L
    <3>2. there + idx = offset + from
      BY <2>1 DEF Position, L
    <3>3. (proc + 1) * L = there + L /\ there \in Nat
      BY <1>1, <2>7, SMT
    <3> HIDE DEF there
    <3>4. there + L + 0 = offset + (from + todo)
      BY <1>1, <2>7, <3>1, <3>2, <3>3
    <3>5. (proc + 1) * L + 0 = offset + (from + todo)
      BY <3>3, <3>4
    <3> QED BY <1>1, <2>4, <3>5 DEF Position, L
  <2> DEFINE n == Len(left.pieces)
  <2>11. /\ n \in Nat /\ DOMAIN left.pieces = 1 .. n /\ DOMAIN next.pieces = 1 .. n + 1
         /\ next.pieces[n + 1] = piece /\ \A j \in 1 .. n : next.pieces[j] = left.pieces[j]
    <3> DEFINE ps == left.pieces
    <3>1. ps \in Seq(PieceType)
      BY <1>2
    <3> HIDE DEF ps
    <3>2. /\ Len(ps) \in Nat /\ DOMAIN ps = 1 .. Len(ps)
          /\ DOMAIN Append(ps, piece) = 1 .. Len(ps) + 1
          /\ Append(ps, piece)[Len(ps) + 1] = piece
          /\ \A j \in 1 .. Len(ps) : Append(ps, piece)[j] = ps[j]
      BY <2>6, <3>1
    <3> QED BY <2>4, <3>2 DEF ps
  <2> HIDE DEF n
  <2>12. \A j \in DOMAIN next.pieces : PartOf(next.pieces[j], offset, size)
    <3>1. \A j \in 1 .. n : PartOf(left.pieces[j], offset, size)
      BY <2>11 DEF Progress
    <3>2. \A j \in 1 .. n + 1 : j = n + 1 \/ j \in 1 .. n
      BY <2>11
    <3> QED BY <2>8, <2>11, <3>1, <3>2
  <2>13. ASSUME NEW i \in 0 .. next.from - 1
         PROVE  \E j \in DOMAIN next.pieces : i \in Bytes(next.pieces[j])
    <3>1. i \in 0 .. from - 1 \/ i \in from .. from + todo - 1
      BY <2>3, <2>4, <2>7, <2>13
    <3>2. CASE i \in 0 .. from - 1
      <4>1. PICK j \in DOMAIN left.pieces : i \in Bytes(left.pieces[j])
        BY <3>2 DEF Progress, from
      <4>2. j \in DOMAIN next.pieces /\ next.pieces[j] = left.pieces[j]
        BY <2>11, <4>1
      <4> QED BY <4>1, <4>2
    <3>3. CASE i \in from .. from + todo - 1
      <4>1. i \in Bytes(piece)
        BY <2>6, <3>3 DEF Bytes
      <4>2. n + 1 \in 1 .. n + 1
        BY <2>11
      <4> QED BY <2>11, <4>1, <4>2
    <3> QED BY <3>1, <3>2, <3>3
  <2> QED BY <2>5, <2>9, <2>10, <2>12, <2>13 DEF Progress, L, next
<1> QED BY <1>3, <1>4

(* The pieces of a range are parts of it, and all of it. *)
PiecesOf(pieces, offset, size) ==
  /\ pieces \in Seq(PieceType)
  /\ \A j \in DOMAIN pieces : PartOf(pieces[j], offset, size)
  /\ \A i \in 0 .. size - 1 : \E j \in DOMAIN pieces : i \in Bytes(pieces[j])

LEMMA RangeIsCut ==
  ASSUME WholeSlices, gsize \in ArraySizes,
         NEW offset \in 0 .. gsize - 1, NEW size \in Nat, offset + size <= gsize
  PROVE  PiecesOf(Pieces(offset, size), offset, size)
<1> DEFINE whole == Whole(offset, size)
<1>1. local_size \in Nat \ {0} /\ gsize \in Nat \ {0}
  BY FullSlices DEF local_size
<1>2. /\ OffsetProc(offset) \in Nat /\ OffsetIdx(offset) \in 0 .. local_size - 1
      /\ Position(OffsetProc(offset), OffsetIdx(offset)) = offset
  BY Beginning DEF Position
<1>3. Progress(whole, 0, offset, size)
  <2>1. whole \in Lefts
    BY <1>1, <1>2 DEF Whole, Lefts
  <2>2. /\ whole.proc = OffsetProc(offset) /\ whole.idx = OffsetIdx(offset) /\ whole.from = 0
        /\ whole.size = size /\ whole.pieces = <<>>
    BY DEF Whole
  <2>3. DOMAIN whole.pieces = {}
    BY <2>2
  <2> HIDE DEF whole
  <2> QED BY <1>1, <1>2, <2>1, <2>2, <2>3 DEF Progress
<1>4. whole \in Lefts
  BY <1>3 DEF Progress
<1>5. PICK f : Rounds(f, offset, size) /\ Pieces(offset, size) = f[size + 1].pieces
  BY <1>1, <1>4, PiecesByRounds
<1> HIDE DEF whole
<1> DEFINE T == {k \in 0 .. size + 1 : Progress(f[k], k, offset, size)}
<1>6. 0 \in T
  BY <1>3, <1>5 DEF Rounds, whole
<1>7. ASSUME NEW k \in 0 .. (size + 1) - 1, k \in T PROVE k + 1 \in T
  <2>1. k + 1 \in 1 .. size + 1 /\ (k + 1) - 1 = k /\ k \in Nat
    OBVIOUS
  <2>2. f[k+1] = Round(f[k])
    BY <1>5, <2>1 DEF Rounds
  <2>3. Progress(Round(f[k]), k + 1, offset, size)
    <3>1. Progress(f[k], k, offset, size) /\ offset \in Nat
      BY <1>1, <1>7
    <3> QED BY <2>1, <3>1, RoundProgress
  <2> QED BY <2>1, <2>2, <2>3
<1>8. 0 .. size + 1 \subseteq T
  <2> HIDE DEF T
  <2>1. size + 1 \in Nat
    OBVIOUS
  <2> QED BY <1>6, <1>7, <2>1, BoundedInduction
<1>9. Progress(f[size + 1], size + 1, offset, size)
  BY <1>8
<1> DEFINE last == f[size + 1]
<1>10. last.from = size
  <2>1. last.from \in Nat /\ last.size \in Nat /\ last.from + last.size = size
        /\ (last.size = 0 \/ last.from >= size + 1)
    BY <1>9 DEF Progress, Lefts
  <2> QED BY <2>1
<1> HIDE DEF last
<1>11. last.pieces \in Seq(PieceType) /\ Progress(last, size + 1, offset, size)
  BY <1>9 DEF Progress, Lefts, last
<1>12. PiecesOf(last.pieces, offset, size)
  BY <1>10, <1>11 DEF Progress, PiecesOf
<1> QED BY <1>5, <1>12 DEF last

-----------------------------------------------------------------------------
(* What a piece writes. *)

LEMMA WrittenAt ==
  ASSUME NEW s \in Slices, NEW t \in TaggedPiece
  PROVE  /\ Written(s, t) \in Slices
         /\ \A proc \in Proc, i \in 0 .. local_size - 1 :
              Written(s, t)[proc][i] =
                IF proc = t.piece.proc /\ i \in t.piece.idx .. t.piece.idx + t.piece.size - 1
                  THEN <<t.id, t.piece.from + i - t.piece.idx>> ELSE s[proc][i]
<1> DEFINE L == local_size
           to == t.piece.proc
           inPiece == t.piece.idx .. t.piece.idx + t.piece.size - 1
           byte(i) == <<t.id, t.piece.from + i - t.piece.idx>>
           new(proc) == [i \in DOMAIN s[proc] |-> IF i \in inPiece THEN byte(i) ELSE s[proc][i]]
<1>1. Written(s, t) = [s EXCEPT ![to] = new(to)]
  BY DEF Written
<1>2. \A proc \in Proc : s[proc] \in [0 .. L - 1 -> Byte]
  BY DEF Slices
<1>3. \A i \in 0 .. L - 1 : byte(i) \in Byte
  <2>1. t.id \in Int /\ t.piece.from \in Int /\ t.piece.idx \in Int
    BY DEF TaggedPiece, PieceType
  <2>2. \A i \in 0 .. L - 1 : t.piece.from + i - t.piece.idx \in Int
    BY <2>1
  <2> QED BY <2>1, <2>2 DEF Byte
<1>4. s = [proc \in Proc |-> s[proc]] /\ DOMAIN s = Proc
  BY DEF Slices
<1>5. Slices = [Proc -> [0 .. L - 1 -> Byte]]
  BY DEF Slices
<1> HIDE DEF L, to, inPiece, byte
<1>6. ASSUME NEW proc \in Proc
      PROVE  /\ new(proc) \in [0 .. L - 1 -> Byte]
             /\ \A i \in 0 .. L - 1 : new(proc)[i] = IF i \in inPiece THEN byte(i) ELSE s[proc][i]
  BY <1>2, <1>3
<1> HIDE DEF new
<1>7. ASSUME NEW proc \in Proc
      PROVE  Written(s, t)[proc] = IF proc = to THEN new(proc) ELSE s[proc]
  BY <1>1, <1>4
<1>8. Written(s, t) = [proc \in Proc |-> Written(s, t)[proc]]
  BY <1>1, <1>4
<1>9. Written(s, t) \in Slices
  <2>1. \A proc \in Proc : Written(s, t)[proc] \in [0 .. L - 1 -> Byte]
    BY <1>2, <1>6, <1>7
  <2> QED BY <1>5, <1>8, <2>1
<1>10. ASSUME NEW proc \in Proc, NEW i \in 0 .. L - 1
       PROVE  Written(s, t)[proc][i] = IF proc = to /\ i \in inPiece THEN byte(i) ELSE s[proc][i]
  BY <1>6, <1>7
<1> QED BY <1>9, <1>10 DEF L, to, inPiece, byte

(* The pieces land one after the other: the slices after each of them. *)
WritesTo(h, s, ts) ==
  /\ h \in [0 .. Len(ts) -> Slices] /\ h[0] = s
  /\ \A k \in 1 .. Len(ts) : h[k] = Written(h[k-1], ts[k])

LEMMA WritesInOrder ==
  ASSUME NEW s \in Slices, NEW ts \in Seq(TaggedPiece)
  PROVE  \E h : WritesTo(h, s, ts) /\ h[Len(ts)] = Landed(s, ts)
<1> DEFINE n == Len(ts)
           g == [td \in Slices \X TaggedPiece |-> Written(td[1], td[2])]
           P(f) == f = [u \in SUBSET (1 .. n) |->
                          IF u = {} THEN s ELSE Written(f[u \ {Max(u)}], ts[Max(u)])]
           iter == CHOOSE f : P(f)
<1>1. n \in Nat /\ ts \in Listing(n, TaggedPiece) /\ DOMAIN ts = 1 .. n
  BY LenProperties DEF Listing
<1>2. Landed(s, ts) = iter[1 .. n]
  BY <1>1, Zenon DEF Landed, FoldLeft, MapThenFoldSet
<1> HIDE DEF n
<1>3. g \in Steps(Slices, TaggedPiece)
  BY WrittenAt DEF Steps
<1>4. \A sl \in Slices, d \in TaggedPiece : g[<<sl, d>>] = Written(sl, d)
  OBVIOUS
<1> HIDE DEF g
<1>5. PICK it : Recurs(it, Slices, g, s, n, ts)
  BY <1>1, <1>3, SubsetRecursion
<1>6. \A k \in 1 .. n : ts[k] \in TaggedPiece
  BY <1>1 DEF Listing
<1>7. P([u \in SUBSET (1 .. n) |-> it[u]])
  BY <1>4, <1>5, <1>6 DEF Recurs
<1>8. P(iter)
  <2> HIDE DEF P
  <2> QED BY <1>7
<1>9. Follows(iter, Slices, g, s, n, ts)
  <2> HIDE DEF iter
  <2>1. ASSUME NEW u \in SUBSET (1 .. n)
        PROVE  iter[u] = IF u = {} THEN s ELSE Written(iter[u \ {Max(u)}], ts[Max(u)])
    BY <1>8
  <2>2. \A u \in SUBSET (1 .. n) : u # {} => ts[Max(u)] \in TaggedPiece
    BY <1>5, <1>6 DEF Recurs
  <2> HIDE DEF P
  <2> QED BY <1>4, <2>1, <2>2 DEF Follows
<1> HIDE DEF iter, P
<1>10. PICK h \in [0 .. n -> Slices] :
         /\ h[0] = s /\ h[n] = iter[1 .. n]
         /\ \A k \in 1 .. n : h[k-1] \in Slices /\ ts[k] \in TaggedPiece
                             /\ h[k] = g[<<h[k-1], ts[k]>>]
  BY <1>1, <1>3, <1>9, SegmentsInOrder
<1>11. \A k \in 1 .. n : h[k] = Written(h[k-1], ts[k])
  BY <1>4, <1>10
<1> QED BY <1>2, <1>10, <1>11 DEF n, WritesTo

(* More pieces land where the first ones left off. *)
LEMMA LandedMore ==
  ASSUME NEW s \in Slices, NEW ts \in Seq(TaggedPiece), NEW us \in Seq(TaggedPiece)
  PROVE  Landed(s, ts) \in Slices /\ Landed(s, ts \o us) = Landed(Landed(s, ts), us)
<1> DEFINE n == Len(ts)
           m == Len(us)
           vs == ts \o us
           mid == Landed(s, ts)
<1>1. n \in Nat /\ m \in Nat
  BY LenProperties
<1>2. /\ vs \in Seq(TaggedPiece) /\ Len(vs) = n + m
      /\ \A k \in 1 .. n : vs[k] = ts[k]
      /\ \A k \in n + 1 .. n + m : vs[k] = us[k - n]
  BY ConcatProperties
<1> HIDE DEF vs
<1>3. PICK h : WritesTo(h, s, ts) /\ h[n] = mid
  BY WritesInOrder
<1>4. mid \in Slices
  BY <1>1, <1>3 DEF WritesTo, n
<1> HIDE DEF mid
<1>5. PICK e : WritesTo(e, mid, us) /\ e[m] = Landed(mid, us)
  BY <1>4, WritesInOrder
<1>6. PICK f : WritesTo(f, s, vs) /\ f[n + m] = Landed(s, vs)
  BY <1>2, WritesInOrder
<1> DEFINE j == [k \in 0 .. n + m |-> IF k <= n THEN h[k] ELSE e[k - n]]
<1>7. /\ h[0] = s /\ \A k \in 1 .. n : h[k] = Written(h[k-1], ts[k])
  BY <1>3 DEF WritesTo, n
<1>8. /\ e[0] = mid /\ \A k \in 1 .. m : e[k] = Written(e[k-1], us[k])
  BY <1>5 DEF WritesTo, m
<1>9. /\ f[0] = s /\ \A k \in 1 .. n + m : f[k] = Written(f[k-1], vs[k])
  BY <1>2, <1>6 DEF WritesTo
<1> HIDE DEF n, m
<1>10. \A k \in 0 .. n + m : j[k] = IF k <= n THEN h[k] ELSE e[k - n]
  OBVIOUS
<1> HIDE DEF j
<1>11. ASSUME NEW k \in 1 .. n + m
       PROVE  j[k] = Written(j[k-1], vs[k])
  <2>1. CASE k <= n
    <3>1. k \in 1 .. n /\ k - 1 \in 0 .. n + m /\ k - 1 <= n /\ k \in 0 .. n + m
      BY <1>1, <2>1
    <3> QED BY <1>2, <1>7, <1>10, <3>1
  <2>2. CASE k = n + 1
    <3>1. /\ k - n = 1 /\ k - n - 1 = 0 /\ k - n \in 1 .. m /\ k \in n + 1 .. n + m
          /\ k \in 0 .. n + m /\ k - 1 \in 0 .. n + m /\ k - 1 = n /\ ~(k <= n) /\ n <= n
      BY <1>1, <2>2
    <3>2. j[k] = e[k - n] /\ j[k - 1] = mid
      BY <1>3, <1>10, <3>1
    <3>3. e[k - n] = Written(e[k - n - 1], us[k - n]) /\ vs[k] = us[k - n]
      BY <1>2, <1>8, <3>1
    <3>4. e[k - n - 1] = mid
      BY <1>8, <3>1
    <3> QED BY <3>2, <3>3, <3>4
  <2>3. CASE k > n + 1
    <3>1. /\ k - n \in 1 .. m /\ k \in n + 1 .. n + m /\ k \in 0 .. n + m /\ k - 1 \in 0 .. n + m
          /\ ~(k <= n) /\ ~(k - 1 <= n) /\ k - n - 1 = k - 1 - n
      BY <1>1, <2>3
    <3>2. j[k] = e[k - n] /\ j[k - 1] = e[k - n - 1]
      BY <1>10, <3>1
    <3>3. e[k - n] = Written(e[k - n - 1], us[k - n]) /\ vs[k] = us[k - n]
      BY <1>2, <1>8, <3>1
    <3> QED BY <3>2, <3>3
  <2> QED BY <1>1, <2>1, <2>2, <2>3
<1>12. n + m \in Nat /\ 0 \in 0 .. n + m /\ 0 <= n
  BY <1>1
<1>13. GoTogether(f, j, n + m)
  <2>1. j[0] = s
    BY <1>7, <1>10, <1>12
  <2> QED BY <1>9, <1>11, <2>1 DEF GoTogether
<1>14. f[n + m] = j[n + m]
  <2>1. \A k \in 0 .. n + m : f[k] = j[k]
    BY <1>12, <1>13, RecursionsAgree
  <2> QED BY <1>12, <2>1
<1>15. j[n + m] = e[m]
  <2>1. CASE m = 0
    BY <1>1, <1>3, <1>8, <1>10, <2>1 DEF n
  <2>2. CASE m # 0
    <3> DEFINE k == n + m
    <3>1. k \in 0 .. k /\ ~(k <= n) /\ k - n = m
      BY <1>1, <2>2
    <3>2. \A i \in 0 .. k : j[i] = IF i <= n THEN h[i] ELSE e[i - n]
      BY <1>10
    <3> HIDE DEF k
    <3>3. j[k] = e[k - n]
      BY <3>1, <3>2
    <3> QED BY <3>1, <3>3 DEF k
  <2> QED BY <2>1, <2>2
<1> QED BY <1>4, <1>5, <1>6, <1>14, <1>15 DEF vs, mid, m, n

(* What a call means. *)
LEMMA MeantAt ==
  ASSUME NEW a \in Arrays, NEW c \in Call
  PROVE  /\ Meant(a, c) \in Arrays
         /\ \A b \in 0 .. gsize - 1 :
              Meant(a, c)[b] = IF c.op = "put" /\ b \in c.offset .. c.offset + c.size - 1
                                 THEN <<c.id, b - c.offset>> ELSE a[b]
<1> DEFINE byte(b) == IF c.op = "put" /\ b \in c.offset .. c.offset + c.size - 1
                        THEN <<c.id, b - c.offset>> ELSE a[b]
<1>1. DOMAIN a = 0 .. gsize - 1 /\ \A b \in 0 .. gsize - 1 : a[b] \in Byte
  BY DEF Arrays
<1>2. c.id \in Int /\ c.offset \in Int
  BY DEF Call
<1>3. \A b \in 0 .. gsize - 1 : <<c.id, b - c.offset>> \in Byte
  BY <1>2 DEF Byte
<1>4. Meant(a, c) = [b \in 0 .. gsize - 1 |-> byte(b)]
  BY <1>1 DEF Meant
<1>5. \A b \in 0 .. gsize - 1 : byte(b) \in Byte
  BY <1>1, <1>3
<1> HIDE DEF byte
<1>6. Meant(a, c) \in Arrays /\ \A b \in 0 .. gsize - 1 : Meant(a, c)[b] = byte(b)
  BY <1>4, <1>5 DEF Arrays
<1> QED BY <1>6 DEF byte

LEMMA GetMeansNothing ==
  ASSUME NEW a \in Arrays, NEW c \in Call, c.op = "get"
  PROVE  Meant(a, c) = a
<1>1. \A b \in 0 .. gsize - 1 : Meant(a, c)[b] = a[b]
  BY MeantAt
<1>2. Meant(a, c) \in Arrays
  BY MeantAt
<1> DEFINE e == Meant(a, c)
<1>3. a = [b \in 0 .. gsize - 1 |-> a[b]] /\ e = [b \in 0 .. gsize - 1 |-> e[b]]
  BY <1>2 DEF Arrays
<1> HIDE DEF e
<1>4. \A b \in 0 .. gsize - 1 : e[b] = a[b]
  BY <1>1 DEF e
<1>5. e = a
  BY <1>3, <1>4
<1> QED BY <1>5 DEF e

MeansTo(h, a, cs) ==
  /\ h \in [0 .. Len(cs) -> Arrays] /\ h[0] = a
  /\ \A k \in 1 .. Len(cs) : h[k] = Meant(h[k-1], cs[k])

LEMMA MeantInOrder ==
  ASSUME NEW a \in Arrays, NEW cs \in Seq(Call)
  PROVE  \E h : MeansTo(h, a, cs) /\ h[Len(cs)] = Intended(a, cs)
<1> DEFINE n == Len(cs)
           g == [td \in Arrays \X Call |-> Meant(td[1], td[2])]
           P(f) == f = [u \in SUBSET (1 .. n) |->
                          IF u = {} THEN a ELSE Meant(f[u \ {Max(u)}], cs[Max(u)])]
           iter == CHOOSE f : P(f)
<1>1. n \in Nat /\ cs \in Listing(n, Call) /\ DOMAIN cs = 1 .. n
  BY LenProperties DEF Listing
<1>2. Intended(a, cs) = iter[1 .. n]
  BY <1>1, Zenon DEF Intended, FoldLeft, MapThenFoldSet
<1> HIDE DEF n
<1>3. g \in Steps(Arrays, Call)
  BY MeantAt DEF Steps
<1>4. \A ar \in Arrays, d \in Call : g[<<ar, d>>] = Meant(ar, d)
  OBVIOUS
<1> HIDE DEF g
<1>5. PICK it : Recurs(it, Arrays, g, a, n, cs)
  BY <1>1, <1>3, SubsetRecursion
<1>6. \A k \in 1 .. n : cs[k] \in Call
  BY <1>1 DEF Listing
<1>7. P([u \in SUBSET (1 .. n) |-> it[u]])
  BY <1>4, <1>5, <1>6 DEF Recurs
<1>8. P(iter)
  <2> HIDE DEF P
  <2> QED BY <1>7
<1>9. Follows(iter, Arrays, g, a, n, cs)
  <2> HIDE DEF iter
  <2>1. ASSUME NEW u \in SUBSET (1 .. n)
        PROVE  iter[u] = IF u = {} THEN a ELSE Meant(iter[u \ {Max(u)}], cs[Max(u)])
    BY <1>8
  <2>2. \A u \in SUBSET (1 .. n) : u # {} => cs[Max(u)] \in Call
    BY <1>5, <1>6 DEF Recurs
  <2> HIDE DEF P
  <2> QED BY <1>4, <2>1, <2>2 DEF Follows
<1> HIDE DEF iter, P
<1>10. PICK h \in [0 .. n -> Arrays] :
         /\ h[0] = a /\ h[n] = iter[1 .. n]
         /\ \A k \in 1 .. n : h[k-1] \in Arrays /\ cs[k] \in Call
                             /\ h[k] = g[<<h[k-1], cs[k]>>]
  BY <1>1, <1>3, <1>9, SegmentsInOrder
<1>11. \A k \in 1 .. n : h[k] = Meant(h[k-1], cs[k])
  BY <1>4, <1>10
<1> QED BY <1>2, <1>10, <1>11 DEF n, MeansTo

LEMMA IntendedMore ==
  ASSUME NEW a \in Arrays, NEW cs \in Seq(Call), NEW c \in Call
  PROVE  Intended(a, cs) \in Arrays /\ Intended(a, Append(cs, c)) = Meant(Intended(a, cs), c)
<1> DEFINE n == Len(cs)
           ds == Append(cs, c)
           mid == Intended(a, cs)
<1>1. n \in Nat
  BY LenProperties
<1>2. ds \in Seq(Call) /\ Len(ds) = n + 1 /\ ds[n + 1] = c /\ \A k \in 1 .. n : ds[k] = cs[k]
  BY AppendProperties
<1> HIDE DEF ds
<1>3. PICK h : MeansTo(h, a, cs) /\ h[n] = mid
  BY MeantInOrder
<1>4. mid \in Arrays
  BY <1>1, <1>3 DEF MeansTo, n
<1> HIDE DEF mid
<1>5. PICK f : MeansTo(f, a, ds) /\ f[n + 1] = Intended(a, ds)
  BY <1>2, MeantInOrder
<1>6. h[0] = a /\ \A k \in 1 .. n : h[k] = Meant(h[k-1], cs[k])
  BY <1>3 DEF MeansTo, n
<1>7. f[0] = a /\ \A k \in 1 .. n + 1 : f[k] = Meant(f[k-1], ds[k])
  BY <1>2, <1>5 DEF MeansTo
<1> HIDE DEF n
<1>8. GoTogether(f, h, n)
  <2>1. \A k \in 1 .. n : k \in 1 .. n + 1
    BY <1>1
  <2> QED BY <1>2, <1>6, <1>7, <2>1 DEF GoTogether
<1>9. f[n] = mid
  BY <1>1, <1>3, <1>8, RecursionsAgree
<1>10. f[n + 1] = Meant(f[n], c)
  <2>1. n + 1 \in 1 .. n + 1 /\ (n + 1) - 1 = n
    BY <1>1
  <2> QED BY <1>2, <1>7, <2>1
<1> QED BY <1>4, <1>5, <1>9, <1>10 DEF ds, mid

-----------------------------------------------------------------------------
(* Positions in the array and places in the slices. *)

LEMMA PlaceOfPosition ==
  ASSUME WholeSlices, gsize \in ArraySizes
  PROVE  /\ local_size \in Nat \ {0} /\ gsize \in Nat \ {0}
         /\ \A proc \in Proc, i \in 0 .. local_size - 1 : Position(proc, i) \in 0 .. gsize - 1
         /\ \A b \in 0 .. gsize - 1 :
              /\ b \div local_size \in Proc /\ b % local_size \in 0 .. local_size - 1
              /\ Position(b \div local_size, b % local_size) = b
<1> DEFINE L == local_size
<1>1. L \in Nat \ {0} /\ gsize = N * L /\ gsize \in Nat \ {0} /\ N \in Nat \ {0}
  BY FullSlices, NAssumption DEF local_size
<1> HIDE DEF L
<1>2. ASSUME NEW proc \in Proc, NEW i \in 0 .. L - 1
      PROVE  proc * L + i \in 0 .. gsize - 1
  <2> DEFINE there == proc * L
  <2>1. proc \in Nat /\ proc + 1 <= N
    BY <1>1 DEF Proc
  <2>2. there \in Nat /\ (proc + 1) * L <= N * L /\ (proc + 1) * L = there + L
    BY <1>1, <2>1, TimesMonotone, SMT
  <2> HIDE DEF there
  <2>3. there + L <= gsize
    BY <1>1, <2>2
  <2>4. there + i \in 0 .. gsize - 1
    BY <1>1, <2>2, <2>3
  <2> QED BY <2>4 DEF there
<1>3. ASSUME NEW b \in 0 .. gsize - 1
      PROVE  /\ b \div L \in Proc /\ b % L \in 0 .. L - 1
             /\ (b \div L) * L + (b % L) = b
  <2> DEFINE q == b \div L
             r == b % L
             there == q * L
  <2>1. q \in Nat /\ there <= b /\ b < there + L /\ b \in Nat
    BY <1>1, Quotient
  <2>2. r = b - there /\ there \in Nat
    BY <1>1, <2>1, UniqueQuotient, SMT
  <2> HIDE DEF there, q, r
  <2>3. r \in 0 .. L - 1 /\ there + r = b
    BY <1>1, <2>1, <2>2
  <2>4. q \in Proc
    <3>1. q \in Nat /\ b - there \in Nat
      BY <2>1, <2>2
    <3>2. Position(q, b - there) < gsize
      <4>1. there + (b - there) < gsize
        BY <1>1, <2>1, <2>2
      <4> QED BY <4>1 DEF Position, there, L
    <3> QED BY <3>1, <3>2, ProcOfPosition
  <2> QED BY <2>3, <2>4 DEF q, r, there
<1>4. \A proc \in Proc, i \in 0 .. L - 1 : Position(proc, i) \in 0 .. gsize - 1
  BY <1>2, Zenon DEF Position, L
<1>5. \A b \in 0 .. gsize - 1 : /\ b \div L \in Proc /\ b % L \in 0 .. L - 1
                               /\ Position(b \div L, b % L) = b
  BY <1>3, Zenon DEF Position, L
<1> QED BY <1>1, <1>4, <1>5, Zenon DEF L

(* The places of a piece are those of its bytes. *)
LEMMA PlacesOfPart ==
  ASSUME local_size \in Nat \ {0}, NEW piece \in PieceType, NEW offset \in Nat, NEW size \in Nat,
         PartOf(piece, offset, size), NEW proc \in Proc, NEW i \in 0 .. local_size - 1
  PROVE  /\ Position(proc, i) \in Nat
         /\ (piece.proc = proc /\ i \in piece.idx .. piece.idx + piece.size - 1)
              <=> Position(proc, i) - offset \in Bytes(piece)
         /\ piece.proc = proc => piece.from + i - piece.idx = Position(proc, i) - offset
<1> DEFINE L == local_size
           q == piece.proc
           idx == piece.idx
           from == piece.from
           todo == piece.size
           here == proc * L
           there == q * L
           b == Position(proc, i)
<1>1. /\ q \in Nat /\ idx \in 0 .. L - 1 /\ from \in Nat /\ todo \in Nat /\ idx + todo <= L
      /\ Position(q, idx) = offset + from /\ proc \in Nat /\ L \in Nat \ {0}
  BY NAssumption DEF PartOf, InSlice, PieceType, Proc
<1>2. b = here + i /\ there + idx = offset + from /\ (q = proc => here = there)
  BY <1>1 DEF Position
<1>3. Bytes(piece) = from .. from + todo - 1
  BY DEF Bytes
<1> HIDE DEF q, idx, from, todo, b
<1>4. here \in Nat /\ there \in Nat
  BY <1>1, SMT
<1>5. ASSUME NEW k \in 0 .. L - 1, here + i = there + k
      PROVE  q = proc /\ i = k
  <2>1. here + i \in Nat /\ here <= here + i /\ here + i < here + L
        /\ there <= here + i /\ here + i < there + L
    BY <1>1, <1>4, <1>5
  <2> DEFINE a == here + i
  <2>2. a \in Nat /\ proc * L <= a /\ a < proc * L + L /\ q * L <= a /\ a < q * L + L
    BY <2>1
  <2> HIDE DEF a, here, there
  <2>3. a \div L = q /\ a \div L = proc
    BY <1>1, <2>2, UniqueQuotient
  <2>4. q = proc
    BY <2>3
  <2>5. here = there
    BY <1>2, <2>4 DEF here, there
  <2> QED BY <1>1, <1>4, <1>5, <2>4, <2>5
<1> HIDE DEF here, there, L
<1>6. ASSUME b - offset \in from .. from + todo - 1
      PROVE  q = proc /\ i \in idx .. idx + todo - 1
  <2> DEFINE k == b - offset - from + idx
  <2>1. k \in 0 .. L - 1 /\ k \in idx .. idx + todo - 1 /\ here + i = there + k
    BY <1>1, <1>2, <1>4, <1>6 DEF L
  <2> HIDE DEF k
  <2>2. q = proc /\ i = k
    BY <1>5, <2>1
  <2> QED BY <2>1, <2>2
<1>7. ASSUME q = proc
      PROVE  from + i - idx = b - offset
  <2>1. here = there
    BY <1>2, <1>7
  <2> QED BY <1>1, <1>2, <1>4, <2>1 DEF L
<1>8. ASSUME q = proc, i \in idx .. idx + todo - 1
      PROVE  b - offset \in from .. from + todo - 1
  BY <1>1, <1>2, <1>4, <1>7, <1>8 DEF L
<1>9. b \in Nat
  BY <1>2, <1>4
<1>10. (q = proc /\ i \in idx .. idx + todo - 1) <=> b - offset \in from .. from + todo - 1
  BY <1>6, <1>8
<1> QED BY <1>3, <1>7, <1>9, <1>10 DEF q, idx, from, todo, b

LEMMA TaggedTyped ==
  ASSUME NEW pieces \in Seq(PieceType), NEW id \in Nat
  PROVE  /\ Tagged(pieces, id) \in Seq(TaggedPiece)
         /\ Len(Tagged(pieces, id)) = Len(pieces)
         /\ DOMAIN Tagged(pieces, id) = DOMAIN pieces
         /\ \A k \in DOMAIN pieces : Tagged(pieces, id)[k] = [piece |-> pieces[k], id |-> id]
<1> DEFINE n == Len(pieces)
           ts == Tagged(pieces, id)
           tagged(k) == [piece |-> pieces[k], id |-> id]
<1>1. n \in Nat /\ DOMAIN pieces = 1 .. n /\ \A k \in 1 .. n : pieces[k] \in PieceType
  BY LenProperties, ElementOfSeq
<1>2. ts = [k \in 1 .. n |-> tagged(k)]
  BY <1>1 DEF Tagged
<1>3. \A k \in 1 .. n : tagged(k) \in TaggedPiece
  BY <1>1 DEF TaggedPiece
<1> HIDE DEF tagged, n
<1>4. DOMAIN ts = 1 .. n /\ \A k \in 1 .. n : ts[k] = tagged(k) /\ ts[k] \in TaggedPiece
  BY <1>2, <1>3
<1>5. ts \in Seq(TaggedPiece) /\ Len(ts) = n
  BY <1>1, <1>2, <1>3, SeqDef, LenProperties
<1> QED BY <1>1, <1>4, <1>5 DEF tagged, n

(* The first k pieces of a range, written by one call, change the bytes of *)
(* the range that they have.                                               *)
FirstWritten(r, s, k, pieces, c) ==
  \A proc \in Proc, i \in 0 .. local_size - 1 :
    r[proc][i] = IF \E j \in 1 .. k : Position(proc, i) - c.offset \in Bytes(pieces[j])
                   THEN <<c.id, Position(proc, i) - c.offset>> ELSE s[proc][i]

LEMMA OneMoreWritten ==
  ASSUME WholeSlices, gsize \in ArraySizes, NEW s \in Slices, NEW r \in Slices, NEW c \in Call,
         NEW pieces \in Seq(PieceType), NEW k \in 1 .. Len(pieces), NEW t \in TaggedPiece,
         t = [piece |-> pieces[k], id |-> c.id], PartOf(pieces[k], c.offset, c.size),
         FirstWritten(r, s, k-1, pieces, c)
  PROVE  FirstWritten(Written(r, t), s, k, pieces, c)
<1> SUFFICES ASSUME NEW proc \in Proc, NEW i \in 0 .. local_size - 1
             PROVE  Written(r, t)[proc][i] =
                      IF \E j \in 1 .. k : Position(proc, i) - c.offset \in Bytes(pieces[j])
                        THEN <<c.id, Position(proc, i) - c.offset>> ELSE s[proc][i]
  BY DEF FirstWritten
<1> DEFINE at == Position(proc, i) - c.offset
           piece == pieces[k]
           Among(n) == \E j \in 1 .. n : at \in Bytes(pieces[j])
           byte == <<c.id, at>>
           hit == piece.proc = proc /\ i \in piece.idx .. piece.idx + piece.size - 1
           new == Written(r, t)[proc][i]
           old == r[proc][i]
<1>1. local_size \in Nat \ {0} /\ c.offset \in Nat /\ c.size \in Nat /\ c.id \in Nat
  BY PlaceOfPosition DEF Call
<1>2. piece \in PieceType /\ PartOf(piece, c.offset, c.size)
  BY ElementOfSeq
<1>3. t.piece = piece /\ t.id = c.id
  OBVIOUS
<1>4. /\ hit <=> at \in Bytes(piece)
      /\ piece.proc = proc => piece.from + i - piece.idx = at
  BY <1>1, <1>2, PlacesOfPart
<1>5. new = IF hit THEN byte ELSE old
  <2>1. new = IF proc = t.piece.proc /\ i \in t.piece.idx .. t.piece.idx + t.piece.size - 1
                THEN <<t.id, t.piece.from + i - t.piece.idx>> ELSE r[proc][i]
    BY WrittenAt
  <2> HIDE DEF new, piece, at
  <2> QED BY <1>3, <1>4, <2>1
<1>6. old = IF Among(k-1) THEN byte ELSE s[proc][i]
  BY DEF FirstWritten
<1>7. Among(k) <=> Among(k-1) \/ at \in Bytes(piece)
  <2> HIDE DEF at
  <2>1. k \in Nat \ {0}
    BY LenProperties
  <2>2. \A j \in 1 .. k : j = k \/ j \in 1 .. k-1
    BY <2>1
  <2>3. k \in 1 .. k /\ \A j \in 1 .. k-1 : j \in 1 .. k
    BY <2>1
  <2> QED BY <2>2, <2>3
<1> HIDE DEF Among, hit, byte, new, old, at, piece
<1>8. new = IF Among(k) THEN byte ELSE s[proc][i]
  BY <1>4, <1>5, <1>6, <1>7
<1> QED BY <1>8 DEF Among, byte, new, at

(* A put writes what it means. *)
LEMMA LandedPieces ==
  ASSUME WholeSlices, gsize \in ArraySizes, NEW s \in Slices, NEW a \in Arrays, Held(s, a),
         NEW c \in Call, c.op = "put", NEW pieces, PiecesOf(pieces, c.offset, c.size)
  PROVE  Held(Landed(s, Tagged(pieces, c.id)), Meant(a, c))
<1> DEFINE ts == Tagged(pieces, c.id)
           n == Len(pieces)
           L == local_size
<1>1. c.offset \in Nat /\ c.size \in Nat /\ c.id \in Nat
  BY DEF Call
<1>2. /\ pieces \in Seq(PieceType) /\ n \in Nat /\ DOMAIN pieces = 1 .. n
      /\ \A k \in 1 .. n : PartOf(pieces[k], c.offset, c.size)
      /\ \A i \in 0 .. c.size - 1 : \E j \in 1 .. n : i \in Bytes(pieces[j])
  BY LenProperties DEF PiecesOf
<1>3. /\ ts \in Seq(TaggedPiece) /\ Len(ts) = n
      /\ \A k \in 1 .. n : ts[k] = [piece |-> pieces[k], id |-> c.id]
  BY <1>1, <1>2, TaggedTyped
<1> HIDE DEF ts
<1>4. \A k \in 1 .. n : ts[k] \in TaggedPiece
  BY <1>3, ElementOfSeq
<1>5. PICK h : WritesTo(h, s, ts) /\ h[n] = Landed(s, ts)
  BY <1>3, WritesInOrder
<1>6. /\ h[0] = s /\ \A k \in 0 .. n : h[k] \in Slices
      /\ \A k \in 1 .. n : h[k] = Written(h[k-1], ts[k])
  BY <1>3, <1>5 DEF WritesTo
<1> DEFINE T == {k \in 0 .. n : FirstWritten(h[k], s, k, pieces, c)}
<1> HIDE DEF n
<1>7. 0 \in T
  <2>1. 1 .. 0 = {}
    OBVIOUS
  <2> QED BY <1>2, <1>6, <2>1 DEF FirstWritten
<1>8. ASSUME NEW k \in 0 .. n - 1, k \in T PROVE k + 1 \in T
  <2>1. k + 1 \in 1 .. n /\ (k + 1) - 1 = k /\ k \in 0 .. n /\ k + 1 \in 0 .. n
    BY <1>2
  <2>2. h[k+1] = Written(h[k], ts[k+1])
    BY <1>6, <2>1
  <2>3. FirstWritten(Written(h[k], ts[k+1]), s, k + 1, pieces, c)
    <3>1. FirstWritten(h[k], s, (k + 1) - 1, pieces, c)
      BY <1>8, <2>1
    <3>2. h[k] \in Slices /\ ts[k+1] \in TaggedPiece /\ PartOf(pieces[k+1], c.offset, c.size)
          /\ ts[k+1] = [piece |-> pieces[k+1], id |-> c.id]
      BY <1>2, <1>3, <1>4, <1>6, <2>1
    <3> QED BY <1>2, <2>1, <3>1, <3>2, OneMoreWritten DEF n
  <2> QED BY <2>1, <2>2, <2>3
<1>9. FirstWritten(h[n], s, n, pieces, c)
  <2>1. 0 .. n \subseteq T
    <3> HIDE DEF T
    <3> QED BY <1>2, <1>7, <1>8, BoundedInduction
  <2> QED BY <1>2, <2>1
<1>10. ASSUME NEW proc \in Proc, NEW i \in 0 .. L - 1
       PROVE  h[n][proc][i] = Meant(a, c)[Position(proc, i)]
  <2> DEFINE b == Position(proc, i)
             inRange == b \in c.offset .. c.offset + c.size - 1
             Among == \E j \in 1 .. n : b - c.offset \in Bytes(pieces[j])
  <2>1. b \in 0 .. gsize - 1 /\ b \in Nat
    BY PlaceOfPosition
  <2>2. h[n][proc][i] = IF Among THEN <<c.id, b - c.offset>> ELSE s[proc][i]
    BY <1>9 DEF FirstWritten
  <2>3. s[proc][i] = a[b]
    BY DEF Held
  <2> HIDE DEF b
  <2>4. Meant(a, c)[b] = IF inRange THEN <<c.id, b - c.offset>> ELSE a[b]
    BY <2>1, MeantAt
  <2>5. inRange => Among
    BY <1>1, <1>2, <2>1
  <2>6. Among => inRange
    <3> SUFFICES ASSUME NEW j \in 1 .. n, b - c.offset \in Bytes(pieces[j]) PROVE inRange
      OBVIOUS
    <3>1. pieces[j] \in PieceType /\ PartOf(pieces[j], c.offset, c.size)
      BY <1>2, ElementOfSeq DEF n
    <3>2. pieces[j].from \in Nat /\ pieces[j].size \in Nat /\ pieces[j].from + pieces[j].size <= c.size
      BY <3>1 DEF PartOf, PieceType
    <3> QED BY <1>1, <2>1, <3>2 DEF Bytes
  <2> HIDE DEF Among, inRange
  <2>7. h[n][proc][i] = Meant(a, c)[b]
    BY <2>2, <2>3, <2>4, <2>5, <2>6
  <2> QED BY <2>7 DEF b
<1> QED BY <1>5, <1>10 DEF Held, ts

-----------------------------------------------------------------------------
(* The invariant. *)

LEMMA NothingLands ==
  /\ \A s \in Slices : Landed(s, <<>>) = s
  /\ \A a \in Arrays : Intended(a, <<>>) = a
<1> DEFINE none == <<>>
<1>1. none \in Seq(TaggedPiece) /\ none \in Seq(Call) /\ Len(none) = 0
  OBVIOUS
<1> HIDE DEF none
<1>2. ASSUME NEW s \in Slices PROVE Landed(s, none) = s
  <2>1. PICK h : WritesTo(h, s, none) /\ h[Len(none)] = Landed(s, none)
    BY <1>1, WritesInOrder
  <2> QED BY <1>1, <2>1 DEF WritesTo
<1>3. ASSUME NEW a \in Arrays PROVE Intended(a, none) = a
  <2>1. PICK h : MeansTo(h, a, none) /\ h[Len(none)] = Intended(a, none)
    BY <1>1, MeantInOrder
  <2> QED BY <1>1, <2>1 DEF MeansTo
<1> QED BY <1>2, <1>3 DEF none

LEMMA InitArray == ASSUME WholeSlices, ArrayInit PROVE ArrayInv
<1> DEFINE zero == <<0, 0>>
           L == local_size
<1>1. gsize \in ArraySizes /\ made = 0 /\ puts = <<>> /\ gets = <<>> /\ calls = <<>> /\ got = {}
  BY DEF ArrayInit
<1>2. slice = [proc \in Proc |-> [i \in 0 .. L - 1 |-> zero]]
  BY DEF ArrayInit, local_size
<1>3. array = [b \in 0 .. gsize - 1 |-> zero] /\ zero \in Byte
  BY DEF ArrayInit, Byte
<1>4. \A proc \in Proc, i \in 0 .. L - 1 : Position(proc, i) \in 0 .. gsize - 1
  BY <1>1, PlaceOfPosition
<1> HIDE DEF zero
<1>5. slice \in Slices /\ array \in Arrays
  BY <1>2, <1>3 DEF Slices, Arrays
<1>6. Held(slice, array)
  BY <1>2, <1>3, <1>4 DEF Held
<1>7. Landed(slice, puts) = slice /\ Intended(array, calls) = array
  BY <1>1, <1>5, NothingLands
<1>8. ArrayTypes
  BY <1>1, <1>5 DEF ArrayTypes
<1>9. ArrayHeld
  BY <1>6, <1>7 DEF ArrayHeld
<1>10. PutsFit /\ GetsFit /\ CallsCollect /\ GetsReadArray
  BY <1>1 DEF PutsFit, GetsFit, CallsCollect, GetsReadArray
<1> QED BY <1>8, <1>9, <1>10 DEF ArrayInv

(* While the array keeps its size. *)
LEMMA SameSizes ==
  ASSUME gsize' = gsize
  PROVE  local_size' = local_size /\ Slices' = Slices /\ Arrays' = Arrays
<1>1. local_size' = local_size
  BY DEF local_size
<1> QED BY <1>1 DEF Slices, Arrays

LEMMA StutterArray == ArrayInv /\ UNCHANGED arrayVars => ArrayInv'
<1> SUFFICES ASSUME ArrayInv, UNCHANGED arrayVars PROVE ArrayInv'
  OBVIOUS
<1>1. /\ gsize' = gsize /\ slice' = slice /\ puts' = puts /\ gets' = gets /\ calls' = calls
      /\ made' = made /\ got' = got /\ array' = array
  BY DEF arrayVars
<1>2. local_size' = local_size /\ Slices' = Slices /\ Arrays' = Arrays
  BY <1>1, SameSizes
<1>3. ArrayTypes'
  BY <1>1, <1>2 DEF ArrayInv, ArrayTypes
<1>4. ArrayHeld'
  BY <1>1, <1>2 DEF ArrayInv, ArrayHeld, Held, Position
<1>5. PutsFit' /\ GetsFit'
  BY <1>1, <1>2 DEF ArrayInv, PutsFit, GetsFit, InSlice
<1>6. CallsCollect'
  BY <1>1, <1>2 DEF ArrayInv, CallsCollect, Collects, PartOf, InSlice, Position
<1>7. GetsReadArray'
  BY <1>1 DEF ArrayInv, GetsReadArray
<1> QED BY <1>3, <1>4, <1>5, <1>6, <1>7 DEF ArrayInv

(* A call: what it adds to the calls and to the pieces. *)
LEMMA CallMade ==
  ASSUME WholeSlices, ArrayInv, NEW offset \in 0 .. gsize - 1, NEW size \in 0 .. gsize,
         NEW op \in {"put", "get"}, Made(op, offset, size)
  PROVE  LET c == [op |-> op, id |-> made', offset |-> offset, size |-> size]
         IN  /\ c \in Call /\ calls' = Append(calls, c) /\ made' = made + 1
             /\ PiecesOf(Pieces(offset, size), offset, size)
             /\ Tagged(Pieces(offset, size), made') \in Seq(TaggedPiece)
             /\ DOMAIN Tagged(Pieces(offset, size), made') = DOMAIN Pieces(offset, size)
             /\ \A k \in DOMAIN Pieces(offset, size) :
                  Tagged(Pieces(offset, size), made')[k] = [piece |-> Pieces(offset, size)[k], id |-> made']
<1> DEFINE c == [op |-> op, id |-> made', offset |-> offset, size |-> size]
<1>1. /\ gsize \in ArraySizes /\ made \in Nat
  BY DEF ArrayInv, ArrayTypes
<1>2. made' = made + 1 /\ calls' = Append(calls, c) /\ offset + size <= gsize
  BY DEF Made, InRange
<1>3. gsize \in Nat /\ offset \in Nat /\ size \in Nat
  BY <1>1, ArraysAssumption
<1>4. c \in Call
  BY <1>1, <1>2, <1>3 DEF Call
<1>5. PiecesOf(Pieces(offset, size), offset, size)
  BY <1>1, <1>2, <1>3, RangeIsCut
<1> DEFINE pieces == Pieces(offset, size)
<1>6. pieces \in Seq(PieceType) /\ made + 1 \in Nat
  BY <1>1, <1>5 DEF PiecesOf
<1> HIDE DEF pieces
<1>7. /\ Tagged(pieces, made + 1) \in Seq(TaggedPiece)
      /\ DOMAIN Tagged(pieces, made + 1) = DOMAIN pieces
      /\ \A k \in DOMAIN pieces : Tagged(pieces, made + 1)[k] = [piece |-> pieces[k], id |-> made + 1]
  BY <1>6, TaggedTyped
<1> QED BY <1>2, <1>4, <1>5, <1>7 DEF pieces

(* What the entries say that are there. *)
LEMMA Entries ==
  ASSUME ArrayInv
  PROVE  /\ \A k \in DOMAIN gets : InSlice(gets[k].piece) /\ gets[k].id <= made /\ gets[k].id \in Nat
         /\ \A k \in DOMAIN calls : /\ calls[k] \in Call /\ calls[k].id \in Nat /\ calls[k].id <= made
                                    /\ calls[k].op = "get" => Collects(calls[k])
<1> DEFINE ts == gets
           cs == calls
<1>1. ts \in Seq(TaggedPiece) /\ cs \in Seq(Call)
  BY DEF ArrayInv, ArrayTypes
<1> HIDE DEF ts, cs
<1>2. /\ \A k \in DOMAIN ts : ts[k] \in TaggedPiece
      /\ \A k \in DOMAIN cs : cs[k] \in Call
  BY <1>1, LenProperties, ElementOfSeq
<1>3. /\ \A k \in DOMAIN ts : ts[k].id \in Nat
      /\ \A k \in DOMAIN cs : cs[k].id \in Nat
  BY <1>2 DEF TaggedPiece, Call
<1> QED BY <1>2, <1>3 DEF ArrayInv, GetsFit, CallsCollect, ts, cs

(* The calls that were there keep what they say. *)
LEMMA CallAdded ==
  ASSUME calls \in Seq(Call), NEW c \in Call, calls' = Append(calls, c)
  PROVE  /\ calls' \in Seq(Call)
         /\ \A k \in DOMAIN calls' : calls'[k] = c \/ \E j \in DOMAIN calls : calls'[k] = calls[j]
<1> DEFINE n == Len(calls)
           cs == calls
           ds == Append(cs, c)
<1>1. n \in Nat /\ DOMAIN calls = 1 .. n
  BY LenProperties
<1>2. cs \in Seq(Call)
  OBVIOUS
<1> HIDE DEF cs
<1>3. ds \in Seq(Call) /\ Len(ds) = Len(cs) + 1 /\ DOMAIN ds = 1 .. Len(cs) + 1
      /\ ds[Len(cs) + 1] = c /\ \A k \in 1 .. Len(cs) : ds[k] = cs[k]
  BY <1>2, AppendProperties, LenProperties
<1>4. calls' = ds /\ Len(cs) = n
  BY DEF cs
<1> HIDE DEF n, ds
<1>5. \A k \in 1 .. n + 1 : k = n + 1 \/ k \in 1 .. n
  BY <1>1
<1> QED BY <1>1, <1>3, <1>4, <1>5 DEF cs

(* More pieces come behind those that are there. *)
Extended(vs, ts, us) ==
  /\ vs \in Seq(TaggedPiece)
  /\ \A k \in DOMAIN ts : k \in DOMAIN vs /\ vs[k] = ts[k]
  /\ \A k \in DOMAIN us : \E j \in DOMAIN vs : vs[j] = us[k]
  /\ \A k \in DOMAIN vs : \/ \E j \in DOMAIN ts : vs[k] = ts[j]
                          \/ \E j \in DOMAIN us : vs[k] = us[j]

LEMMA PiecesAdded ==
  ASSUME NEW ts \in Seq(TaggedPiece), NEW us \in Seq(TaggedPiece)
  PROVE  Extended(ts \o us, ts, us)
<1> DEFINE n == Len(ts)
           m == Len(us)
           vs == ts \o us
<1>1. n \in Nat /\ m \in Nat /\ DOMAIN ts = 1 .. n /\ DOMAIN us = 1 .. m
  BY LenProperties
<1>2. /\ vs \in Seq(TaggedPiece) /\ Len(vs) = n + m
      /\ \A k \in 1 .. n : vs[k] = ts[k]
      /\ \A k \in n + 1 .. n + m : vs[k] = us[k - n]
  BY ConcatProperties
<1> HIDE DEF vs
<1>3. DOMAIN vs = 1 .. n + m
  BY <1>2, LenProperties
<1> HIDE DEF n, m
<1>4. \A k \in DOMAIN ts : k \in DOMAIN vs /\ vs[k] = ts[k]
  BY <1>1, <1>2, <1>3
<1>5. ASSUME NEW k \in DOMAIN us PROVE \E j \in DOMAIN vs : vs[j] = us[k]
  <2> DEFINE j == n + k
  <2>1. j \in 1 .. n + m /\ j \in n + 1 .. n + m /\ j - n = k
    BY <1>1
  <2> HIDE DEF j
  <2>2. vs[j] = us[j - n]
    BY <1>2, <2>1
  <2> QED BY <1>3, <2>1, <2>2
<1>6. ASSUME NEW k \in DOMAIN vs
      PROVE  (\E j \in DOMAIN ts : vs[k] = ts[j]) \/ (\E j \in DOMAIN us : vs[k] = us[j])
  <2>1. k \in 1 .. n \/ (k \in n + 1 .. n + m /\ k - n \in 1 .. m)
    BY <1>1, <1>3
  <2> QED BY <1>1, <1>2, <2>1
<1>7. Extended(vs, ts, us)
  BY <1>2, <1>4, <1>5, <1>6 DEF Extended
<1> QED BY <1>7 DEF vs

LEMMA PutKeeps ==
  ASSUME WholeSlices, ArrayInv, NEW offset \in 0 .. gsize - 1, NEW size \in 0 .. gsize,
         GlobalPut(offset, size)
  PROVE  ArrayInv'
<1> DEFINE c == [op |-> "put", id |-> made', offset |-> offset, size |-> size]
           pieces == Pieces(offset, size)
           ts == Tagged(pieces, made')
           landed == Landed(slice, puts)
           intended == Intended(array, calls)
<1>1. /\ gsize' = gsize /\ slice' = slice /\ gets' = gets /\ got' = got /\ array' = array
      /\ puts' = puts \o ts /\ Made("put", offset, size)
  BY DEF GlobalPut
<1>2. /\ gsize \in ArraySizes /\ made \in Nat /\ slice \in Slices /\ array \in Arrays
      /\ calls \in Seq(Call) /\ puts \in Seq(TaggedPiece) /\ gets \in Seq(TaggedPiece)
  BY DEF ArrayInv, ArrayTypes
<1>3. /\ c \in Call /\ calls' = Append(calls, c) /\ made' = made + 1
      /\ PiecesOf(pieces, offset, size) /\ ts \in Seq(TaggedPiece)
      /\ DOMAIN ts = DOMAIN pieces
      /\ \A k \in DOMAIN pieces : ts[k] = [piece |-> pieces[k], id |-> made']
  BY <1>1, CallMade
<1>4. c.op = "put" /\ c.offset = offset /\ c.size = size /\ c.id = made'
  OBVIOUS
<1>5. local_size' = local_size /\ Slices' = Slices /\ Arrays' = Arrays
  BY <1>1, SameSizes
<1> HIDE DEF c, pieces
<1>6. \A k \in DOMAIN ts : InSlice(ts[k].piece)
  <2> HIDE DEF ts
  <2> QED BY <1>3 DEF PiecesOf, PartOf
<1> HIDE DEF ts
<1>7. /\ calls' \in Seq(Call)
      /\ \A k \in DOMAIN calls' : calls'[k] = c \/ \E j \in DOMAIN calls : calls'[k] = calls[j]
  BY <1>2, <1>3, CallAdded
<1>8. /\ puts' \in Seq(TaggedPiece)
      /\ \A k \in DOMAIN puts' : \/ \E j \in DOMAIN puts : puts'[k] = puts[j]
                                 \/ \E j \in DOMAIN ts : puts'[k] = ts[j]
  <2>1. Extended(puts \o ts, puts, ts)
    BY <1>2, <1>3, PiecesAdded
  <2>2. Extended(puts', puts, ts)
    BY <1>1, <2>1
  <2> QED BY <2>2 DEF Extended
<1>9. ArrayTypes'
  BY <1>1, <1>2, <1>3, <1>5, <1>7, <1>8 DEF ArrayTypes
<1>10. ArrayHeld'
  <2>1. Held(slice, array) /\ Held(landed, intended)
    BY DEF ArrayInv, ArrayHeld
  <2>2. landed \in Slices /\ Landed(slice, puts') = Landed(landed, ts)
    BY <1>1, <1>2, <1>3, LandedMore
  <2>3. intended \in Arrays /\ Intended(array, calls') = Meant(intended, c)
    BY <1>2, <1>3, IntendedMore
  <2> HIDE DEF landed, intended
  <2>4. Held(Landed(landed, ts), Meant(intended, c))
    <3>1. PiecesOf(pieces, c.offset, c.size) /\ ts = Tagged(pieces, c.id)
      BY <1>3, <1>4 DEF ts
    <3>2. Held(Landed(landed, Tagged(pieces, c.id)), Meant(intended, c))
      BY <1>2, <1>3, <1>4, <2>1, <2>2, <2>3, <3>1, LandedPieces
    <3> QED BY <3>1, <3>2
  <2>5. Held(slice', array') /\ Held(Landed(slice', puts'), Intended(array', calls'))
    BY <1>1, <2>1, <2>2, <2>3, <2>4
  <2> QED BY <1>5, <2>5 DEF ArrayHeld, Held, Position
<1>11. PutsFit'
  <2>1. \A k \in DOMAIN puts' : InSlice(puts'[k].piece)
    BY <1>6, <1>8 DEF ArrayInv, PutsFit
  <2> QED BY <1>5, <2>1 DEF PutsFit, InSlice
<1>12. GetsFit'
  <2>1. \A k \in DOMAIN gets : InSlice(gets[k].piece) /\ gets[k].id <= made /\ gets[k].id \in Nat
    BY Entries
  <2>2. \A k \in DOMAIN gets' : InSlice(gets'[k].piece) /\ gets'[k].id <= made'
    BY <1>1, <1>2, <1>3, <2>1
  <2> QED BY <1>5, <2>2 DEF GetsFit, InSlice
<1>13. CallsCollect'
  <2>1. \A j \in DOMAIN calls : /\ calls[j].id \in Nat /\ calls[j].id <= made
                                /\ calls[j].op = "get" => Collects(calls[j])
    BY Entries
  <2>2. \A k \in DOMAIN calls' : /\ calls'[k].id <= made'
                                 /\ calls'[k].op = "get" => Collects(calls'[k])
    BY <1>2, <1>3, <1>4, <1>7, <2>1
  <2> QED BY <1>1, <1>5, <2>2 DEF CallsCollect, Collects, PartOf, InSlice, Position
<1>14. GetsReadArray'
  BY <1>1 DEF ArrayInv, GetsReadArray
<1> QED BY <1>9, <1>10, <1>11, <1>12, <1>13, <1>14 DEF ArrayInv

(* A new get has pieces of its own, and those of the others stay theirs. *)
LEMMA GetKeeps ==
  ASSUME WholeSlices, ArrayInv, NEW offset \in 0 .. gsize - 1, NEW size \in 0 .. gsize,
         GlobalGet(offset, size)
  PROVE  ArrayInv'
<1> DEFINE c == [op |-> "get", id |-> made', offset |-> offset, size |-> size]
           pieces == Pieces(offset, size)
           ts == Tagged(pieces, made')
           intended == Intended(array, calls)
<1>1. /\ gsize' = gsize /\ slice' = slice /\ puts' = puts /\ got' = got /\ array' = array
      /\ gets' = gets \o ts /\ Made("get", offset, size)
  BY DEF GlobalGet
<1>2. /\ gsize \in ArraySizes /\ made \in Nat /\ slice \in Slices /\ array \in Arrays
      /\ calls \in Seq(Call) /\ puts \in Seq(TaggedPiece) /\ gets \in Seq(TaggedPiece)
  BY DEF ArrayInv, ArrayTypes
<1>3. /\ c \in Call /\ calls' = Append(calls, c) /\ made' = made + 1
      /\ PiecesOf(pieces, offset, size) /\ ts \in Seq(TaggedPiece)
      /\ DOMAIN ts = DOMAIN pieces
      /\ \A k \in DOMAIN pieces : ts[k] = [piece |-> pieces[k], id |-> made']
  BY <1>1, CallMade
<1>4. c.op = "get" /\ c.offset = offset /\ c.size = size /\ c.id = made'
  OBVIOUS
<1>5. local_size' = local_size /\ Slices' = Slices /\ Arrays' = Arrays
  BY <1>1, SameSizes
<1> HIDE DEF c, pieces
<1>6. /\ DOMAIN ts = DOMAIN pieces
      /\ \A k \in DOMAIN ts : ts[k].piece = pieces[k] /\ ts[k].id = made'
  <2> HIDE DEF ts
  <2> QED BY <1>3
<1> HIDE DEF ts
<1>7. /\ calls' \in Seq(Call)
      /\ \A k \in DOMAIN calls' : calls'[k] = c \/ \E j \in DOMAIN calls : calls'[k] = calls[j]
  BY <1>2, <1>3, CallAdded
<1>8. /\ gets' \in Seq(TaggedPiece)
      /\ \A k \in DOMAIN gets : k \in DOMAIN gets' /\ gets'[k] = gets[k]
      /\ \A k \in DOMAIN ts : \E j \in DOMAIN gets' : gets'[j] = ts[k]
      /\ \A k \in DOMAIN gets' : \/ \E j \in DOMAIN gets : gets'[k] = gets[j]
                                 \/ \E j \in DOMAIN ts : gets'[k] = ts[j]
  <2>1. Extended(gets \o ts, gets, ts)
    BY <1>2, <1>3, PiecesAdded
  <2>2. Extended(gets', gets, ts)
    BY <1>1, <2>1
  <2> QED BY <2>2 DEF Extended
<1>9. ArrayTypes'
  BY <1>1, <1>2, <1>3, <1>5, <1>7, <1>8 DEF ArrayTypes
<1>10. ArrayHeld'
  <2>1. Held(slice, array) /\ Held(Landed(slice, puts), intended)
    BY DEF ArrayInv, ArrayHeld
  <2>2. intended \in Arrays /\ Intended(array, calls') = Meant(intended, c)
    BY <1>2, <1>3, IntendedMore
  <2> HIDE DEF intended
  <2>3. Meant(intended, c) = intended
    BY <1>3, <1>4, <2>2, GetMeansNothing
  <2>4. Held(slice', array') /\ Held(Landed(slice', puts'), Intended(array', calls'))
    BY <1>1, <2>1, <2>2, <2>3
  <2> QED BY <1>5, <2>4 DEF ArrayHeld, Held, Position
<1>11. PutsFit'
  <2>1. \A k \in DOMAIN puts' : InSlice(puts'[k].piece)
    BY <1>1 DEF ArrayInv, PutsFit
  <2> QED BY <1>5, <2>1 DEF PutsFit, InSlice
<1>12. \A k \in DOMAIN gets : InSlice(gets[k].piece) /\ gets[k].id <= made /\ gets[k].id \in Nat
  BY Entries
<1>13. \A k \in DOMAIN ts : PartOf(ts[k].piece, offset, size)
  BY <1>3, <1>6 DEF PiecesOf
<1>14. GetsFit'
  <2>1. ASSUME NEW k \in DOMAIN gets' PROVE InSlice(gets'[k].piece) /\ gets'[k].id <= made'
    <3>1. CASE \E j \in DOMAIN gets : gets'[k] = gets[j]
      BY <1>2, <1>3, <1>12, <3>1
    <3>2. CASE \E j \in DOMAIN ts : gets'[k] = ts[j]
      BY <1>2, <1>3, <1>6, <1>13, <3>2 DEF PartOf
    <3> QED BY <1>8, <3>1, <3>2
  <2> QED BY <1>5, <2>1 DEF GetsFit, InSlice
<1> DEFINE Has(id, off, len) ==
             /\ \A k \in DOMAIN gets' : gets'[k].id = id => PartOf(gets'[k].piece, off, len)
             /\ \A i \in 0 .. len - 1 :
                  \E k \in DOMAIN gets' : gets'[k].id = id /\ i \in Bytes(gets'[k].piece)
<1>15. Has(made', offset, size)
  <2>1. ASSUME NEW k \in DOMAIN gets', gets'[k].id = made' PROVE PartOf(gets'[k].piece, offset, size)
    <3>1. ~ \E j \in DOMAIN gets : gets'[k] = gets[j]
      BY <1>2, <1>3, <1>12, <2>1
    <3> QED BY <1>8, <1>13, <3>1
  <2>2. ASSUME NEW i \in 0 .. size - 1
        PROVE  \E k \in DOMAIN gets' : gets'[k].id = made' /\ i \in Bytes(gets'[k].piece)
    <3>1. PICK j \in DOMAIN ts : i \in Bytes(ts[j].piece)
      BY <1>3, <1>6 DEF PiecesOf
    <3>2. PICK k \in DOMAIN gets' : gets'[k] = ts[j]
      BY <1>8
    <3> QED BY <1>6, <3>1, <3>2
  <2> QED BY <2>1, <2>2
<1>16. ASSUME NEW j \in DOMAIN calls, calls[j].op = "get"
       PROVE  Has(calls[j].id, calls[j].offset, calls[j].size)
  <2>1. calls[j].id <= made /\ calls[j].id \in Nat /\ Collects(calls[j])
    BY <1>16, Entries
  <2> DEFINE d == calls[j]
  <2>2. /\ \A k \in DOMAIN gets : gets[k].id = d.id => PartOf(gets[k].piece, d.offset, d.size)
        /\ \A i \in 0 .. d.size - 1 :
             \E k \in DOMAIN gets : gets[k].id = d.id /\ i \in Bytes(gets[k].piece)
    BY <2>1 DEF Collects
  <2>3. d.id # made'
    BY <1>2, <1>3, <2>1
  <2> HIDE DEF d
  <2>4. ASSUME NEW k \in DOMAIN gets', gets'[k].id = d.id PROVE PartOf(gets'[k].piece, d.offset, d.size)
    <3>1. ~ \E i \in DOMAIN ts : gets'[k] = ts[i]
      BY <1>6, <2>3, <2>4
    <3> QED BY <1>8, <2>2, <2>4, <3>1
  <2>5. ASSUME NEW i \in 0 .. d.size - 1
        PROVE  \E k \in DOMAIN gets' : gets'[k].id = d.id /\ i \in Bytes(gets'[k].piece)
    <3>1. PICK k \in DOMAIN gets : gets[k].id = d.id /\ i \in Bytes(gets[k].piece)
      BY <2>2
    <3> QED BY <1>8, <3>1
  <2>6. Has(d.id, d.offset, d.size)
    BY <2>4, <2>5
  <2> QED BY <2>6 DEF d
<1>17. CallsCollect'
  <2>1. \A k \in DOMAIN calls' : calls'[k].op = "get" => Has(calls'[k].id, calls'[k].offset, calls'[k].size)
    <3> HIDE DEF Has
    <3> QED BY <1>4, <1>7, <1>15, <1>16
  <2>2. \A j \in DOMAIN calls : calls[j].id \in Nat /\ calls[j].id <= made
    BY Entries
  <2>3. \A k \in DOMAIN calls' : calls'[k].id <= made'
    BY <1>2, <1>3, <1>4, <1>7, <2>2
  <2> QED BY <1>1, <1>5, <2>1, <2>3 DEF CallsCollect, Collects, PartOf, InSlice, Position
<1>18. GetsReadArray'
  BY <1>1 DEF ArrayInv, GetsReadArray
<1> QED BY <1>9, <1>10, <1>11, <1>14, <1>17, <1>18 DEF ArrayInv

(* What a piece of a get reads. *)
LEMMA PieceReadsPart ==
  ASSUME WholeSlices, gsize \in ArraySizes, Held(slice, array), NEW t \in TaggedPiece,
         NEW offset \in Nat, NEW size \in Nat, PartOf(t.piece, offset, size)
  PROVE  /\ DOMAIN Read(t) = Bytes(t.piece)
         /\ \A i \in Bytes(t.piece) : i \in 0 .. size - 1 /\ Read(t)[i] = array[offset + i]
<1> DEFINE piece == t.piece
           L == local_size
<1>1. piece \in PieceType /\ L \in Nat \ {0}
  BY PlaceOfPosition DEF TaggedPiece
<1>2. Read(t) = [i \in Bytes(piece) |-> slice[piece.proc][piece.idx + i - piece.from]]
  BY DEF Read, Bytes
<1> DEFINE q == piece.proc
           idx == piece.idx
           from == piece.from
           todo == piece.size
<1>3. /\ q \in Proc /\ idx \in 0 .. L - 1 /\ from \in Nat /\ todo \in Nat /\ idx + todo <= L
      /\ Position(q, idx) = offset + from /\ from + todo <= size /\ q \in Nat
  BY <1>1, NAssumption DEF PartOf, InSlice, PieceType, Proc
<1>4. Bytes(piece) = from .. from + todo - 1
  BY DEF Bytes
<1> HIDE DEF q, idx, from, todo, piece, L
<1>5. ASSUME NEW i \in Bytes(piece)
      PROVE  i \in 0 .. size - 1 /\ slice[q][idx + i - from] = array[offset + i]
  <2> DEFINE k == idx + i - from
             here == q * L
  <2>1. i \in from .. from + todo - 1
    BY <1>4
  <2>2. i \in 0 .. size - 1 /\ k \in 0 .. L - 1
    BY <1>1, <1>3, <2>1
  <2>3. here \in Nat
    BY <1>1, <1>3, SMT
  <2>4. here + idx = offset + from
    BY <1>3 DEF Position, L
  <2> HIDE DEF here
  <2>5. here + k = offset + i
    BY <1>1, <1>3, <2>1, <2>3, <2>4
  <2>6. Position(q, k) = offset + i
    BY <2>5, Zenon DEF Position, here, L
  <2> HIDE DEF k
  <2>7. slice[q][k] = array[Position(q, k)]
    BY <1>3, <2>2 DEF Held, L
  <2> QED BY <2>2, <2>6, <2>7 DEF k
<1> QED BY <1>2, <1>5 DEF q, idx, from, piece

(* A get of this superstep delivers its range. *)
LEMMA GetDelivers ==
  ASSUME WholeSlices, ArrayInv, NEW c \in GetCalls
  PROVE  [i \in UNION {DOMAIN r : r \in PieceReads(c)} |-> ByteGot(c, i)]
           = [i \in 0 .. c.size - 1 |-> array[c.offset + i]]
<1>1. gsize \in ArraySizes /\ Held(slice, array) /\ gets \in Seq(TaggedPiece)
  BY DEF ArrayInv, ArrayTypes, ArrayHeld
<1>2. c \in Call /\ Collects(c)
  BY Entries DEF GetCalls
<1>3. c.offset \in Nat /\ c.size \in Nat
  BY <1>2 DEF Call
<1>4. \A k \in DOMAIN gets : gets[k] \in TaggedPiece
  <2> DEFINE ts == gets
  <2>1. ts \in Seq(TaggedPiece)
    BY <1>1
  <2> HIDE DEF ts
  <2>2. \A k \in DOMAIN ts : ts[k] \in TaggedPiece
    BY <2>1, LenProperties, ElementOfSeq
  <2> QED BY <2>2 DEF ts
<1>5. ASSUME NEW k \in DOMAIN gets, gets[k].id = c.id
      PROVE  /\ DOMAIN Read(gets[k]) = Bytes(gets[k].piece)
             /\ \A i \in DOMAIN Read(gets[k]) :
                  i \in 0 .. c.size - 1 /\ Read(gets[k])[i] = array[c.offset + i]
  <2>1. PartOf(gets[k].piece, c.offset, c.size) /\ gets[k] \in TaggedPiece
    BY <1>2, <1>4, <1>5 DEF Collects
  <2> QED BY <1>1, <1>3, <2>1, PieceReadsPart
<1> DEFINE reads == PieceReads(c)
           all == UNION {DOMAIN r : r \in reads}
<1>6. \A r \in reads : \A i \in DOMAIN r : i \in 0 .. c.size - 1 /\ r[i] = array[c.offset + i]
  BY <1>5 DEF PieceReads
<1>7. \A i \in 0 .. c.size - 1 : \E r \in reads : i \in DOMAIN r
  <2> TAKE i \in 0 .. c.size - 1
  <2>1. PICK k \in DOMAIN gets : gets[k].id = c.id /\ i \in Bytes(gets[k].piece)
    BY <1>2 DEF Collects
  <2>2. Read(gets[k]) \in reads
    BY <2>1 DEF PieceReads
  <2> QED BY <1>5, <2>1, <2>2
<1> HIDE DEF reads
<1>8. all = 0 .. c.size - 1
  BY <1>6, <1>7
<1>9. ASSUME NEW i \in 0 .. c.size - 1 PROVE ByteGot(c, i) = array[c.offset + i]
  <2> DEFINE chosen == CHOOSE r \in reads : i \in DOMAIN r
  <2>1. chosen \in reads /\ i \in DOMAIN chosen
    BY <1>7
  <2>2. ByteGot(c, i) = chosen[i]
    BY DEF ByteGot, reads
  <2> HIDE DEF chosen
  <2> QED BY <1>6, <2>1, <2>2
<1> HIDE DEF all
<1>10. [i \in all |-> ByteGot(c, i)] = [i \in 0 .. c.size - 1 |-> array[c.offset + i]]
  BY <1>8, <1>9
<1> QED BY <1>10 DEF all, reads

LEMMA SyncKeeps == ASSUME WholeSlices, ArrayInv, ArraySync PROVE ArrayInv'
<1> DEFINE landed == Landed(slice, puts)
           intended == Intended(array, calls)
<1>1. /\ slice' = landed /\ array' = intended /\ gsize' = gsize /\ made' = made
      /\ puts' = <<>> /\ gets' = <<>> /\ calls' = <<>>
  BY DEF ArraySync
<1>2. /\ gsize \in ArraySizes /\ made \in Nat /\ slice \in Slices /\ array \in Arrays
      /\ calls \in Seq(Call) /\ puts \in Seq(TaggedPiece)
  BY DEF ArrayInv, ArrayTypes
<1>3. local_size' = local_size /\ Slices' = Slices /\ Arrays' = Arrays
  BY <1>1, SameSizes
<1>4. landed \in Slices
  <2> DEFINE none == <<>>
  <2>1. none \in Seq(TaggedPiece)
    OBVIOUS
  <2> HIDE DEF none
  <2> QED BY <1>2, <2>1, LandedMore
<1>5. intended \in Arrays
  <2>1. PICK h : MeansTo(h, array, calls) /\ h[Len(calls)] = intended
    BY <1>2, MeantInOrder
  <2>2. Len(calls) \in 0 .. Len(calls)
    BY <1>2, LenProperties
  <2> QED BY <2>1, <2>2 DEF MeansTo
<1>6. Held(landed, intended)
  BY DEF ArrayInv, ArrayHeld
<1> HIDE DEF landed, intended
<1>7. ArrayTypes'
  BY <1>1, <1>2, <1>3, <1>4, <1>5 DEF ArrayTypes
<1>8. ArrayHeld'
  <2>1. Landed(slice', puts') = landed /\ Intended(array', calls') = intended
    BY <1>1, <1>4, <1>5, NothingLands
  <2>2. Held(slice', array') /\ Held(Landed(slice', puts'), Intended(array', calls'))
    BY <1>1, <1>6, <2>1
  <2> QED BY <1>3, <2>2 DEF ArrayHeld, Held, Position
<1>9. PutsFit' /\ GetsFit' /\ CallsCollect'
  BY <1>1 DEF PutsFit, GetsFit, CallsCollect
<1>10. GetsReadArray'
  <2> DEFINE bytes(c) == [i \in UNION {DOMAIN r : r \in PieceReads(c)} |-> ByteGot(c, i)]
             record(c) == [offset |-> c.offset, before |-> array, bytes |-> bytes(c), size |-> c.size]
  <2>1. got' = {record(c) : c \in GetCalls}
    BY DEF ArraySync
  <2>2. \A c \in GetCalls : bytes(c) = [i \in 0 .. c.size - 1 |-> array[c.offset + i]]
    BY GetDelivers
  <2> HIDE DEF bytes
  <2>3. ASSUME NEW g \in got'
        PROVE  g.bytes = [i \in 0 .. g.size - 1 |-> g.before[g.offset + i]]
    <3>1. PICK c \in GetCalls : g = record(c)
      BY <2>1
    <3>2. g.bytes = bytes(c) /\ g.size = c.size /\ g.before = array /\ g.offset = c.offset
      BY <3>1
    <3> QED BY <2>2, <3>2
  <2> QED BY <2>3 DEF GetsReadArray
<1> QED BY <1>7, <1>8, <1>9, <1>10 DEF ArrayInv

(***************************************************************************)
(* The invariant holds, for sizes with which the slices are full.          *)
(***************************************************************************)
THEOREM ArrayInvariant == WholeSlices => (ArraySpec => []ArrayInv)
<1> SUFFICES ASSUME WholeSlices PROVE ArraySpec => []ArrayInv
  OBVIOUS
<1>1. ArrayInit => ArrayInv
  BY InitArray
<1>2. ArrayInv /\ [ArrayNext]_arrayVars => ArrayInv'
  <2> SUFFICES ASSUME ArrayInv, [ArrayNext]_arrayVars PROVE ArrayInv'
    OBVIOUS
  <2>1. CASE UNCHANGED arrayVars
    BY <2>1, StutterArray
  <2>2. ASSUME NEW offset \in 0 .. gsize - 1, NEW size \in 0 .. gsize, GlobalPut(offset, size)
        PROVE  ArrayInv'
    BY <2>2, PutKeeps
  <2>3. ASSUME NEW offset \in 0 .. gsize - 1, NEW size \in 0 .. gsize, GlobalGet(offset, size)
        PROVE  ArrayInv'
    BY <2>3, GetKeeps
  <2>4. CASE ArraySync
    BY <2>4, SyncKeeps
  <2>5. CASE ArrayOver
    BY <2>5, StutterArray DEF ArrayOver
  <2> QED BY <2>1, <2>2, <2>3, <2>4, <2>5 DEF ArrayNext
<1> QED BY <1>1, <1>2, PTL DEF ArraySpec

(* Every byte that was put is where any later call looks for its position  *)
(* (bspx_global_put, _get and bspx_sync), whatever the ranges of the calls *)
(* were and whichever slices they went across.                             *)
THEOREM ArrayAlwaysHeld == WholeSlices => (ArraySpec => []SlicesHoldArray)
<1> SUFFICES ASSUME WholeSlices PROVE ArraySpec => []SlicesHoldArray
  OBVIOUS
<1>1. ArrayInv => SlicesHoldArray
  <2> SUFFICES ASSUME ArrayInv, NEW b \in 0 .. gsize - 1
               PROVE  slice[b \div local_size][b % local_size] = array[b]
    BY DEF SlicesHoldArray
  <2> DEFINE proc == b \div local_size
             i == b % local_size
  <2>1. proc \in Proc /\ i \in 0 .. local_size - 1 /\ Position(proc, i) = b
    BY PlaceOfPosition DEF ArrayInv, ArrayTypes
  <2> HIDE DEF proc, i
  <2>2. slice[proc][i] = array[Position(proc, i)]
    BY <2>1 DEF ArrayInv, ArrayHeld, Held
  <2> QED BY <2>1, <2>2 DEF proc, i
<1> QED BY <1>1, ArrayInvariant, PTL

(* A global get delivers the whole of its range as it was before the puts  *)
(* of its superstep, in however many pieces it went (bspx_global_get).     *)
THEOREM GetsAlwaysReadArray == WholeSlices => (ArraySpec => []GetsReadArray)
<1> SUFFICES ASSUME WholeSlices PROVE ArraySpec => []GetsReadArray
  OBVIOUS
<1>1. ArrayInv => GetsReadArray
  BY DEF ArrayInv
<1> QED BY <1>1, ArrayInvariant, PTL

(* The assertions of the loops of bsp_global_drma.c never fail.            *)
THEOREM PiecesAlwaysInSlices == WholeSlices => (ArraySpec => []PiecesInSlices)
<1> SUFFICES ASSUME WholeSlices PROVE ArraySpec => []PiecesInSlices
  OBVIOUS
<1>1. ArrayInv => PiecesInSlices
  <2> SUFFICES ASSUME ArrayInv, NEW t \in Range(puts) \union Range(gets)
               PROVE  /\ t.piece.proc < N /\ t.piece.idx < local_size
                      /\ t.piece.idx + t.piece.size <= local_size
    BY DEF PiecesInSlices
  <2>1. InSlice(t.piece)
    BY DEF Range, ArrayInv, PutsFit, GetsFit
  <2>2. local_size \in Nat /\ N \in Nat
    BY PlaceOfPosition, NAssumption DEF ArrayInv, ArrayTypes
  <2> QED BY <2>1, <2>2 DEF InSlice, Proc
<1> QED BY <1>1, ArrayInvariant, PTL

=============================================================================
