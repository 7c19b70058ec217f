---------------------------- MODULE SharedProofs ----------------------------
(***************************************************************************)
(* Proofs about SharedVars as SharedOutcome observes it, for any numbers   *)
(* of processors and nodes, any declared variables and any sequence of     *)
(* calls that all nodes make: values and datasets keep their types, the    *)
(* nodes agree on every collective, and the elements of a dataset lie      *)
(* apart.                                                                  *)
(*                                                                         *)
(* Nothing about sizes is compared between two nodes.  A call has a fixed  *)
(* number of collectives, so the place of an entry in a log tells which    *)
(* call it belongs to and which of its collectives it is; what a node      *)
(* passes there follows from the call and, in a second collective, from    *)
(* what the nodes have passed in the first.                                *)
(***************************************************************************)
EXTENDS SharedOutcome, SequenceTheorems, Recursion

-----------------------------------------------------------------------------
(***************************************************************************)
(* Datasets.  The first m elements of a list lie in a dataset one behind   *)
(* the other, from the end of its header on.                               *)
(***************************************************************************)
Value == Seq(Nat)
Named == DOMAIN Kind \intersect DOMAIN NameBytes
Lists == Seq(Named)

Word == {Junk} \union {Number(n) : n \in Nat}
               \union {Element(nv[1], nv[2]) : nv \in Named \X Value}
IsDataset(d) ==
  /\ d = [data |-> d.data, size |-> d.size, pos |-> d.pos, nelem |-> d.nelem, current |-> d.current]
  /\ d.data \in [0 .. d.size-1 -> Word]
  /\ d.size \in Nat /\ d.pos \in 0 .. d.size
  /\ d.nelem \in Nat /\ d.nelem + 2 <= d.size /\ d.current \in 0 .. d.nelem

(* The elements begin at the positions at[1] to at[m]; at[m+1] is behind.  *)
Behind(at, name, value) == NextPos(at, NameBytes[name], SerializedSize(value))
Row(list, m, at, vals) ==
  /\ at \in [1 .. m+1 -> Nat] /\ vals \in [1 .. m -> Value]
  /\ at[1] = Len(list) + 2
  /\ \A j \in 1 .. m : at[j+1] = Behind(at[j], list[j], vals[j])
Held(data, list, m, at, vals) ==
  \A j \in 1 .. m : data[j-1] = Number(at[j]) /\ data[at[j]] = Element(list[j], vals[j])

(* While it is filled, and when it is read. *)
Filling(d, list, m, at, vals) ==
  /\ IsDataset(d) /\ d.nelem = Len(list) /\ d.current = m /\ d.pos = at[m+1]
  /\ m \in 0 .. Len(list)
  /\ Row(list, m, at, vals) /\ Held(d.data, list, m, at, vals)
  /\ \A j \in m .. Len(list) : d.data[j] = Number(0)
Reading(d, list, m, at, vals) ==
  /\ IsDataset(d) /\ d.nelem = Len(list) /\ d.current = m
  /\ d.pos = (IF m < Len(list) THEN at[m+1] ELSE 0)
  /\ Row(list, Len(list), at, vals) /\ Held(d.data, list, Len(list), at, vals)
  /\ d.data[Len(list)] = Number(0)
  /\ at[Len(list) + 1] <= d.size
Laid(d, list, m) == \E at, vals : Filling(d, list, m, at, vals)
Readable(d, list, m) == \E at, vals : Reading(d, list, m, at, vals)

LEMMA WordsTyped ==
  /\ Junk \in Word
  /\ \A n \in Nat : Number(n) \in Word
  /\ \A name \in Named, value \in Value : Element(name, value) \in Word
<1>1. ASSUME NEW name \in Named, NEW value \in Value PROVE Element(name, value) \in Word
  <2>1. <<name, value>> \in Named \X Value
    OBVIOUS
  <2> QED BY <2>1 DEF Word
<1> QED BY <1>1 DEF Word

(* Where the next element begins there is room for the one before it. *)
LEMMA Apartness ==
  ASSUME NEW pos \in Nat, NEW id \in Nat, NEW sz \in Nat
  PROVE  /\ NextPos(pos, id, sz) \in Nat /\ Extent(id, sz) \in Nat /\ Extent(id, sz) >= 2
         /\ pos + Extent(id, sz) <= NextPos(pos, id, sz)
BY SMT DEF NextPos, Extent, Words

LEMMA ListTyped ==
  ASSUME NEW list \in Lists
  PROVE  /\ Len(list) \in Nat
         /\ \A j \in 1 .. Len(list) : list[j] \in Named /\ NameBytes[list[j]] \in Nat
BY NameBytesAssumption DEF Lists, Named

LEMMA BehindIs ==
  ASSUME NEW at \in Nat, NEW name \in Named, NEW value \in Value
  PROVE  /\ Behind(at, name, value) \in Nat
         /\ at + Extent(NameBytes[name], SerializedSize(value)) <= Behind(at, name, value)
         /\ Extent(NameBytes[name], SerializedSize(value)) \in Nat
         /\ Extent(NameBytes[name], SerializedSize(value)) >= 2
<1>1. NameBytes[name] \in Nat
  BY NameBytesAssumption DEF Named
<1>2. SerializedSize(value) \in Nat
  BY DEF SerializedSize, Value
<1> QED BY <1>1, <1>2, Apartness DEF Behind

(* The positions rise. *)
LEMMA RowRises ==
  ASSUME NEW list \in Lists, NEW m \in 0 .. Len(list), NEW at, NEW vals, Row(list, m, at, vals)
  PROVE  /\ \A j \in 1 .. m+1 : at[j] \in Nat
         /\ \A i \in 1 .. m : \A j \in i+1 .. m+1 :
              at[i] + Extent(NameBytes[list[i]], SerializedSize(vals[i])) <= at[j]
         /\ \A j \in 1 .. m+1 : Len(list) + 2 <= at[j]
<1>1. Len(list) \in Nat /\ \A j \in 1 .. m : list[j] \in Named
  BY ListTyped
<1>2. \A j \in 1 .. m+1 : at[j] \in Nat
  BY DEF Row
<1>3. ASSUME NEW j \in 1 .. m
      PROVE  at[j] + Extent(NameBytes[list[j]], SerializedSize(vals[j])) <= at[j+1] /\ at[j] <= at[j+1]
  <2>1. vals[j] \in Value /\ at[j] \in Nat /\ at[j+1] \in Nat /\ at[j+1] = Behind(at[j], list[j], vals[j])
    BY <1>1, <1>2 DEF Row
  <2>2. list[j] \in Named
    BY <1>1
  <2> DEFINE e == Extent(NameBytes[list[j]], SerializedSize(vals[j]))
  <2>3. e \in Nat /\ at[j] + e <= at[j+1]
    BY <2>1, <2>2, BehindIs
  <2> QED BY <2>1, <2>3
<1>4. ASSUME NEW i \in 1 .. m+1, NEW k \in 0 .. m+1-i PROVE at[i] <= at[i+k]
  <2> DEFINE T == {l \in 0 .. m+1-i : at[i] <= at[i+l]}
  <2>1. 0 \in T
    BY <1>2
  <2>2. ASSUME NEW l \in 0 .. (m+1-i)-1, l \in T PROVE l + 1 \in T
    <3>1. i + l \in 1 .. m /\ l + 1 \in 0 .. m+1-i /\ (i + l) + 1 = i + (l + 1)
      BY <1>1
    <3>2. at[i+l] <= at[i + (l+1)] /\ at[i+l] \in Nat /\ at[i + (l+1)] \in Nat /\ at[i] \in Nat
      BY <1>1, <1>2, <1>3, <3>1
    <3> QED BY <2>2, <3>1, <3>2
  <2>3. m+1-i \in Nat
    BY <1>1
  <2>4. 0 .. m+1-i \subseteq T
    <3> HIDE DEF T
    <3> QED BY <2>1, <2>2, <2>3, BoundedInduction
  <2> QED BY <2>4
<1>5. ASSUME NEW i \in 1 .. m+1, NEW j \in i .. m+1 PROVE at[i] <= at[j]
  <2>1. j - i \in 0 .. m+1-i /\ i + (j - i) = j
    BY <1>1
  <2> QED BY <1>4, <2>1
<1>6. ASSUME NEW i \in 1 .. m, NEW j \in i+1 .. m+1
      PROVE  at[i] + Extent(NameBytes[list[i]], SerializedSize(vals[i])) <= at[j]
  <2> DEFINE e == Extent(NameBytes[list[i]], SerializedSize(vals[i]))
  <2>1. i + 1 \in 1 .. m+1 /\ j \in i+1 .. m+1 /\ j \in 1 .. m+1 /\ i \in 1 .. m+1
    BY <1>1
  <2>2. at[i] + e <= at[i+1] /\ at[i+1] <= at[j]
    BY <1>3, <1>5, <2>1
  <2>3. vals[i] \in Value /\ at[i] \in Nat /\ at[i+1] \in Nat /\ at[j] \in Nat
    BY <1>2, <2>1 DEF Row
  <2>4. e \in Nat
    BY <1>1, <2>3, BehindIs
  <2> QED BY <2>2, <2>3, <2>4
<1>7. ASSUME NEW j \in 1 .. m+1 PROVE Len(list) + 2 <= at[j]
  <2>1. at[1] = Len(list) + 2 /\ 1 \in 1 .. m+1 /\ j \in 1 .. m+1
    BY <1>1 DEF Row
  <2> QED BY <1>5, <2>1
<1> QED BY <1>2, <1>6, <1>7

LEMMA DatasetBounds ==
  ASSUME NEW d, IsDataset(d)
  PROVE  /\ d.size \in Nat /\ d.pos \in Nat /\ d.pos <= d.size
         /\ d.nelem \in Nat /\ d.nelem + 2 <= d.size
         /\ d.current \in Nat /\ d.current <= d.nelem
<1>1. d.size \in Nat /\ d.pos \in 0 .. d.size /\ d.nelem \in Nat /\ d.nelem + 2 <= d.size
      /\ d.current \in 0 .. d.nelem
  BY Zenon DEF IsDataset
<1> QED BY <1>1

(* Elements behind one another lie apart. *)
LEMMA ApartIs ==
  ASSUME NEW list \in Lists, NEW m \in 0 .. Len(list), NEW at, NEW vals, NEW d,
         IsDataset(d), d.nelem = Len(list), Row(list, m, at, vals), Held(d.data, list, m, at, vals),
         d.current <= m, at[m+1] <= d.size,
         d.pos = 0 \/ \E j \in 1 .. m+1 : d.pos = at[j]
  PROVE  Apart(d)
<1>1. Len(list) \in Nat /\ m \in Nat /\ d.current \in Nat /\ d.size \in Nat /\ d.pos \in Nat
  BY ListTyped DEF IsDataset
<1> DEFINE ext(i) == Extent(NameBytes[list[i]], SerializedSize(vals[i]))
<1>2. /\ \A j \in 1 .. m+1 : at[j] \in Nat
      /\ \A i \in 1 .. m : \A j \in i+1 .. m+1 : at[i] + ext(i) <= at[j]
      /\ \A j \in 1 .. m+1 : Len(list) + 2 <= at[j]
  BY RowRises
<1>3. ASSUME NEW k \in 0 .. d.current - 1
      PROVE  /\ d.data[k].num = at[k+1]
             /\ d.data[at[k+1]].name = list[k+1] /\ d.data[at[k+1]].value = vals[k+1]
  <2>1. k + 1 \in 1 .. m /\ (k + 1) - 1 = k
    BY <1>1
  <2>2. d.data[k] = Number(at[k+1]) /\ d.data[at[k+1]] = Element(list[k+1], vals[k+1])
    BY <2>1 DEF Held
  <2> QED BY <2>2 DEF Number, Element
<1>4. ASSUME NEW k \in 0 .. d.current - 1 PROVE ext(k+1) \in Nat /\ ext(k+1) >= 2
  <2>1. k + 1 \in 1 .. m /\ k + 1 \in 1 .. Len(list) /\ k + 1 \in 1 .. m+1
    BY <1>1
  <2>2. list[k+1] \in Named /\ vals[k+1] \in Value /\ at[k+1] \in Nat
    BY <1>2, <2>1, ListTyped DEF Row
  <2> QED BY <2>2, BehindIs
<1>5. ASSUME NEW k \in 0 .. d.current - 1
      PROVE  /\ at[k+1] >= 2 + d.nelem
             /\ at[k+1] + ext(k+1) <= d.size
             /\ d.pos > at[k+1] => at[k+1] + ext(k+1) <= d.pos
             /\ \A j \in k+1 .. d.current - 1 : at[k+1] + ext(k+1) <= d.data[j].num
  <2>1. k + 1 \in 1 .. m /\ m + 1 \in (k+1)+1 .. m+1 /\ k + 1 \in 1 .. m+1 /\ m + 1 \in 1 .. m+1
    BY <1>1
  <2> DEFINE i == k + 1
             e == ext(i)
  <2>2. e \in Nat /\ at[i] \in Nat /\ i \in 1 .. m
    BY <1>2, <1>4, <2>1
  <2>3. at[i] >= 2 + d.nelem
    BY <1>1, <1>2, <2>1, <2>2
  <2>4. \A j \in i+1 .. m+1 : at[i] + e <= at[j] /\ at[j] \in Nat
    <3>1. \A j \in i+1 .. m+1 : j \in 1 .. m+1
      BY <1>1, <2>2
    <3> QED BY <1>2, <2>2, <3>1
  <2>5. at[i] + e <= d.size
    BY <1>1, <2>1, <2>2, <2>4
  <2>6. ASSUME d.pos > at[i] PROVE at[i] + e <= d.pos
    <3>1. PICK j \in 1 .. m+1 : d.pos = at[j]
      BY <1>1, <2>2, <2>6
    <3>2. CASE j = i
      BY <2>2, <2>6, <3>1, <3>2
    <3>3. CASE j < i
      <4>1. j \in 1 .. m /\ i \in j+1 .. m+1
        BY <1>1, <2>2, <3>3
      <4>a. j \in 1 .. Len(list) /\ j \in 1 .. m+1 /\ i \in j+1 .. m+1
        BY <1>1, <4>1
      <4>b. list[j] \in Named /\ at[j] \in Nat
        BY <1>2, <4>a, ListTyped
      <4>c. vals[j] \in Value
        BY <4>1 DEF Row
      <4>2. at[j] + ext(j) <= at[i] /\ list[j] \in Named /\ vals[j] \in Value /\ at[j] \in Nat
        BY <1>2, <4>1, <4>b, <4>c
      <4>3. ext(j) \in Nat
        BY <4>2, BehindIs
      <4> HIDE DEF ext
      <4> QED BY <2>2, <2>6, <3>1, <4>2, <4>3
    <3>4. CASE j > i
      <4>1. j \in i+1 .. m+1
        BY <1>1, <2>2, <3>4
      <4> QED BY <2>4, <3>1, <4>1
    <3> HIDE DEF i
    <3> QED BY <1>1, <2>2, <3>2, <3>3, <3>4
  <2>7. ASSUME NEW j \in k+1 .. d.current - 1 PROVE at[i] + e <= d.data[j].num
    <3>1. j \in 0 .. d.current - 1 /\ j + 1 \in i+1 .. m+1
      BY <1>1, <2>1
    <3> QED BY <1>3, <2>4, <3>1
  <2> QED BY <2>3, <2>5, <2>6, <2>7
<1> HIDE DEF ext
<1>6. ASSUME NEW k \in 0 .. d.current - 1
      PROVE  ext(k+1) = Extent(NameBytes[d.data[d.data[k].num].name],
                               SerializedSize(d.data[d.data[k].num].value))
  BY <1>3 DEF ext
<1> QED BY <1>3, <1>5, <1>6 DEF Apart

LEMMA LaidApart ==
  ASSUME NEW list \in Lists, NEW m \in 0 .. Len(list), NEW d, Laid(d, list, m)
  PROVE  Apart(d)
<1>1. PICK at, vals : Filling(d, list, m, at, vals)
  BY DEF Laid
<1>2. m + 1 \in 1 .. m+1 /\ m \in Nat
  BY ListTyped
<1>3. d.pos <= d.size /\ d.pos = at[m+1] /\ d.current <= m
  BY <1>1, <1>2 DEF Filling, IsDataset
<1> QED BY <1>1, <1>2, <1>3, ApartIs DEF Filling

LEMMA ReadableApart ==
  ASSUME NEW list \in Lists, NEW m \in 0 .. Len(list), NEW d, Readable(d, list, m)
  PROVE  Apart(d)
<1>1. PICK at, vals : Reading(d, list, m, at, vals)
  BY DEF Readable
<1>2. m + 1 \in 1 .. Len(list)+1 /\ m \in Nat /\ Len(list) \in 0 .. Len(list)
  BY ListTyped
<1>3. d.pos = 0 \/ \E j \in 1 .. Len(list)+1 : d.pos = at[j]
  BY <1>1, <1>2 DEF Reading
<1>4. d.current <= Len(list)
  BY <1>1, <1>2 DEF Reading
<1> QED BY <1>1, <1>2, <1>3, <1>4, ApartIs DEF Reading

(* A fresh one holds nothing, and add_elem puts the next one in. *)
LEMMA FreshIs ==
  ASSUME NEW list \in Lists
  PROVE  Laid(Fresh(Len(list)), list, 0) /\ IsDataset(Fresh(Len(list)))
<1> DEFINE n == Len(list)
           at == [j \in 1 .. 1 |-> n + 2]
           vals == [j \in 1 .. 0 |-> <<>>]
           d == Fresh(n)
<1>1. n \in Nat
  BY ListTyped
<1> HIDE DEF n
<1>2. /\ d.data = [i \in 0 .. n+1 |-> Number(0)] /\ d.size = 2 + n /\ d.pos = 2 + n
      /\ d.nelem = n /\ d.current = 0
      /\ d = [data |-> d.data, size |-> d.size, pos |-> d.pos, nelem |-> d.nelem, current |-> d.current]
  BY Zenon DEF Fresh
<1> HIDE DEF d
<1>3. IsDataset(d)
  <2>1. d.size - 1 = n + 1
    BY <1>1, <1>2
  <2>2. d.data \in [0 .. d.size-1 -> Word]
    BY <1>2, <2>1, WordsTyped
  <2> QED BY <1>1, <1>2, <2>2 DEF IsDataset
<1>4. Row(list, 0, at, vals)
  BY <1>1 DEF Row, n
<1>5. Held(d.data, list, 0, at, vals)
  BY DEF Held
<1>6. \A j \in 0 .. n : d.data[j] = Number(0)
  BY <1>1, <1>2
<1>7. at[0+1] = n + 2
  OBVIOUS
<1> HIDE DEF at, vals
<1>8. Filling(d, list, 0, at, vals)
  BY <1>1, <1>2, <1>3, <1>4, <1>5, <1>6, <1>7 DEF Filling, n
<1> QED BY <1>3, <1>8 DEF Laid, d, n

LEMMA GrownIs ==
  ASSUME NEW d, IsDataset(d), NEW size \in Nat, d.size <= size
  PROVE  /\ IsDataset(Resized(d, size))
         /\ Resized(d, size).size = size /\ Resized(d, size).pos = d.pos
         /\ Resized(d, size).nelem = d.nelem /\ Resized(d, size).current = d.current
         /\ \A i \in 0 .. d.size-1 : Resized(d, size).data[i] = d.data[i]
<1> DEFINE data == [i \in 0 .. size-1 |-> IF i < d.size THEN d.data[i] ELSE Junk]
           r == Resized(d, size)
<1>1. r = [d EXCEPT !.data = data, !.size = size]
  BY DEF Resized
<1> HIDE DEF data, r
<1>2. /\ r.data = data /\ r.size = size /\ r.pos = d.pos /\ r.nelem = d.nelem /\ r.current = d.current
      /\ r = [data |-> r.data, size |-> r.size, pos |-> r.pos, nelem |-> r.nelem, current |-> r.current]
  BY <1>1 DEF IsDataset
<1>3. d.size \in Nat
  BY DEF IsDataset
<1>4. \A i \in 0 .. d.size-1 : r.data[i] = d.data[i]
  BY <1>2, <1>3 DEF data
<1>5. r.data \in [0 .. r.size-1 -> Word]
  <2>1. d.data \in [0 .. d.size-1 -> Word]
    BY DEF IsDataset
  <2> QED BY <1>2, <1>3, <2>1, WordsTyped DEF data
<1>6. IsDataset(r)
  BY <1>2, <1>3, <1>5 DEF IsDataset
<1> QED BY <1>2, <1>4, <1>6 DEF r

LEMMA AddedIs ==
  ASSUME NEW list \in Lists, NEW m \in 0 .. Len(list)-1, NEW d, Laid(d, list, m),
         NEW value \in Value
  PROVE  Laid(AddElem(d, list[m+1], value), list, m+1)
<1> DEFINE name == list[m+1]
           next == Behind(d.pos, name, value)
           room == IF next >= d.size THEN Resized(d, next + 1) ELSE d
           r == AddElem(d, list[m+1], value)
<1>0. Len(list) \in Nat /\ m \in Nat /\ m + 1 \in 1 .. Len(list) /\ name \in Named
  BY ListTyped
<1>1. PICK at, vals : Filling(d, list, m, at, vals)
  BY DEF Laid
<1>a. /\ IsDataset(d) /\ d.nelem = Len(list) /\ d.current = m /\ d.pos = at[m+1]
      /\ Row(list, m, at, vals) /\ Held(d.data, list, m, at, vals)
      /\ \A j \in m .. Len(list) : d.data[j] = Number(0)
  BY <1>1 DEF Filling
<1>2. /\ IsDataset(d) /\ d.nelem = Len(list) /\ d.current = m /\ d.pos = at[m+1] /\ d.pos \in Nat
      /\ d.size \in Nat /\ d.nelem + 2 <= d.size /\ d.pos <= d.size
      /\ Row(list, m, at, vals) /\ Held(d.data, list, m, at, vals)
      /\ \A j \in m .. Len(list) : d.data[j] = Number(0)
  BY <1>a, DatasetBounds
<1>3. next \in Nat /\ d.pos + 2 <= next
  <2> DEFINE e == Extent(NameBytes[name], SerializedSize(value))
  <2>1. next \in Nat /\ d.pos + e <= next /\ e \in Nat /\ e >= 2
    BY <1>0, <1>2, BehindIs
  <2> HIDE DEF e, next
  <2> QED BY <1>2, <2>1
<1>4. r = [room EXCEPT !.data[d.pos] = Element(name, value), !.data[d.current] = Number(d.pos),
                       !.current = @ + 1, !.pos = next]
  BY DEF AddElem, Behind
<1> HIDE DEF r, name
<1>5. /\ IsDataset(room) /\ room.pos = d.pos /\ room.nelem = d.nelem /\ room.current = d.current
      /\ \A i \in 0 .. d.size-1 : room.data[i] = d.data[i]
      /\ next < room.size /\ d.size <= room.size /\ room.size \in Nat
  <2> HIDE DEF next
  <2>1. CASE next >= d.size
    <3>1. next + 1 \in Nat /\ d.size <= next + 1 /\ room = Resized(d, next + 1)
      BY <1>2, <1>3, <2>1
    <3> HIDE DEF room
    <3> QED BY <1>2, <1>3, <3>1, GrownIs
  <2>2. CASE ~(next >= d.size)
    BY <1>2, <1>3, <2>2
  <2> QED BY <2>1, <2>2
<1> HIDE DEF room, next
<1> DEFINE data == [[room.data EXCEPT ![d.pos] = Element(name, value)] EXCEPT ![d.current] = Number(d.pos)]
<1>6. /\ r = [data |-> data, size |-> room.size, pos |-> next, nelem |-> room.nelem,
              current |-> room.current + 1]
  <2>1. room = [data |-> room.data, size |-> room.size, pos |-> room.pos, nelem |-> room.nelem,
                current |-> room.current]
    BY <1>5 DEF IsDataset
  <2> QED BY <1>4, <2>1
<1>7. /\ r.data = data /\ r.size = room.size /\ r.pos = next /\ r.nelem = Len(list)
      /\ r.current = m + 1
      /\ r = [data |-> r.data, size |-> r.size, pos |-> r.pos, nelem |-> r.nelem, current |-> r.current]
  BY <1>2, <1>5, <1>6
<1>8. d.pos \in 0 .. room.size-1 /\ d.current \in 0 .. room.size-1 /\ d.pos # d.current
      /\ d.pos >= Len(list) + 2
  <2>1. m + 1 \in 1 .. m+1 /\ m \in 0 .. Len(list)
    BY <1>0
  <2>2. d.pos >= Len(list) + 2
    BY <1>2, <2>1, RowRises
  <2> QED BY <1>0, <1>2, <1>3, <1>5, <2>2
<1>9. /\ data \in [0 .. room.size-1 -> Word]
      /\ data[d.pos] = Element(name, value) /\ data[m] = Number(d.pos)
      /\ \A i \in 0 .. room.size-1 \ {d.pos, m} : data[i] = room.data[i]
  <2>1. room.data \in [0 .. room.size-1 -> Word]
    BY <1>5 DEF IsDataset
  <2> DEFINE D == 0 .. room.size-1
  <2>2. d.pos \in D /\ m \in D /\ d.pos # m /\ d.current = m
    BY <1>2, <1>8
  <2> HIDE DEF D
  <2>3. DOMAIN room.data = D
    BY <2>1 DEF D
  <2>4. data \in [D -> Word]
    <3>1. Element(name, value) \in Word /\ Number(d.pos) \in Word
      BY <1>0, <1>2, WordsTyped
    <3> QED BY <2>1, <2>2, <3>1 DEF D
  <2> QED BY <2>2, <2>3, <2>4 DEF D
<1> HIDE DEF data
<1>10. IsDataset(r)
  <2>1. r.data \in [0 .. r.size-1 -> Word]
    BY <1>7, <1>9
  <2> QED BY <1>0, <1>2, <1>3, <1>5, <1>7, <2>1 DEF IsDataset
<1> DEFINE nat == [j \in 1 .. (m+1)+1 |-> IF j <= m + 1 THEN at[j] ELSE next]
           nvals == [j \in 1 .. m+1 |-> IF j <= m THEN vals[j] ELSE value]
<1>11. Row(list, m+1, nat, nvals)
  <2>1. /\ at \in [1 .. m+1 -> Nat] /\ vals \in [1 .. m -> Value] /\ at[1] = Len(list) + 2
        /\ \A j \in 1 .. m : at[j+1] = Behind(at[j], list[j], vals[j])
    BY <1>2 DEF Row
  <2>2. nat \in [1 .. (m+1)+1 -> Nat]
    BY <1>0, <1>3, <2>1
  <2>3. nvals \in [1 .. m+1 -> Value]
    BY <1>0, <2>1
  <2>4. nat[1] = Len(list) + 2
    BY <1>0, <2>1
  <2>5. ASSUME NEW j \in 1 .. m+1 PROVE nat[j+1] = Behind(nat[j], list[j], nvals[j])
    <3>1. CASE j \in 1 .. m
      <4>1. nat[j+1] = at[j+1] /\ nat[j] = at[j] /\ nvals[j] = vals[j]
        BY <1>0, <3>1
      <4> QED BY <2>1, <3>1, <4>1
    <3>2. CASE j = m + 1
      <4>1. nat[j+1] = next /\ nat[j] = at[m+1] /\ nvals[j] = value /\ list[j] = name
        BY <1>0, <3>2 DEF name
      <4> QED BY <1>2, <4>1 DEF next
    <3> QED BY <1>0, <3>1, <3>2
  <2> HIDE DEF nat, nvals
  <2> QED BY <2>2, <2>3, <2>4, <2>5 DEF Row
<1>12. Held(r.data, list, m+1, nat, nvals)
  <2>1. ASSUME NEW j \in 1 .. m+1
        PROVE  r.data[j-1] = Number(nat[j]) /\ r.data[nat[j]] = Element(list[j], nvals[j])
    <3>1. CASE j \in 1 .. m
      <4>1. nat[j] = at[j] /\ nvals[j] = vals[j]
        BY <1>0, <3>1
      <4>2. d.data[j-1] = Number(at[j]) /\ d.data[at[j]] = Element(list[j], vals[j])
        BY <1>2, <3>1 DEF Held
      <4>3. at[j] \in Nat /\ at[j] >= Len(list) + 2 /\ at[j] + 2 <= d.pos
        <5> DEFINE e == Extent(NameBytes[list[j]], SerializedSize(vals[j]))
        <5>1. j \in 1 .. m+1 /\ m + 1 \in j+1 .. m+1 /\ m \in 0 .. Len(list) /\ j \in 1 .. Len(list)
          BY <1>0, <3>1
        <5>2. at[j] \in Nat /\ at[j] >= Len(list) + 2 /\ at[j] + e <= at[m+1]
          BY <1>2, <3>1, <5>1, RowRises
        <5>3. list[j] \in Named /\ vals[j] \in Value
          BY <1>2, <3>1, <5>1, ListTyped DEF Row
        <5>4. e \in Nat /\ e >= 2
          BY <5>2, <5>3, BehindIs
        <5> HIDE DEF e
        <5> QED BY <1>2, <5>2, <5>4
      <4>4. j - 1 \in 0 .. d.size-1 /\ at[j] \in 0 .. d.size-1
        BY <1>0, <1>2, <3>1, <4>3
      <4>5. /\ j - 1 \in 0 .. room.size-1 \ {d.pos, m}
            /\ at[j] \in 0 .. room.size-1 \ {d.pos, m}
        <5>1. at[j] # d.pos /\ at[j] # m
          BY <1>0, <1>2, <4>3
        <5>2. j - 1 # d.pos /\ j - 1 # m
          BY <1>0, <1>2, <1>8, <3>1
        <5>3. j - 1 \in 0 .. room.size-1 /\ at[j] \in 0 .. room.size-1
          BY <1>2, <1>5, <4>4
        <5> QED BY <5>1, <5>2, <5>3
      <4>6. r.data[j-1] = d.data[j-1] /\ r.data[at[j]] = d.data[at[j]]
        BY <1>5, <1>7, <1>9, <4>4, <4>5
      <4> HIDE DEF nat, nvals
      <4> QED BY <4>1, <4>2, <4>6
    <3>2. CASE j = m + 1
      <4>1. nat[j] = d.pos /\ nvals[j] = value /\ list[j] = name /\ j - 1 = m
        BY <1>0, <1>2, <3>2 DEF name
      <4> HIDE DEF nat, nvals
      <4> QED BY <1>7, <1>9, <4>1
    <3> QED BY <1>0, <3>1, <3>2
  <2> HIDE DEF nat, nvals
  <2> QED BY <2>1 DEF Held
<1>13. ASSUME NEW j \in m+1 .. Len(list) PROVE r.data[j] = Number(0)
  <2>1. j \in m .. Len(list) /\ j \in 0 .. d.size-1 /\ j \in 0 .. room.size-1 \ {d.pos, m}
    BY <1>0, <1>2, <1>5, <1>8
  <2> QED BY <1>2, <1>5, <1>7, <1>9, <2>1
<1>14. r.pos = nat[(m+1)+1]
  BY <1>0, <1>7
<1> HIDE DEF nat, nvals
<1>15. Filling(r, list, m+1, nat, nvals)
  BY <1>0, <1>7, <1>10, <1>11, <1>12, <1>13, <1>14 DEF Filling
<1> QED BY <1>15 DEF Laid, r
-----------------------------------------------------------------------------
(***************************************************************************)
(* Folded takes the only element of a set at each step.  Where its         *)
(* operator goes from one element of W to another, it is the last value of *)
(* a function that does so.                                                *)
(***************************************************************************)
TheOne(T) == CHOOSE r \in T : TRUE
LEMMA OneOfOne ==
  ASSUME NEW x
  PROVE  TheOne({x}) = x
BY DEF TheOne

(* f is known step by step, g is what the definition chooses. *)
LEMMA Chosen ==
  ASSUME NEW n \in Nat, NEW f, NEW g, f[0] = g[0],
         \A k \in 1 .. n : f[k-1] = g[k-1] => f[k] = g[k]
  PROVE  f[n] = g[n]
<1>1. \A k \in 0 .. n : f[k] = g[k]
  BY RecursionsAgree DEF GoTogether
<1> QED BY <1>1

LEMMA InitializeListTyped == initialize_list \in Lists
<1> DEFINE n == Len(Declared)
           op(l, v) == IF v.init THEN Append(l, v.slot) ELSE l
           P(u) == u = [k \in 0 .. n |-> IF k = 0 THEN <<>>
                                         ELSE CHOOSE r \in {op(l, Declared[k]) : l \in {u[k-1]}} : TRUE]
           g == CHOOSE u : P(u)
           none == <<>>
           step1 == [k \in 1 .. n |-> [l \in Lists |-> op(l, Declared[k])]]
<1>1. initialize_list = g[n]
  BY Zenon DEF initialize_list, Folded
<1>2. n \in Nat /\ \A k \in 1 .. n : Declared[k].slot \in Named
  <2> DEFINE S == [slot : Named, init : BOOLEAN, reduce : BOOLEAN]
  <2>1. Declared \in Seq(S)
    BY DeclaredAssumption DEF Named
  <2>2. ASSUME NEW k \in 1 .. n PROVE Declared[k].slot \in Named
    <3>1. Declared[k] \in S
      <4> HIDE DEF S
      <4> QED BY <2>1
    <3> QED BY <3>1
  <2> HIDE DEF S
  <2> QED BY <2>1, <2>2
<1>3. none \in Lists
  BY DEF Lists
<1>4. \A l \in Lists, k \in 1 .. n : op(l, Declared[k]) \in Lists
  BY <1>2 DEF Lists
<1> HIDE DEF n, op, none
<1>5. step1 \in StepOfEach(n, Lists)
  BY <1>4 DEF StepOfEach
<1>6. PICK f : Iterates(f, n, Lists, none, step1)
  BY <1>2, <1>3, <1>5, RecursiveFunction
<1>7. /\ f \in [0 .. n -> Lists] /\ f[0] = none
      /\ \A k \in 1 .. n : f[k] = op(f[k-1], Declared[k])
  <2>1. /\ f \in [0 .. n -> Lists] /\ f[0] = none
        /\ \A k \in 1 .. n : f[k] = step1[k][f[k-1]]
    BY <1>6 DEF Iterates
  <2>2. ASSUME NEW k \in 1 .. n PROVE f[k] = op(f[k-1], Declared[k])
    <3>1. f[k-1] \in Lists
      BY <1>2, <2>1
    <3> QED BY <2>1, <3>1
  <2> QED BY <2>1, <2>2
<1>8. P([k \in 0 .. n |-> f[k]])
  <2> DEFINE h == [k \in 0 .. n |-> f[k]]
  <2>1. ASSUME NEW k \in 0 .. n
        PROVE  h[k] = IF k = 0 THEN <<>> ELSE CHOOSE r \in {op(l, Declared[k]) : l \in {h[k-1]}} : TRUE
    <3>1. CASE k = 0
      BY <1>7, <3>1 DEF none
    <3>2. CASE k # 0
      <4>1. k \in 1 .. n /\ k - 1 \in 0 .. n
        BY <1>2, <3>2
      <4>2. h[k] = op(h[k-1], Declared[k])
        BY <1>7, <4>1
      <4> HIDE DEF h
      <4>3. {op(l, Declared[k]) : l \in {h[k-1]}} = {h[k]}
        BY <4>2
      <4> QED BY <3>2, <4>3, OneOfOne DEF TheOne
    <3> QED BY <3>1, <3>2
  <2> QED BY <2>1
<1>9. P(g)
  <2> HIDE DEF P
  <2> QED BY <1>8
<1>10. \A k \in 0 .. n : g[k] = IF k = 0 THEN <<>> ELSE CHOOSE r \in {op(l, Declared[k]) : l \in {g[k-1]}} : TRUE
  <2> HIDE DEF g
  <2> QED BY <1>9
<1> HIDE DEF g, P
<1>11. f[0] = g[0]
  BY <1>2, <1>7, <1>10 DEF none
<1>12. ASSUME NEW k \in 1 .. n, f[k-1] = g[k-1] PROVE f[k] = g[k]
  <2>1. k \in 0 .. n /\ k # 0 /\ f[k] = op(g[k-1], Declared[k])
    BY <1>7, <1>12
  <2>2. {op(l, Declared[k]) : l \in {g[k-1]}} = {f[k]}
    BY <2>1
  <2> QED BY <1>10, <2>1, <2>2, OneOfOne DEF TheOne
<1>13. f[n] = g[n]
  BY <1>2, <1>11, <1>12, Chosen
<1> QED BY <1>1, <1>2, <1>7, <1>13

LEMMA ReduceListTyped == reduce_list \in Lists
<1> DEFINE n == Len(Declared)
           op(l, v) == IF v.reduce THEN Append(l, v.slot) ELSE l
           P(u) == u = [k \in 0 .. n |-> IF k = 0 THEN <<>>
                                         ELSE CHOOSE r \in {op(l, Declared[k]) : l \in {u[k-1]}} : TRUE]
           g == CHOOSE u : P(u)
           none == <<>>
           step1 == [k \in 1 .. n |-> [l \in Lists |-> op(l, Declared[k])]]
<1>1. reduce_list = g[n]
  BY Zenon DEF reduce_list, Folded
<1>2. n \in Nat /\ \A k \in 1 .. n : Declared[k].slot \in Named
  <2> DEFINE S == [slot : Named, init : BOOLEAN, reduce : BOOLEAN]
  <2>1. Declared \in Seq(S)
    BY DeclaredAssumption DEF Named
  <2>2. ASSUME NEW k \in 1 .. n PROVE Declared[k].slot \in Named
    <3>1. Declared[k] \in S
      <4> HIDE DEF S
      <4> QED BY <2>1
    <3> QED BY <3>1
  <2> HIDE DEF S
  <2> QED BY <2>1, <2>2
<1>3. none \in Lists
  BY DEF Lists
<1>4. \A l \in Lists, k \in 1 .. n : op(l, Declared[k]) \in Lists
  BY <1>2 DEF Lists
<1> HIDE DEF n, op, none
<1>5. step1 \in StepOfEach(n, Lists)
  BY <1>4 DEF StepOfEach
<1>6. PICK f : Iterates(f, n, Lists, none, step1)
  BY <1>2, <1>3, <1>5, RecursiveFunction
<1>7. /\ f \in [0 .. n -> Lists] /\ f[0] = none
      /\ \A k \in 1 .. n : f[k] = op(f[k-1], Declared[k])
  <2>1. /\ f \in [0 .. n -> Lists] /\ f[0] = none
        /\ \A k \in 1 .. n : f[k] = step1[k][f[k-1]]
    BY <1>6 DEF Iterates
  <2>2. ASSUME NEW k \in 1 .. n PROVE f[k] = op(f[k-1], Declared[k])
    <3>1. f[k-1] \in Lists
      BY <1>2, <2>1
    <3> QED BY <2>1, <3>1
  <2> QED BY <2>1, <2>2
<1>8. P([k \in 0 .. n |-> f[k]])
  <2> DEFINE h == [k \in 0 .. n |-> f[k]]
  <2>1. ASSUME NEW k \in 0 .. n
        PROVE  h[k] = IF k = 0 THEN <<>> ELSE CHOOSE r \in {op(l, Declared[k]) : l \in {h[k-1]}} : TRUE
    <3>1. CASE k = 0
      BY <1>7, <3>1 DEF none
    <3>2. CASE k # 0
      <4>1. k \in 1 .. n /\ k - 1 \in 0 .. n
        BY <1>2, <3>2
      <4>2. h[k] = op(h[k-1], Declared[k])
        BY <1>7, <4>1
      <4> HIDE DEF h
      <4>3. {op(l, Declared[k]) : l \in {h[k-1]}} = {h[k]}
        BY <4>2
      <4> QED BY <3>2, <4>3, OneOfOne DEF TheOne
    <3> QED BY <3>1, <3>2
  <2> QED BY <2>1
<1>9. P(g)
  <2> HIDE DEF P
  <2> QED BY <1>8
<1>10. \A k \in 0 .. n : g[k] = IF k = 0 THEN <<>> ELSE CHOOSE r \in {op(l, Declared[k]) : l \in {g[k-1]}} : TRUE
  <2> HIDE DEF g
  <2> QED BY <1>9
<1> HIDE DEF g, P
<1>11. f[0] = g[0]
  BY <1>2, <1>7, <1>10 DEF none
<1>12. ASSUME NEW k \in 1 .. n, f[k-1] = g[k-1] PROVE f[k] = g[k]
  <2>1. k \in 0 .. n /\ k # 0 /\ f[k] = op(g[k-1], Declared[k])
    BY <1>7, <1>12
  <2>2. {op(l, Declared[k]) : l \in {g[k-1]}} = {f[k]}
    BY <2>1
  <2> QED BY <1>10, <2>1, <2>2, OneOfOne DEF TheOne
<1>13. f[n] = g[n]
  BY <1>2, <1>11, <1>12, Chosen
<1> QED BY <1>1, <1>2, <1>7, <1>13
-----------------------------------------------------------------------------
(* The datasets of a call: filled, broadcast, received, read. *)
Datasets ==
  [data : UNION {[0 .. s-1 -> Word] : s \in Nat}, size : Nat, pos : Nat, nelem : Nat, current : Nat]
Values == [DOMAIN Kind -> Value]

LEMMA DatasetsHave ==
  ASSUME NEW d, IsDataset(d)
  PROVE  d \in Datasets
<1>1. d = [data |-> d.data, size |-> d.size, pos |-> d.pos, nelem |-> d.nelem, current |-> d.current]
  BY Zenon DEF IsDataset
<1>2. d.size \in Nat /\ d.pos \in Nat /\ d.nelem \in Nat /\ d.current \in Nat
  BY DatasetBounds
<1>3. d.data \in [0 .. d.size-1 -> Word]
  BY Zenon DEF IsDataset
<1>4. d.data \in UNION {[0 .. s-1 -> Word] : s \in Nat}
  BY <1>2, <1>3
<1> QED BY <1>1, <1>2, <1>4, Zenon DEF Datasets

LEMMA LaidIs ==
  ASSUME NEW list, NEW m, NEW d, Laid(d, list, m)
  PROVE  IsDataset(d) /\ d.current = m /\ d.nelem = Len(list)
BY Zenon DEF Laid, Filling

LEMMA ReadableIs ==
  ASSUME NEW list, NEW m, NEW d, Readable(d, list, m)
  PROVE  IsDataset(d) /\ d.current = m /\ d.nelem = Len(list)
BY Zenon DEF Readable, Reading

LEMMA FilledIs ==
  ASSUME NEW list \in Lists, NEW value \in Values
  PROVE  Laid(Filled(list, value), list, Len(list))
<1> DEFINE n == Len(list)
           op(d, s) == AddElem(d, s, value[s])
           fresh == Fresh(n)
           P(u) == u = [k \in 0 .. n |-> IF k = 0 THEN fresh
                                         ELSE CHOOSE r \in {op(v, list[k]) : v \in {u[k-1]}} : TRUE]
           g == CHOOSE u : P(u)
           W == {d \in Datasets : \E m \in 0 .. n : Laid(d, list, m)}
           step1 == [k \in 1 .. n |-> [d \in W |-> IF d.current = k - 1 THEN op(d, list[k]) ELSE d]]
<1>1. Filled(list, value) = g[n]
  BY Zenon DEF Filled, Folded
<1>2. n \in Nat /\ \A k \in 1 .. n : list[k] \in Named
  BY ListTyped
<1>3. fresh \in W /\ fresh.current = 0
  <2>1. Laid(fresh, list, 0)
    BY FreshIs
  <2> HIDE DEF fresh
  <2>2. fresh \in Datasets /\ fresh.current = 0
    BY <2>1, LaidIs, DatasetsHave
  <2> QED BY <1>2, <2>1, <2>2
<1>4. ASSUME NEW d \in W, NEW k \in 1 .. n, d.current = k - 1
      PROVE  op(d, list[k]) \in W /\ op(d, list[k]).current = k
  <2>1. PICK m \in 0 .. n : Laid(d, list, m)
    OBVIOUS
  <2>2. m = k - 1 /\ m \in 0 .. Len(list)-1 /\ m + 1 = k
    BY <1>2, <1>4, <2>1, LaidIs
  <2>3. value[list[k]] \in Value
    BY <1>2 DEF Named, Values
  <2>4. Laid(op(d, list[k]), list, k)
    BY <2>1, <2>2, <2>3, AddedIs
  <2> HIDE DEF op
  <2>5. op(d, list[k]) \in Datasets /\ op(d, list[k]).current = k
    BY <2>4, LaidIs, DatasetsHave
  <2> QED BY <1>2, <2>4, <2>5
<1>5. \A d \in W : d.current = n => Laid(d, list, n)
  BY LaidIs
<1> HIDE DEF n, op, fresh, W
<1>6. step1 \in StepOfEach(n, W)
  BY <1>4 DEF StepOfEach
<1>7. PICK f : Iterates(f, n, W, fresh, step1)
  BY <1>2, <1>3, <1>6, RecursiveFunction
<1>8. /\ f \in [0 .. n -> W] /\ f[0] = fresh
      /\ \A k \in 1 .. n : f[k] = IF f[k-1].current = k - 1 THEN op(f[k-1], list[k]) ELSE f[k-1]
  <2>1. /\ f \in [0 .. n -> W] /\ f[0] = fresh
        /\ \A k \in 1 .. n : f[k] = step1[k][f[k-1]]
    BY <1>7 DEF Iterates
  <2>2. ASSUME NEW k \in 1 .. n
        PROVE  f[k] = IF f[k-1].current = k - 1 THEN op(f[k-1], list[k]) ELSE f[k-1]
    <3>1. f[k-1] \in W
      BY <1>2, <2>1
    <3> QED BY <2>1, <3>1
  <2> QED BY <2>1, <2>2
<1>9. \A k \in 0 .. n : f[k].current = k
  <2> DEFINE T == {k \in 0 .. n : f[k].current = k}
  <2>1. 0 \in T
    BY <1>2, <1>3, <1>8
  <2>2. ASSUME NEW k \in 0 .. n-1, k \in T PROVE k + 1 \in T
    <3>1. k + 1 \in 1 .. n /\ (k + 1) - 1 = k /\ f[k] \in W /\ f[k].current = k /\ k + 1 \in 0 .. n
      BY <1>2, <1>8, <2>2
    <3>2. f[k+1] = op(f[k], list[k+1])
      BY <1>8, <3>1
    <3>3. op(f[k], list[k+1]).current = k + 1
      BY <1>4, <3>1
    <3> QED BY <3>1, <3>2, <3>3
  <2> HIDE DEF T
  <2>3. 0 .. n \subseteq T
    BY <1>2, <2>1, <2>2, BoundedInduction
  <2> QED BY <2>3 DEF T
<1>10. \A k \in 1 .. n : f[k] = op(f[k-1], list[k])
  BY <1>2, <1>8, <1>9
<1>11. P([k \in 0 .. n |-> f[k]])
  <2> DEFINE h == [k \in 0 .. n |-> f[k]]
  <2>1. ASSUME NEW k \in 0 .. n
        PROVE  h[k] = IF k = 0 THEN fresh ELSE CHOOSE r \in {op(v, list[k]) : v \in {h[k-1]}} : TRUE
    <3>1. CASE k = 0
      BY <1>8, <3>1
    <3>2. CASE k # 0
      <4>1. k \in 1 .. n /\ k - 1 \in 0 .. n
        BY <1>2, <3>2
      <4>2. h[k] = op(h[k-1], list[k])
        BY <1>10, <4>1
      <4> HIDE DEF h
      <4>3. {op(v, list[k]) : v \in {h[k-1]}} = {h[k]}
        BY <4>2
      <4> QED BY <3>2, <4>3, OneOfOne DEF TheOne
    <3> QED BY <3>1, <3>2
  <2> QED BY <2>1
<1>12. P(g)
  <2> HIDE DEF P
  <2> QED BY <1>11
<1>13. \A k \in 0 .. n : g[k] = IF k = 0 THEN fresh ELSE CHOOSE r \in {op(v, list[k]) : v \in {g[k-1]}} : TRUE
  <2> HIDE DEF g
  <2> QED BY <1>12
<1> HIDE DEF g, P
<1>14. f[0] = g[0]
  BY <1>2, <1>8, <1>13
<1>15. ASSUME NEW k \in 1 .. n, f[k-1] = g[k-1] PROVE f[k] = g[k]
  <2>1. k \in 0 .. n /\ k # 0 /\ f[k] = op(g[k-1], list[k])
    BY <1>10, <1>15
  <2>2. {op(v, list[k]) : v \in {g[k-1]}} = {f[k]}
    BY <2>1
  <2> QED BY <1>13, <2>1, <2>2, OneOfOne DEF TheOne
<1>16. f[n] = g[n]
  BY <1>2, <1>14, <1>15, Chosen
<1>17. f[n] \in W /\ f[n].current = n
  BY <1>2, <1>8, <1>9
<1> QED BY <1>1, <1>5, <1>16, <1>17 DEF n

(* The words that the master broadcasts of its first position behind. *)
PackedAs(words, end, list, at, vals) ==
  /\ Row(list, Len(list), at, vals) /\ end = at[Len(list) + 1]
  /\ words[0] = Number(Len(list)) /\ words[Len(list) + 1] = Number(Len(list))
  /\ Len(list) # 0 => words[Len(list)] = Number(at[1])
  /\ \A j \in 2 .. Len(list) : words[j-1] = Number(at[j])
  /\ \A j \in 1 .. Len(list) : words[at[j]] = Element(list[j], vals[j])
  /\ \A i \in 0 .. end : words[i] \in Word
Packed(words, end, list) == \E at, vals : PackedAs(words, end, list, at, vals)

LEMMA ReceivableIs ==
  ASSUME NEW d, IsDataset(d)
  PROVE  /\ IsDataset(Receivable(d)) /\ Receivable(d).pos = d.pos
         /\ Receivable(d).nelem = d.nelem /\ Receivable(d).size >= d.pos + 1
         /\ Receivable(d).size >= d.size
         /\ \A i \in 0 .. d.size-1 : Receivable(d).data[i] = d.data[i]
<1>1. d.size \in Nat /\ d.pos \in Nat
  BY DatasetBounds
<1>2. CASE d.size < d.pos + 1
  <2>1. Receivable(d) = Resized(d, d.pos + 1)
    BY <1>2 DEF Receivable
  <2>2. d.pos + 1 \in Nat /\ d.size <= d.pos + 1
    BY <1>1, <1>2
  <2> QED BY <1>1, <2>1, <2>2, GrownIs
<1>3. CASE ~(d.size < d.pos + 1)
  BY <1>1, <1>3 DEF Receivable
<1> QED BY <1>2, <1>3

(* With another position. *)
LEMMA PositionIs ==
  ASSUME NEW d, IsDataset(d), NEW pos \in Nat
  PROVE  /\ [d EXCEPT !.pos = pos].pos = pos
         /\ [d EXCEPT !.pos = pos].data = d.data
         /\ [d EXCEPT !.pos = pos].size = d.size
         /\ [d EXCEPT !.pos = pos].nelem = d.nelem
         /\ [d EXCEPT !.pos = pos].current = d.current
         /\ [d EXCEPT !.pos = d.pos] = d
<1>1. d = [data |-> d.data, size |-> d.size, pos |-> d.pos, nelem |-> d.nelem, current |-> d.current]
  BY Zenon DEF IsDataset
<1> QED BY <1>1

LEMMA PackIs ==
  ASSUME NEW list \in Lists, NEW d, Laid(d, list, Len(list))
  PROVE  /\ IsDataset(Receivable(Pack(d))) /\ Receivable(Pack(d)).pos = d.pos
         /\ Receivable(Pack(d)).nelem = Len(list)
         /\ Receivable(Pack(d)).size >= d.pos + 1
         /\ Packed(Receivable(Pack(d)).data, d.pos, list)
<1> DEFINE n == Len(list)
           r == Pack(d)
           t == Receivable(Pack(d))
<1>1. n \in Nat /\ n \in 0 .. Len(list) /\ n + 1 \in 1 .. n+1 /\ 1 \in 1 .. n+1
  BY ListTyped
<1>2. PICK at, vals : Filling(d, list, n, at, vals)
  BY DEF Laid
<1>3. /\ IsDataset(d) /\ d.nelem = n /\ d.current = n /\ d.pos = at[n+1]
      /\ Row(list, n, at, vals) /\ Held(d.data, list, n, at, vals)
      /\ d.data[n] = Number(0)
  BY <1>1, <1>2 DEF Filling
<1>4. d.size \in Nat /\ d.pos \in Nat /\ n + 2 <= d.size /\ d.pos <= d.size
  BY <1>3, DatasetBounds
<1> HIDE DEF n
<1> DEFINE data == [[[d.data EXCEPT ![n] = d.data[0]] EXCEPT ![0] = Number(n)] EXCEPT ![n+1] = Number(n)]
<1>5. /\ r.data = data /\ r.size = d.size /\ r.pos = d.pos /\ r.nelem = n /\ r.current = n
      /\ r = [data |-> r.data, size |-> r.size, pos |-> r.pos, nelem |-> r.nelem, current |-> r.current]
  <2>1. d = [data |-> d.data, size |-> d.size, pos |-> d.pos, nelem |-> d.nelem, current |-> d.current]
    BY <1>3, Zenon DEF IsDataset
  <2> QED BY <1>3, <2>1 DEF Pack
<1> HIDE DEF r
<1>6. /\ data \in [0 .. d.size-1 -> Word]
      /\ data[0] = Number(n) /\ data[n+1] = Number(n) /\ (n # 0 => data[n] = d.data[0])
      /\ \A i \in 0 .. d.size-1 : i \notin {0, n, n+1} => data[i] = d.data[i]
  <2>1. d.data \in [0 .. d.size-1 -> Word]
    BY <1>3, Zenon DEF IsDataset
  <2>2. Number(n) \in Word /\ d.data[0] \in Word
    BY <1>1, <1>4, <2>1, WordsTyped
  <2>3. 0 \in 0 .. d.size-1 /\ n \in 0 .. d.size-1 /\ n+1 \in 0 .. d.size-1 /\ n # n+1 /\ 0 # n+1
    BY <1>1, <1>4
  <2> QED BY <2>1, <2>2, <2>3
<1> HIDE DEF data
<1>7. IsDataset(r)
  BY <1>1, <1>4, <1>5, <1>6 DEF IsDataset
<1>8. /\ IsDataset(t) /\ t.pos = d.pos /\ t.nelem = n /\ t.size >= d.pos + 1 /\ t.size >= d.size
      /\ \A i \in 0 .. d.size-1 : t.data[i] = data[i]
  BY <1>5, <1>7, ReceivableIs DEF r
<1> HIDE DEF t
<1>9. PackedAs(t.data, d.pos, list, at, vals)
  <2>1. t.data[0] = Number(n) /\ t.data[n+1] = Number(n)
    BY <1>1, <1>4, <1>6, <1>8
  <2>2. ASSUME n # 0 PROVE t.data[n] = Number(at[1])
    <3>1. 1 \in 1 .. n /\ n \in 0 .. d.size-1
      BY <1>1, <1>4, <2>2
    <3>2. d.data[1-1] = Number(at[1])
      BY <1>3, <3>1 DEF Held
    <3>3. t.data[n] = d.data[0]
      BY <1>6, <1>8, <2>2, <3>1
    <3> QED BY <3>2, <3>3
  <2>3. ASSUME NEW j \in 2 .. n PROVE t.data[j-1] = Number(at[j])
    <3>1. j \in 1 .. n /\ j - 1 \in 0 .. d.size-1 /\ j - 1 \notin {0, n, n+1}
      BY <1>1, <1>4
    <3>2. d.data[j-1] = Number(at[j])
      BY <1>3, <3>1 DEF Held
    <3> QED BY <1>6, <1>8, <3>1, <3>2
  <2>4. ASSUME NEW j \in 1 .. n PROVE t.data[at[j]] = Element(list[j], vals[j])
    <3> DEFINE e == Extent(NameBytes[list[j]], SerializedSize(vals[j]))
    <3>1. j \in 1 .. n+1 /\ n + 1 \in j+1 .. n+1 /\ j \in 1 .. Len(list)
      BY <1>1 DEF n
    <3>2. at[j] \in Nat /\ n + 2 <= at[j] /\ at[j] + e <= at[n+1]
      BY <1>1, <1>3, <3>1, RowRises DEF n
    <3>3. list[j] \in Named /\ vals[j] \in Value
      BY <1>3, <3>1, ListTyped DEF Row
    <3>4. e \in Nat /\ e >= 2
      BY <3>2, <3>3, BehindIs
    <3> HIDE DEF e
    <3>a. at[j] + 2 <= d.pos
      BY <1>3, <1>4, <3>2, <3>4
    <3>b. at[j] \in 0 .. d.size-1
      BY <1>4, <3>2, <3>a
    <3>c. at[j] # 0 /\ at[j] # n /\ at[j] # n+1
      BY <1>1, <3>2
    <3>5. at[j] \in 0 .. d.size-1 /\ at[j] \notin {0, n, n+1}
      BY <3>b, <3>c
    <3>6. d.data[at[j]] = Element(list[j], vals[j])
      BY <1>3 DEF Held
    <3> QED BY <1>6, <1>8, <3>5, <3>6
  <2>5. ASSUME NEW i \in 0 .. d.pos PROVE t.data[i] \in Word
    <3>1. t.data \in [0 .. t.size-1 -> Word] /\ t.size \in Nat
      BY <1>8, Zenon DEF IsDataset
    <3>2. i \in 0 .. t.size-1
      BY <1>4, <1>8, <3>1
    <3> QED BY <3>1, <3>2
  <2> QED BY <1>3, <2>1, <2>2, <2>3, <2>4, <2>5 DEF PackedAs, n
<1> QED BY <1>8, <1>9 DEF Packed, t, n

LEMMA OverwrittenIs ==
  ASSUME NEW d, IsDataset(d), NEW words, NEW n \in Nat, n <= d.size,
         \A i \in 0 .. n-1 : words[i] \in Word
  PROVE  /\ IsDataset(Overwritten(d, words, n))
         /\ Overwritten(d, words, n).size = d.size /\ Overwritten(d, words, n).pos = d.pos
         /\ \A i \in 0 .. n-1 : Overwritten(d, words, n).data[i] = words[i]
<1> DEFINE data == [i \in 0 .. d.size-1 |-> IF i < n THEN words[i] ELSE d.data[i]]
           r == Overwritten(d, words, n)
<1>1. d = [data |-> d.data, size |-> d.size, pos |-> d.pos, nelem |-> d.nelem, current |-> d.current]
  BY Zenon DEF IsDataset
<1>2. r = [d EXCEPT !.data = data]
  BY DEF Overwritten
<1> HIDE DEF data, r
<1>3. /\ r.data = data /\ r.size = d.size /\ r.pos = d.pos /\ r.nelem = d.nelem /\ r.current = d.current
      /\ r = [data |-> r.data, size |-> r.size, pos |-> r.pos, nelem |-> r.nelem, current |-> r.current]
  BY <1>1, <1>2
<1>4. d.size \in Nat /\ d.data \in [0 .. d.size-1 -> Word]
  BY DatasetBounds, Zenon DEF IsDataset
<1>5. data \in [0 .. d.size-1 -> Word]
  BY <1>4 DEF data
<1>6. \A i \in 0 .. n-1 : data[i] = words[i]
  BY <1>4 DEF data
<1>7. IsDataset(r)
  BY <1>3, <1>5 DEF IsDataset
<1> QED BY <1>3, <1>6, <1>7 DEF r

(* The positions in the header once it is as it was filled. *)
LEMMA HeaderIs ==
  ASSUME NEW list \in Lists, NEW d, IsDataset(d), NEW at, NEW vals,
         d.nelem = Len(list), d.current = 0,
         Row(list, Len(list), at, vals), Held(d.data, list, Len(list), at, vals),
         d.data[Len(list)] = Number(0), at[Len(list)+1] <= d.size,
         d.pos = d.data[0].num
  PROVE  Reading(d, list, 0, at, vals)
<1> DEFINE n == Len(list)
<1>1. n \in Nat
  BY ListTyped
<1>2. CASE n = 0
  <2>1. d.data[0] = Number(0)
    BY <1>2
  <2>2. d.pos = 0
    BY <2>1 DEF Number
  <2> QED BY <1>2, <2>2 DEF Reading
<1>3. CASE n # 0
  <2>1. 1 \in 1 .. n /\ 0 < n /\ 1 - 1 = 0
    BY <1>1, <1>3
  <2>2. d.data[0] = Number(at[1])
    BY <2>1 DEF Held
  <2>3. d.pos = at[0+1]
    BY <2>2 DEF Number
  <2> HIDE DEF n
  <2> QED BY <2>1, <2>3 DEF Reading, n
<1> QED BY <1>2, <1>3

LEMMA ReceivedIs ==
  ASSUME NEW list \in Lists, NEW words, NEW end, Packed(words, end, list),
         NEW e, IsDataset(e), e.pos = end, e.pos + 1 <= e.size
  PROVE  Readable(Restart(Unpack(Overwritten(e, words, e.pos + 1))), list, 0)
<1> DEFINE n == Len(list)
           o == Overwritten(e, words, e.pos + 1)
           u == Unpack(o)
           d == Restart(u)
<1>1. n \in Nat /\ n \in 0 .. Len(list) /\ n + 1 \in 1 .. n+1 /\ 1 \in 1 .. n+1
  BY ListTyped
<1>2. PICK at, vals : PackedAs(words, end, list, at, vals)
  BY DEF Packed
<1>3. end \in Nat /\ e.size \in Nat
  BY DatasetBounds
<1>4. \A i \in 0 .. end : words[i] \in Word
  BY <1>2 DEF PackedAs
<1>5. /\ IsDataset(o) /\ o.size = e.size /\ o.pos = end
      /\ \A i \in 0 .. end : o.data[i] = words[i]
  <2>1. e.pos + 1 \in Nat /\ \A i \in 0 .. (e.pos+1)-1 : i \in 0 .. end
    BY <1>3
  <2>2. \A i \in 0 .. end : i \in 0 .. (e.pos+1)-1
    BY <1>3
  <2> QED BY <1>4, <2>1, <2>2, OverwrittenIs
<1> HIDE DEF o, n
<1>6. /\ Row(list, n, at, vals) /\ end = at[n+1]
      /\ words[0] = Number(n) /\ words[n+1] = Number(n)
      /\ n # 0 => words[n] = Number(at[1])
      /\ \A j \in 2 .. n : words[j-1] = Number(at[j])
      /\ \A j \in 1 .. n : words[at[j]] = Element(list[j], vals[j])
  BY <1>2 DEF PackedAs, n
<1>7. n + 2 <= end /\ n \in 0 .. end /\ n + 1 \in 0 .. end /\ 0 \in 0 .. end
  <2>1. n + 2 <= at[n+1]
    BY <1>1, <1>6, RowRises DEF n
  <2> QED BY <1>1, <1>3, <1>6, <2>1
<1>8. o.data[0].num = n
  BY <1>5, <1>6, <1>7 DEF Number
<1> DEFINE data == [[o.data EXCEPT ![0] = o.data[n]] EXCEPT ![n] = Number(0)]
<1>9. u = [[[o EXCEPT !.nelem = n] EXCEPT !.data = data] EXCEPT !.current = data[n+1].num]
  BY <1>8 DEF Unpack
<1>10. d = [[u EXCEPT !.current = 0] EXCEPT !.pos = u.data[0].num]
  BY DEF Restart
<1> HIDE DEF u, d, data
<1>11. o = [data |-> o.data, size |-> o.size, pos |-> o.pos, nelem |-> o.nelem, current |-> o.current]
  BY <1>5, Zenon DEF IsDataset
<1>12. /\ u.data = data /\ u.size = e.size
       /\ u = [data |-> u.data, size |-> u.size, pos |-> u.pos, nelem |-> u.nelem, current |-> u.current]
       /\ u.nelem = n
  BY <1>5, <1>9, <1>11
<1>13. /\ d.data = data /\ d.size = e.size /\ d.nelem = n /\ d.current = 0 /\ d.pos = data[0].num
       /\ d = [data |-> d.data, size |-> d.size, pos |-> d.pos, nelem |-> d.nelem, current |-> d.current]
  BY <1>10, <1>12
<1>14. o.data \in [0 .. e.size-1 -> Word]
  BY <1>5, Zenon DEF IsDataset
<1>15. 0 \in 0 .. e.size-1 /\ n \in 0 .. e.size-1 /\ n + 1 \in 0 .. e.size-1
  BY <1>1, <1>3, <1>7
<1>16. /\ data \in [0 .. e.size-1 -> Word] /\ data[n] = Number(0)
       /\ (n # 0 => data[0] = o.data[n])
       /\ \A i \in 0 .. e.size-1 : i \notin {0, n} => data[i] = o.data[i]
  <2>1. Number(0) \in Word /\ o.data[n] \in Word
    BY <1>14, <1>15, WordsTyped
  <2> QED BY <1>14, <1>15, <2>1 DEF data
<1>17. Held(data, list, n, at, vals)
  <2>1. ASSUME NEW j \in 1 .. n
        PROVE  data[j-1] = Number(at[j]) /\ data[at[j]] = Element(list[j], vals[j])
    <3>1. ASSUME j = 1 PROVE data[j-1] = Number(at[j])
      <4>1. n # 0
        BY <1>1
      <4> QED BY <1>5, <1>6, <1>7, <1>16, <3>1, <4>1
    <3>2. ASSUME j # 1 PROVE data[j-1] = Number(at[j])
      <4>1. j \in 2 .. n /\ j - 1 \in 0 .. e.size-1 /\ j - 1 \notin {0, n} /\ j - 1 \in 0 .. end
        BY <1>1, <1>3, <1>7, <1>15, <3>2
      <4> QED BY <1>5, <1>6, <1>16, <4>1
    <3>3. data[j-1] = Number(at[j])
      BY <3>1, <3>2
    <3> DEFINE x == Extent(NameBytes[list[j]], SerializedSize(vals[j]))
    <3>4. j \in 1 .. n+1 /\ n + 1 \in j+1 .. n+1 /\ j \in 1 .. Len(list)
      BY <1>1 DEF n
    <3>5. at[j] \in Nat /\ n + 2 <= at[j] /\ at[j] + x <= at[n+1]
      BY <1>1, <1>6, <3>4, RowRises DEF n
    <3>6. list[j] \in Named /\ vals[j] \in Value
      BY <1>6, <3>4, ListTyped DEF Row
    <3>7. x \in Nat /\ x >= 2
      BY <3>5, <3>6, BehindIs
    <3> HIDE DEF x
    <3>8. at[j] + 2 <= end
      BY <1>3, <1>6, <3>5, <3>7
    <3>9. at[j] \in 0 .. end /\ at[j] \in 0 .. e.size-1
      BY <1>3, <3>5, <3>8
    <3>10. at[j] # 0 /\ at[j] # n
      BY <1>1, <3>5
    <3>11. data[at[j]] = Element(list[j], vals[j])
      BY <1>5, <1>6, <1>16, <3>9, <3>10
    <3> QED BY <3>3, <3>11
  <2> QED BY <2>1 DEF Held
<1>18. IsDataset(d)
  <2>1. d.pos \in 0 .. e.size
    <3>1. CASE n = 0
      BY <1>3, <1>13, <1>16, <3>1 DEF Number
    <3>2. CASE n # 0
      <4>1. 1 \in 1 .. n /\ 1 - 1 = 0
        BY <1>1, <3>2
      <4>2. data[0] = Number(at[1])
        BY <1>17, <4>1 DEF Held
      <4>3. d.pos = at[1]
        BY <1>13, <4>2 DEF Number
      <4> DEFINE x == Extent(NameBytes[list[1]], SerializedSize(vals[1]))
      <4>4. n + 1 \in 1+1 .. n+1 /\ 1 \in 1 .. Len(list)
        BY <1>1, <3>2 DEF n
      <4>5. at[1] \in Nat /\ at[1] + x <= at[n+1]
        BY <1>1, <1>6, <4>1, <4>4, RowRises DEF n
      <4>6. list[1] \in Named /\ vals[1] \in Value
        BY <1>6, <4>1, <4>4, ListTyped DEF Row
      <4>7. x \in Nat
        BY <4>5, <4>6, BehindIs
      <4> HIDE DEF x
      <4> QED BY <1>3, <1>6, <4>3, <4>5, <4>7
    <3> QED BY <3>1, <3>2
  <2>2. n + 2 <= e.size
    BY <1>1, <1>3, <1>7
  <2> QED BY <1>1, <1>3, <1>13, <1>16, <2>1, <2>2 DEF IsDataset
<1>19. Reading(d, list, 0, at, vals)
  <2>1. at[n+1] <= d.size
    BY <1>3, <1>6, <1>13
  <2> QED BY <1>6, <1>13, <1>16, <1>17, <1>18, <2>1, HeaderIs DEF n
<1> QED BY <1>19 DEF Readable, d, u, o

(* What is sent of a dataset to all, and taken from there. *)
Block(b, list) ==
  \E d : Laid(d, list, Len(list)) /\ b = [data |-> d.data, size |-> d.size, nelem |-> d.nelem]

LEMMA TakenIs ==
  ASSUME NEW list \in Lists, NEW b, Block(b, list)
  PROVE  Readable(Restart(FromBuffer(b)), list, 0)
<1> DEFINE n == Len(list)
           r == FromBuffer(b)
           t == Restart(r)
<1>1. n \in Nat /\ n \in 0 .. Len(list) /\ n + 1 \in 1 .. n+1 /\ 1 \in 1 .. n+1
  BY ListTyped
<1>2. PICK d : Laid(d, list, n) /\ b = [data |-> d.data, size |-> d.size, nelem |-> d.nelem]
  BY DEF Block
<1>3. PICK at, vals : Filling(d, list, n, at, vals)
  BY <1>2 DEF Laid
<1>4. /\ IsDataset(d) /\ d.nelem = n /\ d.pos = at[n+1]
      /\ Row(list, n, at, vals) /\ Held(d.data, list, n, at, vals)
      /\ d.data[n] = Number(0)
  BY <1>1, <1>3 DEF Filling
<1>5. d.size \in Nat /\ n + 2 <= d.size /\ d.pos <= d.size /\ d.pos \in Nat
  BY <1>4, DatasetBounds
<1>6. d.data \in [0 .. d.size-1 -> Word]
  BY <1>4, Zenon DEF IsDataset
<1> HIDE DEF n
<1>7. r = [data |-> d.data, size |-> d.size, pos |-> 0, nelem |-> n, current |-> 0]
  BY <1>2, <1>4 DEF FromBuffer
<1>8. t = [data |-> d.data, size |-> d.size, pos |-> d.data[0].num, nelem |-> n, current |-> 0]
  <2>1. t = [r EXCEPT !.current = 0, !.pos = r.data[0].num]
    BY DEF Restart
  <2> HIDE DEF r, t
  <2>2. r.data = d.data
    BY <1>7
  <2> QED BY <1>7, <2>1, <2>2
<1> HIDE DEF r, t
<1>9. d.data[0].num \in 0 .. d.size
  <2>1. CASE n = 0
    BY <1>4, <1>5, <2>1 DEF Number
  <2>2. CASE n # 0
    <3>1. 1 \in 1 .. n /\ 1 - 1 = 0 /\ n + 1 \in 1+1 .. n+1 /\ 1 \in 1 .. Len(list)
      BY <1>1, <2>2 DEF n
    <3>2. d.data[0] = Number(at[1])
      BY <1>4, <3>1 DEF Held
    <3> DEFINE x == Extent(NameBytes[list[1]], SerializedSize(vals[1]))
    <3>3. at[1] \in Nat /\ at[1] + x <= at[n+1]
      BY <1>1, <1>4, <3>1, RowRises DEF n
    <3>4. list[1] \in Named /\ vals[1] \in Value
      BY <1>4, <3>1, ListTyped DEF Row
    <3>5. x \in Nat
      BY <3>3, <3>4, BehindIs
    <3> HIDE DEF x
    <3> QED BY <1>4, <1>5, <3>2, <3>3, <3>5 DEF Number
  <2> QED BY <2>1, <2>2
<1>10. IsDataset(t)
  BY <1>1, <1>5, <1>6, <1>8, <1>9 DEF IsDataset
<1>11. Reading(t, list, 0, at, vals)
  <2>1. at[n+1] <= t.size
    BY <1>4, <1>5, <1>8
  <2>2. Held(t.data, list, n, at, vals) /\ t.data[n] = Number(0) /\ t.pos = t.data[0].num
        /\ t.nelem = n /\ t.current = 0
    BY <1>4, <1>8
  <2> QED BY <1>4, <1>10, <2>1, <2>2, HeaderIs DEF n
<1> QED BY <1>11 DEF Readable, t, r

LEMMA NextElement ==
  ASSUME NEW list \in Lists, NEW m \in 0 .. Len(list)-1, NEW d, Readable(d, list, m)
  PROVE  /\ NextName(d) = list[m+1] /\ ElemValue(d) \in Value
         /\ Readable(GetElem(d), list, m+1)
<1> DEFINE n == Len(list)
           r == GetElem(d)
<1>1. n \in Nat /\ m + 1 \in 1 .. n /\ (m+1) - 1 = m /\ m + 1 \in 1 .. n+1 /\ m \in 0 .. n /\ n \in 0 .. Len(list)
      /\ m < n
  BY ListTyped
<1>2. PICK at, vals : Reading(d, list, m, at, vals)
  BY DEF Readable
<1>3. /\ IsDataset(d) /\ d.nelem = n /\ d.current = m /\ d.pos = at[m+1]
      /\ Row(list, n, at, vals) /\ Held(d.data, list, n, at, vals)
      /\ d.data[n] = Number(0) /\ at[n+1] <= d.size
  BY <1>1, <1>2 DEF Reading
<1> HIDE DEF n
<1>4. d.data[m] = Number(at[m+1]) /\ d.data[at[m+1]] = Element(list[m+1], vals[m+1])
  BY <1>1, <1>3 DEF Held
<1>5. NextName(d) = list[m+1]
  BY <1>3, <1>4 DEF NextName, Element
<1>6. ElemValue(d) = vals[m+1]
  BY <1>3, <1>4 DEF ElemValue, Element, Number
<1>7. vals[m+1] \in Value
  BY <1>1, <1>3 DEF Row
<1>8. r = [[d EXCEPT !.current = m + 1] EXCEPT !.pos = d.data[m+1].num]
  BY <1>3 DEF GetElem
<1> HIDE DEF r
<1>9. /\ r.data = d.data /\ r.size = d.size /\ r.nelem = n /\ r.current = m + 1
      /\ r.pos = d.data[m+1].num
      /\ r = [data |-> r.data, size |-> r.size, pos |-> r.pos, nelem |-> r.nelem, current |-> r.current]
  <2>1. d = [data |-> d.data, size |-> d.size, pos |-> d.pos, nelem |-> d.nelem, current |-> d.current]
    BY <1>3, Zenon DEF IsDataset
  <2> QED BY <1>3, <1>8, <2>1
<1>10. d.size \in Nat /\ n + 2 <= d.size
  BY <1>3, DatasetBounds
<1>11. r.pos = (IF m + 1 < n THEN at[(m+1)+1] ELSE 0)
  <2>1. CASE m + 1 < n
    <3>1. (m+1)+1 \in 1 .. n /\ ((m+1)+1) - 1 = m+1
      BY <1>1, <2>1
    <3>2. d.data[m+1] = Number(at[(m+1)+1])
      BY <1>3, <3>1 DEF Held
    <3> QED BY <1>9, <2>1, <3>2 DEF Number
  <2>2. CASE ~(m + 1 < n)
    <3>1. m + 1 = n
      BY <1>1, <2>2
    <3> QED BY <1>3, <1>9, <2>2, <3>1 DEF Number
  <2> QED BY <2>1, <2>2
<1>12. r.pos \in 0 .. d.size
  <2>1. CASE m + 1 < n
    <3> DEFINE k == (m+1)+1
               x == Extent(NameBytes[list[k]], SerializedSize(vals[k]))
    <3>1. k \in 1 .. n /\ n + 1 \in k+1 .. n+1 /\ k \in 1 .. Len(list) /\ k \in 1 .. n+1
      BY <1>1, <2>1 DEF n
    <3> HIDE DEF k
    <3>2. at[k] \in Nat /\ at[n+1] \in Nat /\ at[k] + x <= at[n+1]
      <4>1. n + 1 \in 1 .. n+1
        BY <1>1
      <4> QED BY <1>1, <1>3, <3>1, <4>1, RowRises DEF n
    <3>3. list[k] \in Named /\ vals[k] \in Value
      BY <1>3, <3>1, ListTyped DEF Row
    <3>4. x \in Nat
      BY <3>2, <3>3, BehindIs
    <3> HIDE DEF x
    <3>5. r.pos = at[k]
      BY <1>11, <2>1 DEF k
    <3> QED BY <1>3, <1>10, <3>2, <3>4, <3>5
  <2>2. CASE ~(m + 1 < n)
    BY <1>10, <1>11, <2>2
  <2> QED BY <2>1, <2>2
<1>13. IsDataset(r)
  <2>1. d.data \in [0 .. d.size-1 -> Word]
    BY <1>3, Zenon DEF IsDataset
  <2> QED BY <1>1, <1>9, <1>10, <1>12, <2>1 DEF IsDataset
<1>14. Reading(r, list, m+1, at, vals)
  BY <1>3, <1>9, <1>11, <1>13 DEF Reading, n
<1> QED BY <1>5, <1>6, <1>7, <1>14 DEF Readable, r

LEMMA PickUpIs ==
  ASSUME NEW list \in Lists, NEW d, Readable(d, list, 0), NEW value \in Values, NEW names
  PROVE  /\ PickUp(d, value, names).value \in Values
         /\ \E m \in 0 .. Len(list) : Readable(PickUp(d, value, names).d, list, m)
<1> DEFINE n == Len(list)
           seq == [k \in 1 .. d.nelem |-> k]
           op(at, k) == IF NextName(at.d) \in names
                          THEN [d |-> GetElem(at.d),
                                value |-> [at.value EXCEPT ![NextName(at.d)] = ElemValue(at.d)]]
                          ELSE at
           base == [d |-> d, value |-> value]
           P(u) == u = [k \in 0 .. Len(seq) |-> IF k = 0 THEN base
                                         ELSE CHOOSE r \in {op(v, seq[k]) : v \in {u[k-1]}} : TRUE]
           g == CHOOSE u : P(u)
           W == {at \in [d : Datasets, value : Values] :
                   at.d.current \in 0 .. n /\ Readable(at.d, list, at.d.current)}
           step1 == [k \in 1 .. n |-> [at \in W |-> IF at.d.current < k THEN op(at, k) ELSE at]]
<1>1. PickUp(d, value, names) = g[Len(seq)]
  BY Zenon DEF PickUp, Folded
<1>2. n \in Nat /\ d.nelem = n /\ IsDataset(d) /\ d.current = 0
  BY ListTyped, ReadableIs
<1>3. Len(seq) = n /\ \A k \in 1 .. n : seq[k] = k
  BY <1>2
<1>4. base \in W /\ base.d.current = 0
  <2>1. d \in Datasets /\ 0 \in 0 .. n
    BY <1>2, DatasetsHave
  <2> HIDE DEF n
  <2> QED BY <1>2, <2>1
<1>5. ASSUME NEW at \in W, NEW k \in 1 .. n, at.d.current < k
      PROVE  op(at, k) \in W /\ op(at, k).d.current <= at.d.current + 1
  <2>1. /\ at \in [d : Datasets, value : Values] /\ at.d.current \in 0 .. n
        /\ Readable(at.d, list, at.d.current)
    OBVIOUS
  <2>2. at.d.current \in 0 .. Len(list)-1 /\ at.d.current + 1 \in 0 .. n
    BY <1>2, <1>5, <2>1
  <2> HIDE DEF n, W
  <2>3. /\ NextName(at.d) = list[at.d.current+1] /\ ElemValue(at.d) \in Value
        /\ Readable(GetElem(at.d), list, at.d.current + 1)
    BY <2>1, <2>2, NextElement
  <2>4. GetElem(at.d) \in Datasets /\ GetElem(at.d).current = at.d.current + 1
    BY <2>3, ReadableIs, DatasetsHave
  <2>5. [at.value EXCEPT ![NextName(at.d)] = ElemValue(at.d)] \in Values
    BY <2>1, <2>3 DEF Values
  <2>6. CASE NextName(at.d) \in names
    <3> DEFINE new == [at.value EXCEPT ![NextName(at.d)] = ElemValue(at.d)]
    <3>1. op(at, k) = [d |-> GetElem(at.d), value |-> new]
      BY <2>6
    <3>2. new \in Values
      BY <2>5
    <3> HIDE DEF op, new
    <3>3. op(at, k) \in [d : Datasets, value : Values] /\ op(at, k).d = GetElem(at.d)
      BY <2>4, <3>1, <3>2
    <3> QED BY <2>2, <2>3, <2>4, <3>3 DEF W
  <2>7. CASE NextName(at.d) \notin names
    <3>1. op(at, k) = at
      BY <2>7
    <3> HIDE DEF op
    <3> QED BY <2>1, <2>2, <3>1 DEF W
  <2> QED BY <2>6, <2>7
<1>6. \A at \in W : at.d.current \in Nat /\ at.value \in Values /\ \E m \in 0 .. n : Readable(at.d, list, m)
  BY <1>2
<1> HIDE DEF n, op, base, W, seq
<1>7. step1 \in StepOfEach(n, W)
  BY <1>5 DEF StepOfEach
<1>8. PICK f : Iterates(f, n, W, base, step1)
  BY <1>2, <1>4, <1>7, RecursiveFunction
<1>9. /\ f \in [0 .. n -> W] /\ f[0] = base
      /\ \A k \in 1 .. n : f[k] = IF f[k-1].d.current < k THEN op(f[k-1], k) ELSE f[k-1]
  <2>1. /\ f \in [0 .. n -> W] /\ f[0] = base
        /\ \A k \in 1 .. n : f[k] = step1[k][f[k-1]]
    BY <1>8 DEF Iterates
  <2>2. ASSUME NEW k \in 1 .. n
        PROVE  f[k] = IF f[k-1].d.current < k THEN op(f[k-1], k) ELSE f[k-1]
    <3>1. f[k-1] \in W
      BY <1>2, <2>1
    <3> QED BY <2>1, <3>1
  <2> QED BY <2>1, <2>2
<1>10. \A k \in 0 .. n : f[k].d.current <= k
  <2> DEFINE T == {k \in 0 .. n : f[k].d.current <= k}
  <2>1. 0 \in T
    BY <1>2, <1>4, <1>9
  <2>2. ASSUME NEW k \in 0 .. n-1, k \in T PROVE k + 1 \in T
    <3>1. k + 1 \in 1 .. n /\ (k + 1) - 1 = k /\ f[k] \in W /\ f[k].d.current <= k /\ k + 1 \in 0 .. n
          /\ f[k].d.current \in Nat
      BY <1>2, <1>6, <1>9, <2>2
    <3>2. f[k].d.current < k + 1
      BY <3>1
    <3>3. f[k+1] = op(f[k], k+1)
      BY <1>9, <3>1, <3>2
    <3>4. op(f[k], k+1) \in W /\ op(f[k], k+1).d.current <= f[k].d.current + 1
      BY <1>5, <3>1, <3>2
    <3>5. op(f[k], k+1).d.current \in Nat
      BY <1>6, <3>4
    <3> QED BY <3>1, <3>3, <3>4, <3>5
  <2> HIDE DEF T
  <2>3. 0 .. n \subseteq T
    BY <1>2, <2>1, <2>2, BoundedInduction
  <2> QED BY <2>3 DEF T
<1>11. ASSUME NEW k \in 1 .. n PROVE f[k] = op(f[k-1], seq[k])
  <2>1. k - 1 \in 0 .. n /\ seq[k] = k
    BY <1>2, <1>3
  <2>2. f[k-1].d.current <= k - 1 /\ f[k-1].d.current \in Nat
    BY <1>6, <1>9, <1>10, <2>1
  <2>3. f[k-1].d.current < k
    BY <2>2
  <2> QED BY <1>9, <2>1, <2>3
<1>12. P([k \in 0 .. n |-> f[k]])
  <2> DEFINE h == [k \in 0 .. n |-> f[k]]
  <2>1. ASSUME NEW k \in 0 .. n
        PROVE  h[k] = IF k = 0 THEN base ELSE CHOOSE r \in {op(v, seq[k]) : v \in {h[k-1]}} : TRUE
    <3>1. CASE k = 0
      BY <1>9, <3>1
    <3>2. CASE k # 0
      <4>1. k \in 1 .. n /\ k - 1 \in 0 .. n
        BY <1>2, <3>2
      <4>2. h[k] = op(h[k-1], seq[k])
        BY <1>11, <4>1
      <4> HIDE DEF h
      <4>3. {op(v, seq[k]) : v \in {h[k-1]}} = {h[k]}
        BY <4>2
      <4> QED BY <3>2, <4>3, OneOfOne DEF TheOne
    <3> QED BY <3>1, <3>2
  <2> QED BY <1>3, <2>1
<1>13. P(g)
  <2> HIDE DEF P
  <2> QED BY <1>12
<1>14. \A k \in 0 .. n : g[k] = IF k = 0 THEN base ELSE CHOOSE r \in {op(v, seq[k]) : v \in {g[k-1]}} : TRUE
  <2> HIDE DEF g
  <2> QED BY <1>3, <1>13
<1> HIDE DEF g, P
<1>15. f[0] = g[0]
  BY <1>2, <1>9, <1>14
<1>16. ASSUME NEW k \in 1 .. n, f[k-1] = g[k-1] PROVE f[k] = g[k]
  <2>1. k \in 0 .. n /\ k # 0 /\ f[k] = op(g[k-1], seq[k])
    BY <1>11, <1>16
  <2>2. {op(v, seq[k]) : v \in {g[k-1]}} = {f[k]}
    BY <2>1
  <2> QED BY <1>14, <2>1, <2>2, OneOfOne DEF TheOne
<1>17. f[n] = g[n]
  BY <1>2, <1>15, <1>16, Chosen
<1>18. f[n] \in W
  BY <1>2, <1>9
<1> QED BY <1>1, <1>3, <1>6, <1>17, <1>18 DEF n

-----------------------------------------------------------------------------
(* What reducers make of values are values. *)
LEMMA ResizedTyped ==
  ASSUME NEW v \in Value, NEW size \in Nat
  PROVE  ResizedArray(v, size) \in Value /\ Len(ResizedArray(v, size)) = size
         /\ DOMAIN ResizedArray(v, size) = 1 .. size
BY DEF ResizedArray, Value

LEMMA OpTyped ==
  ASSUME NEW s \in DOMAIN Kind, NEW l \in Value, NEW r \in Value
  PROVE  Op(s, l, r) \in Value
<1>1. CASE Kind[s] = "join"
  <2>1. Op(s, l, r) = l \o r
    BY <1>1 DEF Op
  <2> QED BY <2>1 DEF Value
<1>2. CASE Kind[s] = "array"
  <2> DEFINE wide == ResizedArray(l, LongerOf(l, r))
  <2>1. Op(s, l, r) = [i \in DOMAIN wide |-> IF i \in DOMAIN r THEN wide[i] + r[i] ELSE wide[i]]
    BY <1>2 DEF Op, ReduceWith
  <2>2. LongerOf(l, r) \in Nat
    BY DEF LongerOf, Value
  <2>3. wide \in Seq(Nat) /\ DOMAIN wide = 1 .. Len(wide) /\ Len(wide) \in Nat
    BY <2>2, ResizedTyped DEF Value
  <2>4. r \in Seq(Nat)
    BY DEF Value
  <2> HIDE DEF wide
  <2>5. ASSUME NEW i \in 1 .. Len(wide)
        PROVE  (IF i \in DOMAIN r THEN wide[i] + r[i] ELSE wide[i]) \in Nat
    BY <2>3, <2>4
  <2> QED BY <2>1, <2>3, <2>5, IsASeq DEF Value
<1>3. CASE Kind[s] = "last"
  BY <1>3 DEF Op
<1> QED BY <1>1, <1>2, <1>3, KindAssumption

LEMMA NeutralTyped ==
  ASSUME NEW s \in DOMAIN Kind, NEW v \in Value
  PROVE  Neutral(s, v) \in Value
<1>1. CASE Kind[s] = "join"
  BY <1>1 DEF Neutral, Value
<1>2. CASE Kind[s] = "array"
  BY <1>2 DEF Neutral, Value
<1>3. CASE Kind[s] = "last"
  BY <1>3 DEF Neutral
<1> QED BY <1>1, <1>2, <1>3, KindAssumption
(* A fold of values is a value. *)
LEMMA OpFolded ==
  ASSUME NEW s \in DOMAIN Kind, NEW base \in Value, NEW seq \in Seq(Value)
  PROVE  Folded(LAMBDA l, r : Op(s, l, r), base, seq) \in Value
<1> DEFINE n == Len(seq)
           op(l, r) == Op(s, l, r)
           P(u) == u = [k \in 0 .. n |-> IF k = 0 THEN base
                                         ELSE CHOOSE r \in {op(l, seq[k]) : l \in {u[k-1]}} : TRUE]
           g == CHOOSE u : P(u)
           step1 == [k \in 1 .. n |-> [l \in Value |-> op(l, seq[k])]]
           last == Folded(LAMBDA l, r : Op(s, l, r), base, seq)
<1>1. last = g[n]
  BY Zenon DEF Folded
<1> HIDE DEF last
<1>2. n \in Nat /\ \A k \in 1 .. n : seq[k] \in Value
  OBVIOUS
<1>4. \A l \in Value, k \in 1 .. n : op(l, seq[k]) \in Value
  BY <1>2, OpTyped
<1> HIDE DEF n, op
<1>5. step1 \in StepOfEach(n, Value)
  BY <1>4 DEF StepOfEach
<1>6. PICK f : Iterates(f, n, Value, base, step1)
  BY <1>2, <1>5, RecursiveFunction
<1>7. /\ f \in [0 .. n -> Value] /\ f[0] = base
      /\ \A k \in 1 .. n : f[k] = op(f[k-1], seq[k])
  <2>1. /\ f \in [0 .. n -> Value] /\ f[0] = base
        /\ \A k \in 1 .. n : f[k] = step1[k][f[k-1]]
    BY <1>6 DEF Iterates
  <2>2. ASSUME NEW k \in 1 .. n PROVE f[k] = op(f[k-1], seq[k])
    <3>1. f[k-1] \in Value
      BY <1>2, <2>1
    <3> QED BY <2>1, <3>1
  <2> QED BY <2>1, <2>2
<1>8. P([k \in 0 .. n |-> f[k]])
  <2> DEFINE h == [k \in 0 .. n |-> f[k]]
  <2>1. ASSUME NEW k \in 0 .. n
        PROVE  h[k] = IF k = 0 THEN base ELSE CHOOSE r \in {op(l, seq[k]) : l \in {h[k-1]}} : TRUE
    <3>1. CASE k = 0
      BY <1>7, <3>1
    <3>2. CASE k # 0
      <4>1. k \in 1 .. n /\ k - 1 \in 0 .. n
        BY <1>2, <3>2
      <4>2. h[k] = op(h[k-1], seq[k])
        BY <1>7, <4>1
      <4> HIDE DEF h
      <4>3. {op(l, seq[k]) : l \in {h[k-1]}} = {h[k]}
        BY <4>2
      <4> QED BY <3>2, <4>3, OneOfOne DEF TheOne
    <3> QED BY <3>1, <3>2
  <2> QED BY <2>1
<1>9. P(g)
  <2> HIDE DEF P
  <2> QED BY <1>8
<1>10. \A k \in 0 .. n : g[k] = IF k = 0 THEN base ELSE CHOOSE r \in {op(l, seq[k]) : l \in {g[k-1]}} : TRUE
  <2> HIDE DEF g
  <2> QED BY <1>9
<1> HIDE DEF g, P
<1>11. f[0] = g[0]
  BY <1>2, <1>7, <1>10
<1>12. ASSUME NEW k \in 1 .. n, f[k-1] = g[k-1] PROVE f[k] = g[k]
  <2>1. k \in 0 .. n /\ k # 0 /\ f[k] = op(g[k-1], seq[k])
    BY <1>7, <1>12
  <2>2. {op(l, seq[k]) : l \in {g[k-1]}} = {f[k]}
    BY <2>1
  <2> QED BY <1>10, <2>1, <2>2, OneOfOne DEF TheOne
<1>13. f[n] = g[n]
  BY <1>2, <1>11, <1>12, Chosen
<1>14. last \in Value
  BY <1>1, <1>2, <1>7, <1>13
<1> QED BY <1>14, Zenon DEF last

LEMMA BodyTyped ==
  ASSUME NEW s \in DOMAIN Kind, NEW children \in Seq(Value)
  PROVE  BodyResult(s, children) \in Value
<1>1. <<>> \in Value
  BY DEF Value
<1> QED BY <1>1, NeutralTyped, OpFolded DEF BodyResult

LEMMA ReducedTyped ==
  ASSUME NEW s \in DOMAIN Kind, NEW v \in Value, NEW children \in Seq(Value),
         NEW cut \in Nat \ {0}, cut <= Len(children) \/ Len(children) = 0
  PROVE  ReducedValue(s, v, children, cut) \in Value
<1> DEFINE first  == SubSeq(children, 1, cut)
           left   == BodyResult(s, first)
           rest   == SubSeq(children, cut + 1, Len(children))
           right  == IF cut < Len(children) THEN <<BodyResult(s, rest)>> ELSE <<>>
           result == Folded(LAMBDA l, r : Op(s, l, r), left, right)
<1>1. CASE children = <<>>
  BY <1>1 DEF ReducedValue
<1>2. CASE children # <<>>
  <2>1. cut <= Len(children) /\ Len(children) \in Nat
    BY <1>2
  <2>2. left \in Value
    <3>1. first \in Seq(Value)
      BY <2>1
    <3> HIDE DEF first
    <3> QED BY <3>1, BodyTyped
  <2>3. right \in Seq(Value)
    <3>1. rest \in Seq(Value)
      BY <2>1
    <3> HIDE DEF rest
    <3>2. BodyResult(s, rest) \in Value
      BY <3>1, BodyTyped
    <3> QED BY <3>2
  <2> HIDE DEF left, right
  <2>4. result \in Value
    BY <2>2, <2>3, OpFolded
  <2> HIDE DEF result
  <2>5. Neutral(s, v) \in Value /\ <<result>> \in Seq(Value)
    BY <2>4, NeutralTyped
  <2>6. ReducedValue(s, v, children, cut)
          = Folded(LAMBDA l, r : Op(s, l, r), Neutral(s, v), <<result>>)
    BY <1>2, Zenon DEF ReducedValue, result, left, right, first, rest
  <2> QED BY <2>5, <2>6, OpFolded
<1> QED BY <1>1, <1>2

LEMMA FoldedFromTyped ==
  ASSUME NEW s \in DOMAIN Kind, NEW all \in Seq(Value), all # <<>>
  PROVE  FoldedFrom(s, all) \in Value
<1>1. all[1] \in Value /\ Tail(all) \in Seq(Value)
  OBVIOUS
<1> QED BY <1>1, OpFolded DEF FoldedFrom

LEMMA UsedTyped ==
  ASSUME NEW s \in DOMAIN Kind, NEW v \in Value, NEW c \in Nat
  PROVE  Used(c, s, v) \in Value
<1>1. CASE Kind[s] = "array"
  <2> DEFINE size == (c % 2) + 1
             a == ResizedArray(v, size)
  <2>1. size \in Nat /\ size >= 1
    OBVIOUS
  <2>2. a \in Value /\ Len(a) = size
    BY <2>1, ResizedTyped
  <2>3. Used(c, s, v) = [a EXCEPT ![1] = @ + c + 1]
    BY <1>1 DEF Used
  <2> HIDE DEF a, size
  <2>4. a \in Seq(Nat) /\ 1 \in DOMAIN a /\ a[1] \in Nat
    BY <2>1, <2>2 DEF Value
  <2>5. a[1] + c + 1 \in Nat
    BY <2>4
  <2> QED BY <2>3, <2>4, <2>5 DEF Value
<1>2. CASE Kind[s] # "array"
  <2>1. Used(c, s, v) = Append(v, c)
    BY <1>2 DEF Used
  <2> QED BY <2>1 DEF Value
<1> QED BY <1>1, <1>2

LEMMA SizeTyped ==
  ASSUME NEW v \in Value
  PROVE  SerializedSize(v) \in Nat
BY DEF SerializedSize, Value

(* A dataset that has been told another position, with room for it. *)
LEMMA KnownIs ==
  ASSUME NEW d, IsDataset(d), NEW pos \in Nat
  PROVE  LET r == Receivable([d EXCEPT !.pos = pos])
         IN  IsDataset(r) /\ r.pos = pos /\ r.pos + 1 <= r.size
<1> DEFINE e == [d EXCEPT !.pos = pos]
           r == Receivable(e)
<1>1. /\ e.pos = pos /\ e.data = d.data /\ e.size = d.size /\ e.nelem = d.nelem
      /\ e.current = d.current
  BY PositionIs
<1>2. d.size \in Nat
  BY DatasetBounds
<1>3. CASE d.size < pos + 1
  <2> DEFINE f == Resized(d, pos + 1)
  <2>1. IsDataset(f) /\ f.size = pos + 1
    BY <1>2, <1>3, GrownIs
  <2>2. r = [f EXCEPT !.pos = pos]
    <3>1. r = Resized(e, pos + 1)
      BY <1>1, <1>3 DEF Receivable
    <3>2. d = [data |-> d.data, size |-> d.size, pos |-> d.pos, nelem |-> d.nelem, current |-> d.current]
      BY Zenon DEF IsDataset
    <3> QED BY <1>1, <3>1, <3>2 DEF Resized
  <2> HIDE DEF f, r, e
  <2>3. r.pos = pos /\ r.size = pos + 1 /\ r.data = f.data /\ r.nelem = f.nelem /\ r.current = f.current
        /\ r = [data |-> r.data, size |-> r.size, pos |-> r.pos, nelem |-> r.nelem, current |-> r.current]
    <3>1. f = [data |-> f.data, size |-> f.size, pos |-> f.pos, nelem |-> f.nelem, current |-> f.current]
      BY <2>1, Zenon DEF IsDataset
    <3> QED BY <2>1, <2>2, <3>1
  <2>4. IsDataset(r)
    BY <2>1, <2>3 DEF IsDataset
  <2> QED BY <2>3, <2>4 DEF r, e
<1>4. CASE ~(d.size < pos + 1)
  <2>1. r = e
    BY <1>1, <1>4 DEF Receivable
  <2>2. pos <= d.size /\ pos + 1 <= d.size
    BY <1>2, <1>4
  <2>3. e = [data |-> e.data, size |-> e.size, pos |-> e.pos, nelem |-> e.nelem, current |-> e.current]
    <3>1. d = [data |-> d.data, size |-> d.size, pos |-> d.pos, nelem |-> d.nelem, current |-> d.current]
      BY Zenon DEF IsDataset
    <3> QED BY <3>1
  <2> HIDE DEF e, r
  <2>4. IsDataset(e)
    BY <1>1, <2>2, <2>3 DEF IsDataset
  <2> QED BY <1>1, <2>1, <2>2, <2>4 DEF r, e
<1> QED BY <1>3, <1>4
-----------------------------------------------------------------------------
(***************************************************************************)
(* The collectives of a program.  A call has a fixed number of parts, so   *)
(* that the place of an entry in a log tells the call and the part.        *)
(***************************************************************************)
Parts(c, n) ==
  IF c.call = "superstep" THEN 1
  ELSE IF n = 1 THEN 0
  ELSE IF c.call \in {"initialize_all", "initialize"} THEN (IF c.master >= 0 THEN 2 ELSE 0)
  ELSE IF c.call = "reduce" THEN (IF c.global THEN 2 ELSE 0)
  ELSE IF c.call = "bsp_fold" THEN 1 ELSE 2

Places(base, prog, n) ==
  /\ base \in [0 .. Len(prog) -> Nat] /\ base[0] = 0
  /\ \A i \in 1 .. Len(prog) : base[i] = base[i-1] + Parts(prog[i], n)
Base(prog, n) == CHOOSE base : Places(base, prog, n)
Between(prog, n, i) == Base(prog, n)[i-1] + 1 .. Base(prog, n)[i]

LEMMA PartsTyped ==
  ASSUME NEW c, NEW n
  PROVE  Parts(c, n) \in 0 .. 2
<1>1. Parts(c, n) \in {0, 1, 2}
  BY Zenon DEF Parts
<1> QED BY <1>1

LEMMA BaseIs ==
  ASSUME NEW prog, IsSequence(prog), NEW n
  PROVE  Places(Base(prog, n), prog, n) /\ Len(prog) \in Nat
<1> DEFINE l == Len(prog)
           step1 == [k \in 1 .. l |-> [v \in Nat |-> v + Parts(prog[k], n)]]
<1>1. l \in Nat
  BY DEF IsSequence
<1>2. \A k \in 1 .. l : Parts(prog[k], n) \in Nat
  BY PartsTyped
<1> HIDE DEF l
<1>3. step1 \in StepOfEach(l, Nat)
  BY <1>2 DEF StepOfEach
<1>4. PICK f : Iterates(f, l, Nat, 0, step1)
  BY <1>1, <1>3, RecursiveFunction
<1>5. Places(f, prog, n)
  <2>1. /\ f \in [0 .. l -> Nat] /\ f[0] = 0
        /\ \A k \in 1 .. l : f[k] = step1[k][f[k-1]]
    BY <1>4 DEF Iterates
  <2>2. ASSUME NEW k \in 1 .. l PROVE f[k] = f[k-1] + Parts(prog[k], n)
    <3>1. f[k-1] \in Nat
      BY <1>1, <2>1
    <3> QED BY <2>1, <3>1
  <2> QED BY <2>1, <2>2 DEF Places, l
<1>6. Places(Base(prog, n), prog, n)
  BY <1>5, Zenon DEF Base
<1> QED BY <1>1, <1>6 DEF l

(* The parts of a later call come later. *)
LEMMA BaseRises ==
  ASSUME NEW prog, IsSequence(prog), NEW n, NEW i \in 0 .. Len(prog), NEW j \in i .. Len(prog)
  PROVE  /\ Base(prog, n)[i] \in Nat /\ Base(prog, n)[j] \in Nat
         /\ Base(prog, n)[i] <= Base(prog, n)[j]
<1> DEFINE l == Len(prog)
           base == Base(prog, n)
           T == {k \in 0 .. l - i : base[i] <= base[i+k]}
<1>1. /\ l \in Nat /\ base \in [0 .. l -> Nat] /\ base[0] = 0
      /\ \A k \in 1 .. l : base[k] = base[k-1] + Parts(prog[k], n)
  BY BaseIs DEF Places
<1> HIDE DEF base, l
<1>0. i \in 0 .. l /\ j \in i .. l
  BY DEF l
<1>2. 0 \in T
  BY <1>0, <1>1
<1>3. ASSUME NEW k \in 0 .. (l-i)-1, k \in T PROVE k + 1 \in T
  <2>1. /\ i + k \in 0 .. l /\ i + (k+1) \in 1 .. l /\ (i + (k+1)) - 1 = i + k
        /\ k + 1 \in 0 .. l - i
    BY <1>0, <1>1
  <2>2. base[i + (k+1)] = base[i+k] + Parts(prog[i + (k+1)], n)
    BY <1>1, <2>1
  <2>3. Parts(prog[i + (k+1)], n) \in Nat
    BY PartsTyped
  <2>4. base[i] \in Nat /\ base[i+k] \in Nat /\ base[i] <= base[i+k]
    BY <1>0, <1>1, <1>3, <2>1
  <2> QED BY <2>1, <2>2, <2>3, <2>4
<1>4. l - i \in Nat
  BY <1>0, <1>1
<1>5. 0 .. l - i \subseteq T
  <2> HIDE DEF T
  <2> QED BY <1>2, <1>3, <1>4, BoundedInduction
<1>6. j - i \in 0 .. l - i /\ i + (j - i) = j /\ i \in 0 .. l /\ j \in 0 .. l
  BY <1>0, <1>1
<1>7. base[i] <= base[j]
  BY <1>5, <1>6
<1> QED BY <1>1, <1>6, <1>7 DEF base

LEMMA OneCall ==
  ASSUME NEW prog, IsSequence(prog), NEW n, NEW i \in 1 .. Len(prog), NEW j \in 1 .. Len(prog),
         NEW k, k \in Between(prog, n, i), k \in Between(prog, n, j)
  PROVE  i = j
<1>0. Len(prog) \in Nat
  BY BaseIs
<1>1. ASSUME NEW a \in 1 .. Len(prog), NEW b \in 1 .. Len(prog), a < b,
             k \in Between(prog, n, a), k \in Between(prog, n, b)
      PROVE  FALSE
  <2>1. a \in 0 .. Len(prog) /\ b - 1 \in a .. Len(prog) /\ b - 1 \in 0 .. Len(prog)
        /\ a - 1 \in 0 .. Len(prog) /\ b \in b - 1 .. Len(prog) /\ a \in a-1 .. Len(prog)
    BY <1>0, <1>1
  <2>2. /\ Base(prog, n)[a] <= Base(prog, n)[b-1]
        /\ Base(prog, n)[a] \in Nat /\ Base(prog, n)[b-1] \in Nat
    BY <2>1, BaseRises
  <2>3. Base(prog, n)[b] \in Nat
    BY <2>1, BaseRises
  <2>4. Base(prog, n)[a-1] \in Nat
    BY <2>1, BaseRises
  <2>5. k <= Base(prog, n)[a] /\ Base(prog, n)[b-1] + 1 <= k /\ k \in Int
    BY <1>1, <2>2, <2>3, <2>4 DEF Between
  <2> QED BY <2>2, <2>5
<1>2. i < j \/ j < i \/ i = j
  OBVIOUS
<1> QED BY <1>1, <1>2

LEMMA PartOfCall ==
  ASSUME NEW prog, IsSequence(prog), NEW n, NEW st \in Nat, st < Len(prog),
         NEW j \in 1 .. Parts(prog[st+1], n), NEW k, k = Base(prog, n)[st] + j
  PROVE  /\ st + 1 \in 1 .. Len(prog) /\ k \in Nat \ {0}
         /\ k \in Between(prog, n, st + 1) /\ k - Base(prog, n)[(st + 1) - 1] = j
<1>1. st + 1 \in 1 .. Len(prog) /\ st \in 0 .. Len(prog) /\ (st + 1) - 1 = st
  BY BaseIs
<1>2. Base(prog, n)[st] \in Nat /\ Base(prog, n)[st+1] = Base(prog, n)[st] + Parts(prog[st+1], n)
  BY <1>1, BaseIs DEF Places
<1>3. Parts(prog[st+1], n) \in Nat
  BY PartsTyped
<1> QED BY <1>1, <1>2, <1>3 DEF Between
-----------------------------------------------------------------------------
(***************************************************************************)
(* The inductive invariant.  Each entry of a log is the part of the call   *)
(* and of the node that its place says, a node is as far in its log as its *)
(* program counter says, and its dataset is as far as that.  Parameters    *)
(* take the place of the variables, so that what is stated of two states   *)
(* is stated of their values.                                              *)
(***************************************************************************)
Broadcasts == {"initialize_all", "initialize", "bsp_broadcast"}
Reductions == {"reduce_all", "reduce"}
ListOf(c) == IF c.call = "reduce_all" THEN reduce_list ELSE <<c.slot>>

(* What a node waits for, the parts it has posted in the call by then, and *)
(* the calls in which it waits for that.                                   *)
Offset(at) ==
  IF at \in {"data_pos", "size", "sizes", "sync", "fold"} THEN 1
  ELSE IF at \in {"words", "bytes", "elements", "combine"} THEN 2 ELSE 0
Within(c, at, n) ==
  /\ at \in {"data_pos", "words"} => c.call = "initialize_all" /\ c.master >= 0 /\ n # 1
  /\ at \in {"size", "bytes"} => c.call \in {"initialize", "bsp_broadcast"} /\ c.master >= 0 /\ n # 1
  /\ at = "reduced" => c.call = "reduce_all" \/ (c.call = "reduce" /\ c.global /\ n # 1)
  /\ at \in {"sizes", "elements", "combine"} =>
       (c.call = "reduce_all" \/ (c.call = "reduce" /\ c.global)) /\ n # 1
  /\ at \in {"running", "sync"} => c.call = "superstep"
  /\ at = "fold" => c.call = "bsp_fold" /\ n # 1
Situated(prog, n, st, at, len) ==
  /\ st \in 0 .. Len(prog)
  /\ at # "node" => st < Len(prog) /\ Within(prog[st+1], at, n)
  /\ len = Base(prog, n)[st] + Offset(at)

(* The part e that node q has in the first collective of call c; and entry *)
(* k of its log, as its part in the second.                                *)
First(c, e, q) ==
  /\ c.call = "superstep" => e.kind = "barrier" /\ e.root = -1 /\ e.count = 0
  /\ c.call \in Broadcasts => e.kind = "bcast" /\ e.root = c.master /\ e.count = 1
  /\ c.call \in Broadcasts /\ q = c.master => e.data \in Nat
  /\ c.call \in Reductions => e.kind = "allgather" /\ e.root = -1 /\ e.count = 2
  /\ c.call = "bsp_fold" => e.kind = "allgather" /\ e.root = -1 /\ e.count = 1 /\ e.data \in Value
SecondBcast(c, lg, k, q) ==
  /\ k - 1 \in 1 .. Len(lg[c.master])
  /\ lg[q][k].kind = "bcast" /\ lg[q][k].root = c.master
  /\ c.call = "initialize_all" =>
       /\ lg[q][k].count = lg[c.master][k-1].data + 1
       /\ q = c.master => Packed(lg[q][k].data, lg[c.master][k-1].data, initialize_list)
  /\ c.call # "initialize_all" =>
       lg[q][k].count = lg[c.master][k-1].data /\ lg[q][k].data \in Value
SecondGather(c, n, lg, k, q) ==
  /\ \A r \in 0 .. n-1 : k - 1 \in 1 .. Len(lg[r])
  /\ lg[q][k].kind = "allgather" /\ lg[q][k].root = -1
  /\ lg[q][k].count = [r \in 0 .. n-1 |-> lg[r][k-1].data[2]]
  /\ Block(lg[q][k].data, ListOf(c))
Meets(lg, n, c, j, k, q) ==
  /\ j = 1 => First(c, lg[q][k], q)
  /\ j = 2 /\ c.call \in Broadcasts => SecondBcast(c, lg, k, q)
  /\ j = 2 /\ c.call \in Reductions => SecondGather(c, n, lg, k, q)
Belongs(lg, prog, n, k, q) ==
  \E i \in 1 .. Len(prog) :
    k \in Between(prog, n, i) /\ Meets(lg, n, prog[i], k - Base(prog, n)[i-1], k, q)

(* The dataset d of node q, which has posted k parts. *)
Stored(lg, d, c, at, k, q) ==
  /\ IsDataset(d)
  /\ at # "words" => Apart(d)
  /\ at = "data_pos" /\ q = c.master =>
       Laid(d, initialize_list, Len(initialize_list)) /\ lg[q][k].data = d.pos
  /\ at = "words" =>
       k - 1 \in 1 .. Len(lg[c.master]) /\ d.pos = lg[c.master][k-1].data /\ d.pos + 1 <= d.size
  /\ at = "sizes" => Laid(d, ListOf(c), Len(ListOf(c)))

Suitable(prog, n) ==
  /\ IsSequence(prog) /\ n \in Nat \ {0}
  /\ \A i \in 1 .. Len(prog) :
       /\ prog[i] \in NodeCalls /\ prog[i].master < n
       /\ prog[i].call = "bsp_broadcast" => prog[i].master >= 0
Family(f, n) == f = [q \in 0 .. n-1 |-> f[q]]
Matched(lg, prog, n) ==
  \A q \in 0 .. n-1 : IsSequence(lg[q]) /\ \A k \in 1 .. Len(lg[q]) : Belongs(lg, prog, n, k, q)
Along(prog, n, st, at, lg, dd) ==
  \A q \in 0 .. n-1 :
    /\ Situated(prog, n, st[q], at[q], Len(lg[q]))
    /\ Stored(lg, dd[q], prog[st[q]+1], at[q], Len(lg[q]), q)
Core(prog, n, st, at, lg, dd) ==
  /\ Suitable(prog, n)
  /\ Family(st, n) /\ Family(at, n) /\ Family(lg, n) /\ Family(dd, n)
  /\ Matched(lg, prog, n) /\ Along(prog, n, st, at, lg, dd)

(* The logs only grow, and what is said of their entries stays true. *)
Extends(new, lg, n) ==
  \A q \in 0 .. n-1 :
    /\ Len(lg[q]) \in Nat /\ Len(new[q]) \in Nat /\ Len(lg[q]) <= Len(new[q])
    /\ \A k \in 1 .. Len(lg[q]) : new[q][k] = lg[q][k]

LEMMA CallTyped ==
  ASSUME NEW prog, NEW n, Suitable(prog, n), NEW i \in 1 .. Len(prog)
  PROVE  /\ prog[i] \in NodeCalls /\ prog[i].master \in Int /\ prog[i].master < n
         /\ prog[i].slot \in Named /\ prog[i].global \in BOOLEAN
         /\ prog[i].call \in {"superstep", "bsp_fold"} \union Broadcasts \union Reductions
         /\ n \in Nat \ {0}
<1>1. prog[i] \in NodeCalls /\ prog[i].master < n /\ n \in Nat \ {0}
  BY DEF Suitable
<1> QED BY <1>1 DEF NodeCalls, Named, Broadcasts, Reductions

(* A call has a second part only if it has a master or all nodes gather. *)
LEMMA SecondPart ==
  ASSUME NEW prog, NEW n, Suitable(prog, n), NEW i \in 1 .. Len(prog), 2 <= Parts(prog[i], n)
  PROVE  /\ n # 1
         /\ \/ prog[i].call \in Broadcasts /\ prog[i].master \in 0 .. n-1
            \/ prog[i].call \in Reductions
<1>1. /\ prog[i].call \in {"superstep", "bsp_fold"} \union Broadcasts \union Reductions
      /\ prog[i].master \in Int /\ prog[i].master < n /\ n \in Nat \ {0}
      /\ prog[i].call = "bsp_broadcast" => prog[i].master >= 0
  BY CallTyped DEF Suitable
<1>2. prog[i].call \notin {"superstep", "bsp_fold"}
  BY SMT DEF Parts
<1>3. n # 1
  BY <1>2, SMT DEF Parts
<1>4. prog[i].call \in {"initialize_all", "initialize"} => prog[i].master >= 0
  BY <1>2, SMT DEF Parts
<1> QED BY <1>1, <1>2, <1>3, <1>4 DEF Broadcasts, Reductions

LEMMA ExtendsAt ==
  ASSUME NEW n, NEW lg, NEW new, Extends(new, lg, n), NEW q \in 0 .. n-1, NEW k \in 1 .. Len(lg[q])
  PROVE  new[q][k] = lg[q][k] /\ k \in 1 .. Len(new[q])
BY DEF Extends

LEMMA BelongsStays ==
  ASSUME NEW prog, NEW n, Suitable(prog, n), NEW lg, NEW new, Extends(new, lg, n),
         NEW q \in 0 .. n-1, NEW k \in 1 .. Len(lg[q]), Belongs(lg, prog, n, k, q)
  PROVE  Belongs(new, prog, n, k, q)
<1>1. PICK i \in 1 .. Len(prog) :
        k \in Between(prog, n, i) /\ Meets(lg, n, prog[i], k - Base(prog, n)[i-1], k, q)
  BY DEF Belongs
<1> DEFINE c == prog[i]
           j == k - Base(prog, n)[i-1]
           m == c.master
<1>2. new[q][k] = lg[q][k]
  BY DEF Extends
<1>3. ASSUME j = 2 PROVE 2 <= Parts(c, n)
  <2>1. IsSequence(prog) /\ i - 1 \in 0 .. Len(prog) /\ i \in i - 1 .. Len(prog)
    BY BaseIs DEF Suitable
  <2>2. Base(prog, n)[i-1] \in Nat /\ Base(prog, n)[i] \in Nat
    BY <2>1, BaseRises
  <2>3. Base(prog, n)[i] = Base(prog, n)[i-1] + Parts(prog[i], n)
    BY <2>1, BaseIs DEF Places
  <2>4. Parts(c, n) \in Nat
    BY PartsTyped
  <2>5. k <= Base(prog, n)[i] /\ k \in Int
    BY <1>1, <2>2 DEF Between
  <2> QED BY <1>3, <2>2, <2>3, <2>4, <2>5
<1> HIDE DEF c, j
<1>4. Meets(lg, n, c, j, k, q)
  BY <1>1 DEF c, j
<1>5. j = 1 => First(c, new[q][k], q)
  BY <1>2, <1>4 DEF Meets
<1>6. ASSUME j = 2, c.call \in Broadcasts PROVE SecondBcast(c, new, k, q)
  <2>1. SecondBcast(c, lg, k, q)
    BY <1>4, <1>6 DEF Meets
  <2>2. m \in 0 .. n-1
    <3>1. 2 <= Parts(c, n)
      BY <1>3, <1>6
    <3> QED BY <1>6, <3>1, SecondPart DEF c, Broadcasts, Reductions
  <2>3. new[m][k-1] = lg[m][k-1] /\ k - 1 \in 1 .. Len(new[m])
    <3>1. k - 1 \in 1 .. Len(lg[m])
      BY <2>1 DEF SecondBcast
    <3> QED BY <2>2, <3>1, ExtendsAt
  <2> QED BY <1>2, <2>1, <2>3 DEF SecondBcast
<1>7. ASSUME j = 2, c.call \in Reductions PROVE SecondGather(c, n, new, k, q)
  <2>1. SecondGather(c, n, lg, k, q)
    BY <1>4, <1>7 DEF Meets
  <2>2. \A r \in 0 .. n-1 : new[r][k-1] = lg[r][k-1] /\ k - 1 \in 1 .. Len(new[r])
    <3>1. \A r \in 0 .. n-1 : k - 1 \in 1 .. Len(lg[r])
      BY <2>1 DEF SecondGather
    <3> QED BY <3>1, ExtendsAt
  <2>3. [r \in 0 .. n-1 |-> lg[r][k-1].data[2]] = [r \in 0 .. n-1 |-> new[r][k-1].data[2]]
    BY <2>2
  <2> QED BY <1>2, <2>1, <2>2, <2>3 DEF SecondGather
<1>8. Meets(new, n, c, j, k, q)
  BY <1>5, <1>6, <1>7 DEF Meets
<1> QED BY <1>1, <1>8 DEF Belongs, c, j

LEMMA StoredStays ==
  ASSUME NEW n, n \in Nat, NEW lg, NEW new, Extends(new, lg, n), NEW d, NEW c, NEW at,
         NEW q \in 0 .. n-1, NEW k, k = Len(lg[q]), Stored(lg, d, c, at, k, q),
         at = "words" => c.master \in 0 .. n-1, at = "data_pos" => k # 0
  PROVE  Stored(new, d, c, at, k, q)
<1>1. at = "data_pos" => new[q][k] = lg[q][k]
  <2>1. k \in Nat
    BY DEF Extends
  <2> QED BY <2>1 DEF Extends
<1>2. ASSUME at = "words" PROVE /\ new[c.master][k-1] = lg[c.master][k-1]
                                /\ k - 1 \in 1 .. Len(new[c.master])
  <2>1. k - 1 \in 1 .. Len(lg[c.master])
    BY <1>2 DEF Stored
  <2> QED BY <1>2, <2>1, ExtendsAt
<1> QED BY <1>1, <1>2 DEF Stored
(* What a node knows of the call it is in. *)
LEMMA InCall ==
  ASSUME NEW prog, NEW n, NEW st, NEW at, NEW lg, NEW dd, Core(prog, n, st, at, lg, dd),
         NEW p \in 0 .. n-1, at[p] # "node"
  PROVE  /\ st[p] \in Nat /\ st[p] + 1 \in 1 .. Len(prog) /\ st[p] < Len(prog)
         /\ Within(prog[st[p]+1], at[p], n)
         /\ Len(lg[p]) = Base(prog, n)[st[p]] + Offset(at[p])
         /\ Base(prog, n)[st[p]] \in Nat /\ IsSequence(lg[p]) /\ Len(lg[p]) \in Nat
<1>1. Situated(prog, n, st[p], at[p], Len(lg[p])) /\ IsSequence(lg[p]) /\ IsSequence(prog)
  BY DEF Core, Along, Matched, Suitable
<1>2. Len(prog) \in Nat
  BY <1>1, BaseIs
<1>3. /\ st[p] \in Nat /\ st[p] \in 0 .. Len(prog) /\ st[p] + 1 \in 1 .. Len(prog) /\ st[p] < Len(prog)
      /\ Within(prog[st[p]+1], at[p], n)
      /\ Len(lg[p]) = Base(prog, n)[st[p]] + Offset(at[p])
  BY <1>1, <1>2 DEF Situated
<1>4. Base(prog, n)[st[p]] \in Nat
  BY <1>1, <1>3, BaseIs DEF Places
<1>5. Len(lg[p]) \in Nat
  BY <1>1 DEF IsSequence
<1> QED BY <1>1, <1>3, <1>4, <1>5

(* A call has all the parts in which a node can be. *)
LEMMA OffsetIs ==
  ASSUME NEW c, NEW at, NEW n, Within(c, at, n)
  PROVE  Offset(at) \in 0 .. Parts(c, n)
<1>1. CASE at \in {"data_pos", "words"}
  <2>1. c.call = "initialize_all" /\ c.master >= 0 /\ n # 1
    BY <1>1 DEF Within
  <2> QED BY <1>1, <2>1 DEF Offset, Parts
<1>2. CASE at \in {"size", "bytes"}
  <2>1. c.call \in {"initialize", "bsp_broadcast"} /\ c.master >= 0 /\ n # 1
    BY <1>2 DEF Within
  <2> QED BY <1>2, <2>1 DEF Offset, Parts
<1>3. CASE at \in {"sizes", "elements", "combine"}
  <2>1. (c.call = "reduce_all" \/ (c.call = "reduce" /\ c.global)) /\ n # 1
    BY <1>3 DEF Within
  <2> QED BY <1>3, <2>1 DEF Offset, Parts
<1>4. CASE at = "sync"
  BY <1>4 DEF Offset, Parts, Within
<1>5. CASE at = "fold"
  BY <1>5 DEF Offset, Parts, Within
<1>6. CASE at \notin {"data_pos", "words", "size", "bytes", "sizes", "elements", "combine", "sync", "fold"}
  <2>1. Offset(at) = 0
    BY <1>6 DEF Offset
  <2>2. Parts(c, n) \in Nat
    BY PartsTyped
  <2> QED BY <2>1, <2>2
<1> QED BY <1>1, <1>2, <1>3, <1>4, <1>5, <1>6

(* The entries it waits for are the parts the others have in this call.    *)
LEMMA PartIs ==
  ASSUME NEW prog, NEW n, NEW st, NEW at, NEW lg, NEW dd, Core(prog, n, st, at, lg, dd),
         NEW p \in 0 .. n-1, at[p] # "node", Offset(at[p]) # 0,
         NEW q \in 0 .. n-1, Len(lg[q]) >= Len(lg[p])
  PROVE  /\ Meets(lg, n, prog[st[p]+1], Offset(at[p]), Len(lg[p]), q)
         /\ Len(lg[p]) \in 1 .. Len(lg[q]) /\ Len(lg[q]) \in Nat
<1> DEFINE k == Len(lg[p])
           j == Offset(at[p])
           i == st[p] + 1
<1>1. /\ st[p] \in Nat /\ i \in 1 .. Len(prog) /\ st[p] < Len(prog) /\ Within(prog[i], at[p], n)
      /\ k = Base(prog, n)[st[p]] + j /\ Base(prog, n)[st[p]] \in Nat
  BY InCall
<1>2. j \in 1 .. Parts(prog[i], n) /\ Parts(prog[i], n) \in Nat
  <2>1. j \in 0 .. Parts(prog[i], n)
    BY <1>1, OffsetIs
  <2>2. Parts(prog[i], n) \in Nat
    BY PartsTyped
  <2> HIDE DEF i
  <2> QED BY <2>1, <2>2
<1>3. IsSequence(prog) /\ IsSequence(lg[q]) /\ \A l \in 1 .. Len(lg[q]) : Belongs(lg, prog, n, l, q)
  BY DEF Core, Matched, Suitable
<1>4. Len(lg[q]) \in Nat
  BY <1>3 DEF IsSequence
<1> HIDE DEF k, j
<1>5. k \in Nat \ {0} /\ k \in Between(prog, n, i) /\ k - Base(prog, n)[i - 1] = j
  <2> DEFINE s == st[p]
  <2>1. s \in Nat /\ s < Len(prog) /\ j \in 1 .. Parts(prog[s+1], n) /\ k = Base(prog, n)[s] + j
    BY <1>1, <1>2
  <2> HIDE DEF s
  <2>2. /\ k \in Nat \ {0} /\ k \in Between(prog, n, s + 1) /\ k - Base(prog, n)[(s + 1) - 1] = j
    BY <1>3, <2>1, PartOfCall
  <2> QED BY <2>2 DEF s
<1>6. k \in 1 .. Len(lg[q])
  BY <1>4, <1>5 DEF k
<1>7. PICK h \in 1 .. Len(prog) :
        k \in Between(prog, n, h) /\ Meets(lg, n, prog[h], k - Base(prog, n)[h-1], k, q)
  BY <1>3, <1>6 DEF Belongs
<1>8. h = i
  <2> HIDE DEF i
  <2> QED BY <1>1, <1>3, <1>5, <1>7, OneCall
<1>9. Meets(lg, n, prog[i], j, k, q)
  BY <1>5, <1>7, <1>8
<1> QED BY <1>4, <1>6, <1>9 DEF j, k

(* A step of node p that posts nothing. *)
LEMMA Stays ==
  ASSUME NEW prog, NEW n, NEW st, NEW at, NEW lg, NEW dd, Core(prog, n, st, at, lg, dd),
         NEW p \in 0 .. n-1, NEW s2, NEW a2, NEW d2,
         Situated(prog, n, s2, a2, Len(lg[p])), Stored(lg, d2, prog[s2+1], a2, Len(lg[p]), p)
  PROVE  Core(prog, n, [st EXCEPT ![p] = s2], [at EXCEPT ![p] = a2], lg, [dd EXCEPT ![p] = d2])
<1> DEFINE st2 == [st EXCEPT ![p] = s2]
           at2 == [at EXCEPT ![p] = a2]
           dd2 == [dd EXCEPT ![p] = d2]
<1>1. Suitable(prog, n) /\ Family(lg, n) /\ Matched(lg, prog, n)
  BY DEF Core
<1>2. /\ Family(st2, n) /\ Family(at2, n) /\ Family(dd2, n)
      /\ st2[p] = s2 /\ at2[p] = a2 /\ dd2[p] = d2
      /\ \A q \in 0 .. n-1 : q # p => st2[q] = st[q] /\ at2[q] = at[q] /\ dd2[q] = dd[q]
  BY DEF Core, Family
<1> HIDE DEF st2, at2, dd2
<1>3. ASSUME NEW q \in 0 .. n-1
      PROVE  /\ Situated(prog, n, st2[q], at2[q], Len(lg[q]))
             /\ Stored(lg, dd2[q], prog[st2[q]+1], at2[q], Len(lg[q]), q)
  <2>1. CASE q = p
    BY <1>2, <2>1
  <2>2. CASE q # p
    <3>1. /\ Situated(prog, n, st[q], at[q], Len(lg[q]))
          /\ Stored(lg, dd[q], prog[st[q]+1], at[q], Len(lg[q]), q)
      BY DEF Core, Along
    <3> QED BY <1>2, <2>2, <3>1
  <2> QED BY <2>1, <2>2
<1>4. Along(prog, n, st2, at2, lg, dd2)
  BY <1>3 DEF Along
<1>5. Core(prog, n, st2, at2, lg, dd2)
  BY <1>1, <1>2, <1>4 DEF Core
<1> QED BY <1>5 DEF st2, at2, dd2

(* A node posts a part. *)
Appended(new, lg, p, e) == new = [lg EXCEPT ![p] = Append(@, e)]

LEMMA Posted ==
  ASSUME NEW prog, NEW n, NEW lg, Family(lg, n), Matched(lg, prog, n), NEW p \in 0 .. n-1, NEW e,
         NEW new, Appended(new, lg, p, e)
  PROVE  /\ Extends(new, lg, n) /\ Family(new, n)
         /\ IsSequence(new[p]) /\ Len(lg[p]) \in Nat
         /\ Len(new[p]) = Len(lg[p]) + 1 /\ new[p][Len(lg[p]) + 1] = e
         /\ \A q \in 0 .. n-1 : q # p => new[q] = lg[q]
<1>1. \A q \in 0 .. n-1 : IsSequence(lg[q])
  BY DEF Matched
<1>2. \A q \in 0 .. n-1 : Len(lg[q]) \in Nat
  BY <1>1 DEF IsSequence
<1>3. Family(new, n) /\ new[p] = Append(lg[p], e) /\ \A q \in 0 .. n-1 : q # p => new[q] = lg[q]
  BY DEF Family, Appended
<1>4. /\ IsSequence(new[p]) /\ Len(new[p]) = Len(lg[p]) + 1 /\ new[p][Len(lg[p]) + 1] = e
      /\ \A k \in 1 .. Len(lg[p]) : new[p][k] = lg[p][k]
  BY <1>1, <1>3, AppendToSequence
<1>5. ASSUME NEW q \in 0 .. n-1
      PROVE  /\ Len(lg[q]) \in Nat /\ Len(new[q]) \in Nat /\ Len(lg[q]) <= Len(new[q])
             /\ \A k \in 1 .. Len(lg[q]) : new[q][k] = lg[q][k]
  <2>1. CASE q = p
    BY <1>2, <1>4, <2>1
  <2>2. CASE q # p
    <3>1. Len(lg[q]) \in Nat /\ new[q] = lg[q]
      BY <1>2, <1>3, <2>2
    <3> QED BY <3>1
  <2> QED BY <2>1, <2>2
<1>6. Extends(new, lg, n)
  BY <1>5 DEF Extends
<1> QED BY <1>2, <1>3, <1>4, <1>6

LEMMA Posts ==
  ASSUME NEW prog, NEW n, NEW st, NEW at, NEW lg, NEW dd, Core(prog, n, st, at, lg, dd),
         NEW p \in 0 .. n-1, NEW e, NEW new, Appended(new, lg, p, e),
         NEW a2, NEW d2, st[p] < Len(prog), Within(prog[st[p]+1], a2, n),
         Offset(a2) = Offset(at[p]) + 1,
         Meets(new, n, prog[st[p]+1], Offset(a2), Len(lg[p]) + 1, p),
         Stored(new, d2, prog[st[p]+1], a2, Len(lg[p]) + 1, p)
  PROVE  Core(prog, n, st, [at EXCEPT ![p] = a2], new, [dd EXCEPT ![p] = d2])
<1> DEFINE at2 == [at EXCEPT ![p] = a2]
           dd2 == [dd EXCEPT ![p] = d2]
           k == Len(lg[p]) + 1
           c == prog[st[p]+1]
           j == Offset(a2)
<1>1. Suitable(prog, n) /\ Family(lg, n) /\ Family(st, n) /\ Matched(lg, prog, n) /\ IsSequence(prog)
  BY DEF Core, Suitable
<1>2. /\ Extends(new, lg, n) /\ Family(new, n)
      /\ IsSequence(new[p]) /\ Len(lg[p]) \in Nat
      /\ Len(new[p]) = k /\ new[p][k] = e
      /\ \A q \in 0 .. n-1 : q # p => new[q] = lg[q]
  BY <1>1, Posted
<1>3. /\ Family(at2, n) /\ Family(dd2, n) /\ at2[p] = a2 /\ dd2[p] = d2
      /\ \A q \in 0 .. n-1 : q # p => at2[q] = at[q] /\ dd2[q] = dd[q]
  BY DEF Core, Family
<1> HIDE DEF at2, dd2
<1>4. Situated(prog, n, st[p], at[p], Len(lg[p])) /\ Len(prog) \in Nat
  BY <1>1, BaseIs DEF Core, Along
<1>5. /\ st[p] \in 0 .. Len(prog) /\ st[p] + 1 \in 1 .. Len(prog) /\ st[p] \in Nat
      /\ Len(lg[p]) = Base(prog, n)[st[p]] + Offset(at[p])
  BY <1>4 DEF Situated
<1>6. Base(prog, n)[st[p]] \in Nat
  BY <1>1, <1>5, BaseIs DEF Places
<1>7. Offset(at[p]) \in Nat
  BY DEF Offset
<1>8. j \in 1 .. Parts(c, n) /\ k = Base(prog, n)[st[p]] + j
  <2>1. j \in 0 .. Parts(c, n) /\ Parts(c, n) \in Nat
    BY OffsetIs, PartsTyped
  <2> DEFINE b == Base(prog, n)[st[p]]
             o == Offset(at[p])
             most == Parts(c, n)
             len == Len(lg[p])
  <2>2. j = o + 1 /\ o \in Nat /\ b \in Nat /\ len = b + o
    BY <1>5, <1>6, <1>7
  <2>3. j \in 0 .. most /\ most \in Nat
    BY <2>1
  <2> HIDE DEF b, o, most, len, j
  <2>4. j \in 1 .. most /\ len + 1 = b + j
    BY <2>2, <2>3
  <2> QED BY <2>4 DEF b, most, len
<1>9. Situated(prog, n, st[p], a2, k)
  BY <1>5, <1>8 DEF Situated
<1>10. Belongs(new, prog, n, k, p)
  <2> HIDE DEF j, k
  <2>1. /\ st[p] + 1 \in 1 .. Len(prog) /\ k \in Between(prog, n, st[p] + 1)
        /\ k - Base(prog, n)[(st[p] + 1) - 1] = j
    BY <1>1, <1>5, <1>8, PartOfCall
  <2>2. Meets(new, n, prog[st[p]+1], j, k, p)
    BY DEF j, k
  <2> QED BY <2>1, <2>2 DEF Belongs
<1>11. ASSUME NEW q \in 0 .. n-1
       PROVE  IsSequence(new[q]) /\ \A l \in 1 .. Len(new[q]) : Belongs(new, prog, n, l, q)
  <2>0. IsSequence(lg[q]) /\ \A l \in 1 .. Len(lg[q]) : Belongs(lg, prog, n, l, q)
    BY <1>1 DEF Matched
  <2>1. \A l \in 1 .. Len(lg[q]) : Belongs(new, prog, n, l, q)
    BY <1>1, <1>2, <2>0, BelongsStays
  <2>2. CASE q = p
    <3>1. \A l \in 1 .. k : l = k \/ l \in 1 .. Len(lg[p])
      BY <1>2
    <3> QED BY <1>2, <1>10, <2>1, <2>2, <3>1
  <2>3. CASE q # p
    BY <1>2, <2>0, <2>1, <2>3
  <2> QED BY <2>2, <2>3
<1>12. ASSUME NEW q \in 0 .. n-1
       PROVE  /\ Situated(prog, n, st[q], at2[q], Len(new[q]))
              /\ Stored(new, dd2[q], prog[st[q]+1], at2[q], Len(new[q]), q)
  <2>1. CASE q = p
    BY <1>2, <1>3, <1>9, <2>1
  <2>2. CASE q # p
    <3>1. /\ Situated(prog, n, st[q], at[q], Len(lg[q]))
          /\ Stored(lg, dd[q], prog[st[q]+1], at[q], Len(lg[q]), q)
      BY DEF Core, Along
    <3>2. at[q] = "words" => prog[st[q]+1].master \in 0 .. n-1
      <4> SUFFICES ASSUME at[q] = "words" PROVE prog[st[q]+1].master \in 0 .. n-1
        OBVIOUS
      <4>1. Within(prog[st[q]+1], at[q], n) /\ st[q] + 1 \in 1 .. Len(prog)
        BY InCall
      <4>2. prog[st[q]+1].master >= 0
        BY <4>1 DEF Within
      <4>3. prog[st[q]+1].master \in Int /\ prog[st[q]+1].master < n /\ n \in Nat
        BY <1>1, <4>1, CallTyped
      <4> QED BY <4>2, <4>3
    <3>3. at[q] = "data_pos" => Len(lg[q]) # 0
      <4> SUFFICES ASSUME at[q] = "data_pos" PROVE Len(lg[q]) # 0
        OBVIOUS
      <4>1. Len(lg[q]) = Base(prog, n)[st[q]] + Offset(at[q]) /\ Base(prog, n)[st[q]] \in Nat
        BY InCall
      <4>2. Offset(at[q]) = 1
        BY DEF Offset
      <4> QED BY <4>1, <4>2
    <3>4. n \in Nat
      BY <1>1 DEF Suitable
    <3>5. Stored(new, dd[q], prog[st[q]+1], at[q], Len(lg[q]), q)
      BY <1>2, <3>1, <3>2, <3>3, <3>4, StoredStays
    <3> QED BY <1>2, <1>3, <2>2, <3>1, <3>5
  <2> QED BY <2>1, <2>2
<1>13. Matched(new, prog, n)
  BY <1>11 DEF Matched
<1>14. Along(prog, n, st, at2, new, dd2)
  BY <1>12 DEF Along
<1>15. Core(prog, n, st, at2, new, dd2)
  BY <1>1, <1>2, <1>3, <1>13, <1>14 DEF Core
<1> QED BY <1>15 DEF at2, dd2
-----------------------------------------------------------------------------
(* The invariant, of the variables. *)
Typed ==
  /\ processors \in Nat /\ nprocs \in Nat \ {0}
  /\ own \in [0 .. nprocs-1 -> Values]
  /\ slots \in [0 .. nprocs-1 -> [DOMAIN Kind -> [0 .. nprocs -> Value]]]
  /\ ctx \in [0 .. processors-1 -> Values]
  /\ ran \subseteq 0 .. processors-1
Inv == Typed /\ Core(program, nprocs, step, pc, log, ds)

LEMMA NodeHas ==
  ASSUME Inv, NEW p \in Node
  PROVE  /\ p \in 0 .. nprocs-1 /\ nprocs \in Nat \ {0} /\ p \in Nat
         /\ own[p] \in Values /\ \A s \in Slot : own[p][s] \in Value
         /\ IsDataset(ds[p]) /\ Len(log[p]) \in Nat
         /\ pc[p] # "words" => Apart(ds[p])
         /\ Family(step, nprocs) /\ Family(pc, nprocs) /\ Family(log, nprocs) /\ Family(ds, nprocs)
         /\ Suitable(program, nprocs) /\ Matched(log, program, nprocs) /\ IsSequence(log[p])
<1>1. /\ p \in 0 .. nprocs-1 /\ nprocs \in Nat \ {0}
      /\ own \in [0 .. nprocs-1 -> Values]
  BY DEF Inv, Typed, Node
<1>2. own[p] \in Values /\ p \in Nat
  BY <1>1
<1>3. \A s \in Slot : own[p][s] \in Value
  BY <1>2 DEF Values, Slot
<1>4. /\ Suitable(program, nprocs) /\ Matched(log, program, nprocs)
      /\ Along(program, nprocs, step, pc, log, ds)
      /\ Family(step, nprocs) /\ Family(pc, nprocs) /\ Family(log, nprocs) /\ Family(ds, nprocs)
  BY DEF Inv, Core
<1>5. Stored(log, ds[p], program[step[p]+1], pc[p], Len(log[p]), p) /\ IsSequence(log[p])
  BY <1>1, <1>4 DEF Along, Matched
<1>6. IsDataset(ds[p]) /\ (pc[p] # "words" => Apart(ds[p]))
  BY <1>5 DEF Stored
<1>7. Len(log[p]) \in Nat
  BY <1>5 DEF IsSequence
<1> QED BY <1>1, <1>2, <1>3, <1>4, <1>5, <1>6, <1>7

LEMMA CallHas ==
  ASSUME Inv, NEW p \in Node, step[p] < Len(program) \/ pc[p] # "node"
  PROVE  /\ step[p] \in Nat /\ step[p] + 1 \in 1 .. Len(program) /\ step[p] < Len(program)
         /\ Call(p) = program[step[p]+1]
         /\ Call(p).master \in Int /\ Call(p).master < nprocs
         /\ Call(p).slot \in Named /\ Call(p).slot \in Slot /\ Call(p).global \in BOOLEAN
         /\ Call(p).call \in {"superstep", "bsp_fold"} \union Broadcasts \union Reductions
         /\ Call(p).call = "bsp_broadcast" => Call(p).master >= 0
         /\ Within(Call(p), pc[p], nprocs)
         /\ Len(log[p]) = Base(program, nprocs)[step[p]] + Offset(pc[p])
<1>1. /\ p \in 0 .. nprocs-1 /\ Suitable(program, nprocs)
      /\ Situated(program, nprocs, step[p], pc[p], Len(log[p]))
  BY NodeHas DEF Inv, Core, Along
<1>2. Len(program) \in Nat
  BY <1>1, BaseIs DEF Suitable
<1>3. /\ step[p] \in Nat /\ step[p] + 1 \in 1 .. Len(program) /\ step[p] < Len(program)
      /\ Len(log[p]) = Base(program, nprocs)[step[p]] + Offset(pc[p])
  BY <1>1, <1>2 DEF Situated
<1>4. Call(p) = program[step[p]+1]
  BY DEF Call
<1>5. /\ Call(p).master \in Int /\ Call(p).master < nprocs
      /\ Call(p).slot \in Named /\ Call(p).global \in BOOLEAN
      /\ Call(p).call \in {"superstep", "bsp_fold"} \union Broadcasts \union Reductions
  BY <1>1, <1>3, <1>4, CallTyped
<1>6. Call(p).call = "bsp_broadcast" => Call(p).master >= 0
  BY <1>1, <1>3, <1>4 DEF Suitable
<1>7. Within(Call(p), pc[p], nprocs)
  <2>1. CASE pc[p] = "node"
    BY <2>1 DEF Within
  <2>2. CASE pc[p] # "node"
    BY <1>1, <1>4, <2>2 DEF Situated
  <2> QED BY <2>1, <2>2
<1>8. Call(p).slot \in Slot
  BY <1>5 DEF Named, Slot
<1> QED BY <1>3, <1>4, <1>5, <1>6, <1>7, <1>8

(* What a node may wait for with any dataset. *)
LEMMA StoredIdle ==
  ASSUME NEW lg, NEW d, NEW c, NEW at, NEW k, NEW q,
         IsDataset(d), Apart(d), at \notin {"words", "data_pos", "sizes"}
  PROVE  Stored(lg, d, c, at, k, q)
BY DEF Stored

LEMMA Finished ==
  ASSUME Inv, NEW p \in Node, step[p] < Len(program) \/ pc[p] # "node",
         Parts(Call(p), nprocs) = Offset(pc[p])
  PROVE  Situated(program, nprocs, step[p] + 1, "node", Len(log[p]))
<1>1. /\ step[p] \in Nat /\ step[p] + 1 \in 1 .. Len(program)
      /\ Call(p) = program[step[p]+1]
      /\ Len(log[p]) = Base(program, nprocs)[step[p]] + Offset(pc[p])
  BY CallHas
<1>2. IsSequence(program)
  BY NodeHas DEF Suitable
<1>3. /\ Base(program, nprocs)[step[p]+1]
           = Base(program, nprocs)[(step[p]+1) - 1] + Parts(program[step[p]+1], nprocs)
      /\ (step[p]+1) - 1 = step[p] /\ Len(program) \in Nat
      /\ Base(program, nprocs) \in [0 .. Len(program) -> Nat]
  BY <1>1, <1>2, BaseIs DEF Places
<1>4. Base(program, nprocs)[step[p]+1] = Len(log[p]) /\ Len(log[p]) \in Nat
  <2>1. Len(log[p]) \in Nat
    BY NodeHas
  <2> QED BY <1>1, <1>3, <2>1
<1>5. Offset("node") = 0
  BY DEF Offset
<1> QED BY <1>1, <1>3, <1>4, <1>5 DEF Situated

(* The kinds of steps: a call returns, a node goes on within its call, and *)
(* a node posts its part of the next collective.                           *)
Takes(p, d) == ds' = [ds EXCEPT ![p] = d]

LEMMA Returns ==
  ASSUME Inv, NEW p \in Node, step[p] < Len(program) \/ pc[p] # "node",
         Parts(Call(p), nprocs) = Offset(pc[p]),
         Done(p), NEW d, IsDataset(d), Apart(d), ds' = [ds EXCEPT ![p] = d],
         UNCHANGED args, UNCHANGED log
  PROVE  Core(program, nprocs, step, pc, log, ds)'
<1>1. /\ p \in 0 .. nprocs-1 /\ Core(program, nprocs, step, pc, log, ds)
      /\ step' = [step EXCEPT ![p] = step[p] + 1] /\ pc' = [pc EXCEPT ![p] = "node"]
  BY NodeHas DEF Inv, Done
<1>2. Situated(program, nprocs, step[p] + 1, "node", Len(log[p]))
  BY Finished
<1>3. Stored(log, d, program[(step[p] + 1) + 1], "node", Len(log[p]), p)
  BY StoredIdle
<1>4. Core(program, nprocs, [step EXCEPT ![p] = step[p] + 1], [pc EXCEPT ![p] = "node"], log,
           [ds EXCEPT ![p] = d])
  BY <1>1, <1>2, <1>3, Stays
<1>5. program' = program /\ nprocs' = nprocs /\ log' = log
  BY DEF args
<1> QED BY <1>1, <1>4, <1>5

LEMMA ReturnsSo ==
  ASSUME Inv, NEW p \in Node, step[p] < Len(program) \/ pc[p] # "node",
         Parts(Call(p), nprocs) = Offset(pc[p]), pc[p] # "words",
         Done(p), UNCHANGED args, UNCHANGED log, UNCHANGED ds
  PROVE  Core(program, nprocs, step, pc, log, ds)'
<1>1. IsDataset(ds[p]) /\ Apart(ds[p]) /\ Family(ds, nprocs) /\ p \in 0 .. nprocs-1
  BY NodeHas
<1>2. ds' = [ds EXCEPT ![p] = ds[p]]
  BY <1>1 DEF Family
<1> QED BY <1>1, <1>2, Returns

LEMMA GoesOn ==
  ASSUME Inv, NEW p \in Node, step[p] < Len(program) \/ pc[p] # "node", pc[p] # "words",
         NEW at, at \notin {"words", "data_pos", "sizes"}, Waits(p, at),
         Within(Call(p), at, nprocs), Offset(at) = Offset(pc[p]),
         UNCHANGED args, UNCHANGED log, UNCHANGED ds
  PROVE  Core(program, nprocs, step, pc, log, ds)'
<1>1. /\ p \in 0 .. nprocs-1 /\ Core(program, nprocs, step, pc, log, ds)
      /\ IsDataset(ds[p]) /\ Apart(ds[p]) /\ Family(ds, nprocs) /\ Family(step, nprocs)
  BY NodeHas DEF Inv
<1>2. Situated(program, nprocs, step[p], at, Len(log[p]))
  <2>1. Situated(program, nprocs, step[p], pc[p], Len(log[p]))
    BY <1>1 DEF Core, Along
  <2> QED BY <2>1, CallHas DEF Situated
<1>3. Stored(log, ds[p], program[step[p] + 1], at, Len(log[p]), p)
  BY <1>1, StoredIdle
<1>4. Core(program, nprocs, [step EXCEPT ![p] = step[p]], [pc EXCEPT ![p] = at], log,
           [ds EXCEPT ![p] = ds[p]])
  BY <1>1, <1>2, <1>3, Stays
<1>5. /\ program' = program /\ nprocs' = nprocs /\ log' = log /\ pc' = [pc EXCEPT ![p] = at]
      /\ ds' = [ds EXCEPT ![p] = ds[p]] /\ step' = [step EXCEPT ![p] = step[p]]
  BY <1>1 DEF args, Waits, Family
<1> QED BY <1>4, <1>5

LEMMA Contributes ==
  ASSUME Inv, NEW p \in Node, step[p] < Len(program) \/ pc[p] # "node",
         NEW at, Waits(p, at), Within(Call(p), at, nprocs), Offset(at) = Offset(pc[p]) + 1,
         NEW part, Post(p, part),
         Meets(log', nprocs, Call(p), Offset(at), Len(log[p]) + 1, p),
         NEW d, Takes(p, d), Stored(log', d, Call(p), at, Len(log[p]) + 1, p),
         UNCHANGED args
  PROVE  Core(program, nprocs, step, pc, log, ds)'
<1>1. /\ p \in 0 .. nprocs-1 /\ Core(program, nprocs, step, pc, log, ds)
      /\ Appended(log', log, p, part)
  BY NodeHas DEF Inv, Post, Appended
<1>2. step[p] < Len(program) /\ Call(p) = program[step[p]+1]
  BY CallHas
<1>3. Core(program, nprocs, step, [pc EXCEPT ![p] = at], log', [ds EXCEPT ![p] = d])
  <2>1. /\ Within(program[step[p]+1], at, nprocs)
        /\ Meets(log', nprocs, program[step[p]+1], Offset(at), Len(log[p]) + 1, p)
        /\ Stored(log', d, program[step[p]+1], at, Len(log[p]) + 1, p)
    BY <1>2
  <2> QED BY <1>1, <1>2, <2>1, Posts
<1>4. /\ program' = program /\ nprocs' = nprocs /\ step' = step /\ pc' = [pc EXCEPT ![p] = at]
      /\ ds' = [ds EXCEPT ![p] = d]
  BY DEF args, Waits, Takes
<1> QED BY <1>3, <1>4

LEMMA ContributesSo ==
  ASSUME Inv, NEW p \in Node, step[p] < Len(program) \/ pc[p] # "node", pc[p] # "words",
         NEW at, Waits(p, at), Within(Call(p), at, nprocs), Offset(at) = Offset(pc[p]) + 1,
         at \notin {"words", "data_pos", "sizes"},
         NEW part, Post(p, part),
         Meets(log', nprocs, Call(p), Offset(at), Len(log[p]) + 1, p),
         UNCHANGED args, UNCHANGED ds
  PROVE  Core(program, nprocs, step, pc, log, ds)'
<1>1. IsDataset(ds[p]) /\ Apart(ds[p]) /\ Family(ds, nprocs) /\ p \in 0 .. nprocs-1
  BY NodeHas
<1>2. Takes(p, ds[p])
  BY <1>1 DEF Family, Takes
<1>3. Stored(log', ds[p], Call(p), at, Len(log[p]) + 1, p)
  BY <1>1, StoredIdle
<1> QED BY <1>2, <1>3, Contributes

(* The new entry, and the older ones. *)
LEMMA PostHas ==
  ASSUME Inv, NEW p \in Node, NEW part, Post(p, part)
  PROVE  /\ log'[p][Len(log[p]) + 1] = part
         /\ \A q \in Node : \A k \in 1 .. Len(log[q]) : log'[q][k] = log[q][k] /\ k \in 1 .. Len(log'[q])
<1>1. /\ p \in 0 .. nprocs-1 /\ Family(log, nprocs) /\ Matched(log, program, nprocs)
      /\ Appended(log', log, p, part)
  BY NodeHas DEF Post, Appended
<1>2. Extends(log', log, nprocs) /\ log'[p][Len(log[p]) + 1] = part
  BY <1>1, Posted
<1>3. \A q \in 0 .. nprocs-1 : \A k \in 1 .. Len(log[q]) : log'[q][k] = log[q][k] /\ k \in 1 .. Len(log'[q])
  BY <1>2, ExtendsAt
<1> QED BY <1>2, <1>3 DEF Node

LEMMA TypesKept ==
  ASSUME Inv, UNCHANGED args
  PROVE  /\ UNCHANGED <<own, slots, ctx, ran>> => Typed'
         /\ own' \in [Node -> Values] /\ UNCHANGED <<slots, ctx, ran>> => Typed'
         /\ ctx' \in [Global -> Values] /\ UNCHANGED <<own, slots, ran>> => Typed'
         /\ own' \in [Node -> Values] /\ ctx' \in [Global -> Values] /\ UNCHANGED <<slots, ran>> => Typed'
<1>1. processors' = processors /\ nprocs' = nprocs
  BY DEF args
<1>2. /\ processors \in Nat /\ nprocs \in Nat \ {0}
      /\ own \in [0 .. nprocs-1 -> Values]
      /\ slots \in [0 .. nprocs-1 -> [DOMAIN Kind -> [0 .. nprocs -> Value]]]
      /\ ctx \in [0 .. processors-1 -> Values]
      /\ ran \subseteq 0 .. processors-1
  BY DEF Inv, Typed
<1> QED BY <1>1, <1>2, Zenon DEF Typed, Node, Global
-----------------------------------------------------------------------------
(* Each action. *)
LEMMA Offsets ==
  /\ Offset("node") = 0 /\ Offset("reduced") = 0 /\ Offset("running") = 0
  /\ Offset("data_pos") = 1 /\ Offset("size") = 1 /\ Offset("sizes") = 1 /\ Offset("sync") = 1
  /\ Offset("fold") = 1
  /\ Offset("words") = 2 /\ Offset("bytes") = 2 /\ Offset("elements") = 2 /\ Offset("combine") = 2
BY DEF Offset

LEMMA FirstMeets ==
  ASSUME NEW lg, NEW n, NEW c, NEW k, NEW q, First(c, lg[q][k], q)
  PROVE  Meets(lg, n, c, 1, k, q)
BY DEF Meets

LEMMA ChildrenTyped ==
  ASSUME Inv, NEW p \in Node, NEW which, NEW value \in Values, InitializeChildren(p, which, value)
  PROVE  ctx' \in [Global -> Values]
<1>1. ctx \in [Global -> Values]
  BY DEF Inv, Typed, Global
<1>2. ASSUME NEW c \in Global
      PROVE  [s \in Slot |-> IF c \in On(p) /\ s \in which THEN value[s] ELSE ctx[c][s]] \in Values
  <2>1. ctx[c] \in Values
    BY <1>1
  <2> QED BY <2>1 DEF Values, Slot
<1> QED BY <1>2 DEF InitializeChildren

LEMMA InitializeStep ==
  ASSUME Inv, NEW p \in Node, Initialize(p)
  PROVE  Inv'
<1> DEFINE m == Call(p).master
           s == Call(p).slot
<1>0. /\ pc[p] = "node" /\ step[p] < Len(program) /\ Call(p).call = "initialize"
      /\ UNCHANGED <<args, own, slots, ds, ran>> /\ UNCHANGED args
  BY DEF Initialize, Calls
<1>1. nprocs \in Nat \ {0} /\ own[p] \in Values /\ m \in Int /\ own[p][s] \in Value
  BY <1>0, NodeHas, CallHas
<1>2. CASE nprocs > 1 /\ m >= 0
  <2> DEFINE part == Bcast(m, 1, SerializedSize(own[p][s]))
  <2>1. Post(p, part) /\ Waits(p, "size") /\ UNCHANGED ctx
    BY <1>2 DEF Initialize
  <2>2. SerializedSize(own[p][s]) \in Nat
    BY <1>1, SizeTyped
  <2>3. First(Call(p), part, p)
    BY <1>0, <2>2 DEF First, Bcast, Broadcasts, Reductions
  <2> HIDE DEF part, m, s
  <2>4. log'[p][Len(log[p]) + 1] = part
    BY <2>1, PostHas
  <2>5. Meets(log', nprocs, Call(p), 1, Len(log[p]) + 1, p)
    BY <2>3, <2>4, FirstMeets
  <2>6. Within(Call(p), "size", nprocs)
    BY <1>0, <1>2 DEF Within, m
  <2>7. Core(program, nprocs, step, pc, log, ds)'
    BY <1>0, <2>1, <2>5, <2>6, Offsets, ContributesSo
  <2>8. Typed'
    BY <1>0, <2>1, TypesKept
  <2> QED BY <2>7, <2>8 DEF Inv
<1>3. CASE ~(nprocs > 1 /\ m >= 0)
  <2>1. InitializeChildren(p, {s}, own[p]) /\ Done(p) /\ UNCHANGED log
    BY <1>3 DEF Initialize
  <2>2. Parts(Call(p), nprocs) = 0
    BY <1>0, <1>1, <1>3 DEF Parts
  <2> HIDE DEF m, s
  <2>3. Core(program, nprocs, step, pc, log, ds)'
    BY <1>0, <2>1, <2>2, Offsets, ReturnsSo
  <2>4. ctx' \in [Global -> Values]
    BY <1>1, <2>1, ChildrenTyped
  <2>5. Typed'
    BY <1>0, <2>4, TypesKept
  <2> QED BY <2>3, <2>5 DEF Inv
<1> QED BY <1>2, <1>3

LEMMA BroadcastStringStep ==
  ASSUME Inv, NEW p \in Node, BroadcastString(p)
  PROVE  Inv'
<1> DEFINE m == Call(p).master
           s == Call(p).slot
           part == Bcast(m, 1, SerializedSize(own[p][s]))
<1>0. /\ pc[p] = "node" /\ step[p] < Len(program) /\ Call(p).call = "bsp_broadcast" /\ nprocs > 1
      /\ Post(p, part) /\ Waits(p, "size")
      /\ UNCHANGED <<own, slots, ctx, ran>> /\ UNCHANGED args /\ UNCHANGED ds
  BY DEF BroadcastString, Calls
<1>1. nprocs \in Nat \ {0} /\ m \in Int /\ m >= 0 /\ own[p][s] \in Value
  BY <1>0, NodeHas, CallHas
<1>2. SerializedSize(own[p][s]) \in Nat
  BY <1>1, SizeTyped
<1>3. First(Call(p), part, p)
  BY <1>0, <1>2 DEF First, Bcast, Broadcasts, Reductions
<1> HIDE DEF part, m, s
<1>4. log'[p][Len(log[p]) + 1] = part
  BY <1>0, PostHas
<1>5. Meets(log', nprocs, Call(p), 1, Len(log[p]) + 1, p)
  BY <1>3, <1>4, FirstMeets
<1>6. Within(Call(p), "size", nprocs)
  BY <1>0, <1>1 DEF Within, m
<1>7. Core(program, nprocs, step, pc, log, ds)'
  BY <1>0, <1>5, <1>6, Offsets, ContributesSo
<1>8. Typed'
  BY <1>0, TypesKept
<1> QED BY <1>7, <1>8 DEF Inv

LEMMA FoldStep ==
  ASSUME Inv, NEW p \in Node, Fold(p)
  PROVE  Inv'
<1> DEFINE s == Call(p).slot
           part == Gather(1, own[p][s])
<1>0. /\ pc[p] = "node" /\ step[p] < Len(program) /\ Call(p).call = "bsp_fold" /\ nprocs > 1
      /\ Post(p, part) /\ Waits(p, "fold")
      /\ UNCHANGED <<own, slots, ctx, ran>> /\ UNCHANGED args /\ UNCHANGED ds
  BY DEF Fold, Calls
<1>1. nprocs \in Nat \ {0} /\ own[p][s] \in Value
  BY <1>0, NodeHas, CallHas
<1>3. First(Call(p), part, p)
  BY <1>0, <1>1 DEF First, Gather, Broadcasts, Reductions
<1> HIDE DEF part, s
<1>4. log'[p][Len(log[p]) + 1] = part
  BY <1>0, PostHas
<1>5. Meets(log', nprocs, Call(p), 1, Len(log[p]) + 1, p)
  BY <1>3, <1>4, FirstMeets
<1>6. Within(Call(p), "fold", nprocs)
  BY <1>0, <1>1 DEF Within
<1>7. Core(program, nprocs, step, pc, log, ds)'
  BY <1>0, <1>5, <1>6, Offsets, ContributesSo
<1>8. Typed'
  BY <1>0, TypesKept
<1> QED BY <1>7, <1>8 DEF Inv

LEMMA EnterSyncStep ==
  ASSUME Inv, NEW p \in Node, EnterSync(p)
  PROVE  Inv'
<1>0. /\ pc[p] = "running" /\ Post(p, Barrier) /\ Waits(p, "sync")
      /\ UNCHANGED <<own, slots, ctx, ran>> /\ UNCHANGED args /\ UNCHANGED ds
  BY DEF EnterSync
<1>1. Within(Call(p), "running", nprocs)
  BY <1>0, CallHas
<1>2. Call(p).call = "superstep"
  BY <1>1 DEF Within
<1>3. First(Call(p), Barrier, p)
  BY <1>2 DEF First, Barrier, Broadcasts, Reductions
<1>4. log'[p][Len(log[p]) + 1] = Barrier
  BY <1>0, PostHas
<1>5. Meets(log', nprocs, Call(p), 1, Len(log[p]) + 1, p)
  BY <1>3, <1>4, FirstMeets
<1>6. Within(Call(p), "sync", nprocs)
  BY <1>2 DEF Within
<1>7. Core(program, nprocs, step, pc, log, ds)'
  BY <1>0, <1>5, <1>6, Offsets, ContributesSo
<1>8. Typed'
  BY <1>0, TypesKept
<1> QED BY <1>7, <1>8 DEF Inv

LEMMA ExecuteStep ==
  ASSUME Inv, NEW p \in Node, Execute(p)
  PROVE  Inv'
<1>0. /\ pc[p] = "node" /\ step[p] < Len(program) /\ Call(p).call = "superstep"
      /\ Waits(p, "running") /\ ran' = ran \ On(p)
      /\ UNCHANGED <<own, slots, ctx>> /\ UNCHANGED args /\ UNCHANGED ds /\ UNCHANGED log
  BY DEF Execute, Calls
<1>1. Within(Call(p), "running", nprocs)
  BY <1>0 DEF Within
<1>2. Core(program, nprocs, step, pc, log, ds)'
  BY <1>0, <1>1, Offsets, GoesOn
<1>3. Typed'
  BY <1>0 DEF Inv, Typed, args
<1> QED BY <1>2, <1>3 DEF Inv

LEMMA LeaveSyncStep ==
  ASSUME Inv, NEW p \in Node, LeaveSync(p)
  PROVE  Inv'
<1>0. /\ pc[p] = "sync" /\ Done(p)
      /\ UNCHANGED <<own, slots, ctx, ran>> /\ UNCHANGED args /\ UNCHANGED ds /\ UNCHANGED log
  BY DEF LeaveSync
<1>1. Within(Call(p), "sync", nprocs)
  BY <1>0, CallHas
<1>2. Parts(Call(p), nprocs) = 1
  BY <1>1 DEF Within, Parts
<1>3. Core(program, nprocs, step, pc, log, ds)'
  BY <1>0, <1>2, Offsets, ReturnsSo
<1>4. Typed'
  BY <1>0, TypesKept
<1> QED BY <1>3, <1>4 DEF Inv

LEMMA Level1AloneStep ==
  ASSUME Inv, NEW p \in Node, Level1Alone(p)
  PROVE  Inv'
<1>0. /\ pc[p] = "node" /\ step[p] < Len(program) /\ Call(p).call \in {"bsp_broadcast", "bsp_fold"}
      /\ nprocs = 1 /\ Done(p)
      /\ UNCHANGED <<own, slots, ctx, ran>> /\ UNCHANGED args /\ UNCHANGED ds /\ UNCHANGED log
  BY DEF Level1Alone, Calls
<1>2. Parts(Call(p), nprocs) = 0
  BY <1>0 DEF Parts
<1>3. Core(program, nprocs, step, pc, log, ds)'
  BY <1>0, <1>2, Offsets, ReturnsSo
<1>4. Typed'
  BY <1>0, TypesKept
<1> QED BY <1>3, <1>4 DEF Inv

LEMMA RunStepStep ==
  ASSUME Inv, NEW c \in Global, RunStep(c)
  PROVE  Inv'
<1>0. /\ ctx' = [ctx EXCEPT ![c] = [s \in Slot |-> Used(c, s, ctx[c][s])]]
      /\ ran' = ran \union {c} /\ program' = program /\ nprocs' = nprocs /\ processors' = processors
      /\ UNCHANGED <<step, pc, log, own, slots, ds>>
  BY DEF RunStep, args
<1>1. Core(program, nprocs, step, pc, log, ds)'
  BY <1>0 DEF Inv
<1>2. c \in Nat /\ ctx \in [Global -> Values]
  BY DEF Inv, Typed, Global
<1>3. \A s \in Slot : ctx[c][s] \in Value
  BY <1>2 DEF Values, Slot
<1>4. [s \in Slot |-> Used(c, s, ctx[c][s])] \in Values
  <2>1. \A s \in Slot : Used(c, s, ctx[c][s]) \in Value
    BY <1>2, <1>3, UsedTyped DEF Slot
  <2> QED BY <2>1 DEF Values, Slot
<1>5. ctx' \in [Global -> Values]
  BY <1>0, <1>2, <1>4
<1>6. Typed'
  BY <1>0, <1>5 DEF Inv, Typed, Global
<1> QED BY <1>1, <1>6 DEF Inv
LEMMA SecondBcastMeets ==
  ASSUME NEW lg, NEW n, NEW c, NEW k, NEW q, c.call \in Broadcasts, SecondBcast(c, lg, k, q)
  PROVE  Meets(lg, n, c, 2, k, q)
<1>1. c.call \notin Reductions
  BY DEF Broadcasts, Reductions
<1> QED BY <1>1 DEF Meets

LEMMA SecondGatherMeets ==
  ASSUME NEW lg, NEW n, NEW c, NEW k, NEW q, c.call \in Reductions, SecondGather(c, n, lg, k, q)
  PROVE  Meets(lg, n, c, 2, k, q)
<1>1. c.call \notin Broadcasts
  BY DEF Broadcasts, Reductions
<1> QED BY <1>1 DEF Meets

(* What a node reads is the others' part in the same collective. *)
LEMMA ArrivedIs ==
  ASSUME Inv, NEW p \in Node, pc[p] # "node", Offset(pc[p]) # 0, NEW q \in Node, Arrived(p, q)
  PROVE  /\ Meets(log, nprocs, Call(p), Offset(pc[p]), Len(log[p]), q)
         /\ Len(log[p]) \in 1 .. Len(log[q]) /\ Len(log[p]) \in Nat /\ Part(p, q) = log[q][Len(log[p])]
<1>1. /\ Core(program, nprocs, step, pc, log, ds) /\ p \in 0 .. nprocs-1 /\ q \in 0 .. nprocs-1
      /\ Len(log[q]) >= Len(log[p]) /\ Len(log[p]) \in Nat
  BY NodeHas DEF Inv, Arrived
<1>2. /\ Meets(log, nprocs, program[step[p]+1], Offset(pc[p]), Len(log[p]), q)
      /\ Len(log[p]) \in 1 .. Len(log[q])
  BY <1>1, PartIs
<1> QED BY <1>1, <1>2 DEF Call, Part

LEMMA OwnArrived ==
  ASSUME Inv, NEW p \in Node
  PROVE  Arrived(p, p)
BY NodeHas DEF Arrived

LEMMA BcastIs ==
  ASSUME Inv, NEW p \in Node, pc[p] \in {"data_pos", "size", "words", "bytes"}, BcastArrives(p),
         NEW m, m = Call(p).master
  PROVE  /\ m \in Node /\ Arrived(p, m) /\ FromRoot(p) = log[m][Len(log[p])].data
         /\ Call(p).call \in Broadcasts /\ nprocs # 1
         /\ pc[p] \in {"data_pos", "words"} <=> Call(p).call = "initialize_all"
         /\ Parts(Call(p), nprocs) = 2
         /\ pc[p] \in {"data_pos", "size"} => FromRoot(p) \in Nat
<1>1. pc[p] # "node" /\ Offset(pc[p]) \in {1, 2} /\ (pc[p] \in {"data_pos", "size"} <=> Offset(pc[p]) = 1)
  BY DEF Offset
<1>2. Within(Call(p), pc[p], nprocs) /\ m \in Int /\ m < nprocs /\ nprocs \in Nat \ {0}
  BY <1>1, CallHas, NodeHas
<1>3. /\ m >= 0 /\ nprocs # 1 /\ Call(p).call \in Broadcasts
      /\ (pc[p] \in {"data_pos", "words"} <=> Call(p).call = "initialize_all")
  BY <1>2 DEF Within, Broadcasts
<1>4. m \in Node
  BY <1>2, <1>3 DEF Node
<1>5. Part(p, p).root = m
  <2>1. Meets(log, nprocs, Call(p), Offset(pc[p]), Len(log[p]), p) /\ Part(p, p) = log[p][Len(log[p])]
    BY <1>1, OwnArrived, ArrivedIs
  <2>2. CASE Offset(pc[p]) = 1
    BY <1>3, <2>1, <2>2 DEF Meets, First
  <2>3. CASE Offset(pc[p]) = 2
    BY <1>3, <2>1, <2>3 DEF Meets, SecondBcast
  <2> QED BY <1>1, <2>2, <2>3
<1>6. Arrived(p, m) /\ FromRoot(p) = Part(p, m).data
  BY <1>5 DEF BcastArrives, FromRoot
<1>7. Meets(log, nprocs, Call(p), Offset(pc[p]), Len(log[p]), m) /\ Part(p, m) = log[m][Len(log[p])]
  BY <1>1, <1>4, <1>6, ArrivedIs
<1>8. ASSUME pc[p] \in {"data_pos", "size"} PROVE FromRoot(p) \in Nat
  <2>1. First(Call(p), log[m][Len(log[p])], m)
    BY <1>1, <1>7, <1>8 DEF Meets
  <2>2. log[m][Len(log[p])].data \in Nat
    BY <1>3, <2>1 DEF First
  <2> QED BY <1>6, <1>7, <2>2
<1>9. Parts(Call(p), nprocs) = 2
  BY <1>3 DEF Parts, Broadcasts
<1> QED BY <1>3, <1>4, <1>6, <1>7, <1>8, <1>9

LEMMA SendBytesStep ==
  ASSUME Inv, NEW p \in Node, SendBytes(p)
  PROVE  Inv'
<1> DEFINE m == Call(p).master
           k == Len(log[p]) + 1
           part == Bcast(m, FromRoot(p), own[p][Call(p).slot])
<1>0. /\ pc[p] = "size" /\ BcastArrives(p) /\ Post(p, part) /\ Waits(p, "bytes")
      /\ UNCHANGED <<own, slots, ctx, ran>> /\ UNCHANGED args /\ UNCHANGED ds
  BY DEF SendBytes
<1>1. /\ m \in Node /\ Arrived(p, m) /\ FromRoot(p) = log[m][Len(log[p])].data
      /\ Call(p).call \in Broadcasts /\ nprocs # 1 /\ Call(p).call # "initialize_all"
  BY <1>0, BcastIs
<1>2. own[p][Call(p).slot] \in Value
  BY <1>0, NodeHas, CallHas
<1>3. Len(log[p]) \in 1 .. Len(log[m]) /\ Len(log[p]) \in Nat
  BY <1>0, <1>1, Offsets, ArrivedIs
<1>4. /\ log'[p][k] = part
      /\ log'[m][Len(log[p])] = log[m][Len(log[p])] /\ Len(log[p]) \in 1 .. Len(log'[m])
  BY <1>0, <1>1, <1>3, PostHas
<1>5. SecondBcast(Call(p), log', k, p)
  <2>1. k - 1 = Len(log[p])
    BY <1>3
  <2>2. part.kind = "bcast" /\ part.root = m /\ part.count = FromRoot(p)
        /\ part.data = own[p][Call(p).slot]
    BY DEF Bcast
  <2> HIDE DEF k, part, m
  <2>3. /\ k - 1 \in 1 .. Len(log'[m]) /\ log'[m][k-1].data = FromRoot(p)
    BY <1>1, <1>4, <2>1
  <2>4. /\ log'[p][k].kind = "bcast" /\ log'[p][k].root = m
        /\ log'[p][k].count = log'[m][k-1].data /\ log'[p][k].data \in Value
    BY <1>2, <1>4, <2>2, <2>3
  <2> QED BY <1>1, <2>3, <2>4 DEF SecondBcast, m
<1> HIDE DEF part, m
<1>6. Meets(log', nprocs, Call(p), 2, k, p)
  BY <1>1, <1>5, SecondBcastMeets
<1>7. Within(Call(p), "bytes", nprocs)
  <2>1. Within(Call(p), "size", nprocs)
    BY <1>0, CallHas
  <2> QED BY <2>1 DEF Within
<1>8. Core(program, nprocs, step, pc, log, ds)'
  BY <1>0, <1>6, <1>7, Offsets, ContributesSo
<1>9. Typed'
  BY <1>0, TypesKept
<1> QED BY <1>8, <1>9 DEF Inv

LEMMA OwnTyped ==
  ASSUME Inv, NEW p \in Node, NEW v \in Values
  PROVE  [own EXCEPT ![p] = v] \in [Node -> Values]
BY DEF Inv, Typed, Node

LEMMA ReceiveBytesStep ==
  ASSUME Inv, NEW p \in Node, ReceiveBytes(p)
  PROVE  Inv'
<1> DEFINE m == Call(p).master
           s == Call(p).slot
           value == [own[p] EXCEPT ![s] = FromRoot(p)]
<1>0. /\ pc[p] = "bytes" /\ BcastArrives(p) /\ Done(p) /\ own' = [own EXCEPT ![p] = value]
      /\ Call(p).call = "initialize" => InitializeChildren(p, {s}, value)
      /\ Call(p).call # "initialize" => UNCHANGED ctx
      /\ UNCHANGED <<slots, ran>> /\ UNCHANGED args /\ UNCHANGED ds /\ UNCHANGED log
  BY DEF ReceiveBytes
<1>1. /\ m \in Node /\ Arrived(p, m) /\ FromRoot(p) = log[m][Len(log[p])].data
      /\ Call(p).call \in Broadcasts /\ Call(p).call # "initialize_all"
      /\ Parts(Call(p), nprocs) = 2
  BY <1>0, BcastIs
<1>2. Meets(log, nprocs, Call(p), 2, Len(log[p]), m)
  <2>1. Meets(log, nprocs, Call(p), Offset(pc[p]), Len(log[p]), m)
    BY <1>0, <1>1, Offsets, ArrivedIs
  <2> QED BY <1>0, <2>1, Offsets
<1>3. FromRoot(p) \in Value
  <2>1. SecondBcast(Call(p), log, Len(log[p]), m)
    BY <1>1, <1>2 DEF Meets
  <2> QED BY <1>1, <2>1 DEF SecondBcast
<1>4. value \in Values
  <2>1. own[p] \in Values
    BY NodeHas
  <2> QED BY <1>3, <2>1 DEF Values
<1> HIDE DEF value, m
<1>5. Core(program, nprocs, step, pc, log, ds)'
  BY <1>0, <1>1, Offsets, ReturnsSo
<1>6. own' \in [Node -> Values]
  BY <1>0, <1>4, OwnTyped
<1>7. ctx' \in [Global -> Values]
  <2>1. CASE Call(p).call = "initialize"
    BY <1>0, <1>4, <2>1, ChildrenTyped
  <2>2. CASE Call(p).call # "initialize"
    BY <1>0, <2>2 DEF Inv, Typed, Global
  <2> QED BY <2>1, <2>2
<1>8. Typed'
  BY <1>0, <1>6, <1>7, TypesKept
<1> QED BY <1>5, <1>8 DEF Inv

(* The values of the contexts of a node, and what it makes of them. *)
LEMMA ChildrenAre ==
  ASSUME Inv, NEW p \in Node, NEW s \in Slot
  PROVE  /\ procs_this_node(p) \in Nat
         /\ Children(p, s) \in Seq(Value) /\ Len(Children(p, s)) = procs_this_node(p)
<1> DEFINE here == procs_this_node(p)
           child(i) == CHOOSE c \in On(p) : LocalOf(processors, nprocs, c) = i-1
<1>1. /\ On(p) = Dealt(processors, nprocs, p) /\ processors \in Nat /\ nprocs \in Nat \ {0} /\ p \in Nat
      /\ ctx \in [Global -> Values] /\ On(p) \subseteq Global
  BY NodeHas DEF On, Global, Home, Dealt, Inv, Typed
<1>2. /\ here \in Nat
      /\ \A i \in 1 .. here : \E c \in On(p) : LocalOf(processors, nprocs, c) = i - 1
  BY <1>1, PlacesOfNode DEF procs_this_node
<1>3. ASSUME NEW i \in 1 .. here PROVE ctx[child(i)][s] \in Value
  <2>1. child(i) \in On(p)
    BY <1>2
  <2> HIDE DEF child
  <2>2. ctx[child(i)] \in Values
    BY <1>1, <2>1
  <2> QED BY <2>2 DEF Values, Slot
<1>4. Children(p, s) = [i \in 1 .. here |-> ctx[child(i)][s]]
  BY DEF Children
<1> HIDE DEF child, here
<1>5. Children(p, s) \in Seq(Value) /\ Len(Children(p, s)) = here
  BY <1>2, <1>3, <1>4, IsASeq
<1> QED BY <1>2, <1>5 DEF here

LEMMA CutsAre ==
  ASSUME NEW n \in Nat, NEW cut \in Cuts(n)
  PROVE  cut \in Nat \ {0} /\ (cut <= n \/ n = 0)
BY DEF Cuts

LEMMA ReduceLocalStep ==
  ASSUME Inv, NEW p \in Node, ReduceLocal(p)
  PROVE  Inv'
<1> DEFINE s == Call(p).slot
<1>0. /\ pc[p] = "node" /\ step[p] < Len(program) /\ Call(p).call = "reduce"
      /\ nprocs = 1 \/ ~Call(p).global
      /\ \E cut \in Cuts(procs_this_node(p)) :
           own' = [own EXCEPT ![p][s] = ReducedValue(s, @, Children(p, s), cut)]
      /\ Done(p)
      /\ UNCHANGED <<slots, ctx, ran>> /\ UNCHANGED args /\ UNCHANGED ds /\ UNCHANGED log
  BY DEF ReduceLocal, Calls
<1>1. s \in Slot /\ own[p] \in Values /\ own[p][s] \in Value
  BY <1>0, CallHas, NodeHas
<1>2. Parts(Call(p), nprocs) = 0
  BY <1>0 DEF Parts
<1>3. PICK cut \in Cuts(procs_this_node(p)) :
        own' = [own EXCEPT ![p][s] = ReducedValue(s, own[p][s], Children(p, s), cut)]
  BY <1>0
<1> HIDE DEF s
<1>4. ReducedValue(s, own[p][s], Children(p, s), cut) \in Value
  <2>1. /\ procs_this_node(p) \in Nat /\ Children(p, s) \in Seq(Value)
        /\ Len(Children(p, s)) = procs_this_node(p)
    BY <1>1, ChildrenAre
  <2>2. cut \in Nat \ {0} /\ (cut <= Len(Children(p, s)) \/ Len(Children(p, s)) = 0)
    BY <2>1, CutsAre
  <2> QED BY <1>1, <2>1, <2>2, ReducedTyped DEF Slot
<1>5. own' \in [Node -> Values]
  <2> DEFINE r == ReducedValue(s, own[p][s], Children(p, s), cut)
             v == [own[p] EXCEPT ![s] = r]
  <2>1. own' = [own EXCEPT ![p] = v]
    BY <1>3
  <2>2. v \in Values
    <3> HIDE DEF r
    <3> QED BY <1>1, <1>4 DEF Values, r
  <2> HIDE DEF v
  <2> QED BY <2>1, <2>2, OwnTyped
<1>6. Core(program, nprocs, step, pc, log, ds)'
  BY <1>0, <1>2, Offsets, ReturnsSo
<1>7. Typed'
  BY <1>0, <1>5, TypesKept
<1> QED BY <1>6, <1>7 DEF Inv

LEMMA ReduceNodeStep ==
  ASSUME Inv, NEW p \in Node, ReduceNode(p)
  PROVE  Inv'
<1>0. /\ pc[p] = "node" /\ step[p] < Len(program)
      /\ Call(p).call = "reduce_all" \/ (Call(p).call = "reduce" /\ nprocs > 1 /\ Call(p).global)
      /\ \E cut \in Cuts(procs_this_node(p)) : own' = [own EXCEPT ![p] = NodeValues(p, cut)]
      /\ Waits(p, "reduced")
      /\ UNCHANGED <<slots, ctx, ran>> /\ UNCHANGED args /\ UNCHANGED ds /\ UNCHANGED log
  BY DEF ReduceNode, Calls
<1>1. own[p] \in Values /\ \A s \in Slot : own[p][s] \in Value
  BY NodeHas
<1>2. PICK cut \in Cuts(procs_this_node(p)) : own' = [own EXCEPT ![p] = NodeValues(p, cut)]
  BY <1>0
<1>3. ASSUME NEW s \in Slot PROVE NodeValue(p, s, cut) \in Value
  <2>1. /\ procs_this_node(p) \in Nat /\ Children(p, s) \in Seq(Value)
        /\ Len(Children(p, s)) = procs_this_node(p)
    BY ChildrenAre
  <2>2. cut \in Nat \ {0} /\ (cut <= Len(Children(p, s)) \/ Len(Children(p, s)) = 0)
    BY <2>1, CutsAre
  <2>3. ReducedValue(s, own[p][s], Children(p, s), cut) \in Value
    BY <1>1, <2>1, <2>2, ReducedTyped DEF Slot
  <2>4. Neutral(s, own[p][s]) \in Value
    BY <1>1, NeutralTyped DEF Slot
  <2> QED BY <2>3, <2>4 DEF NodeValue
<1>4. NodeValues(p, cut) \in Values
  BY <1>1, <1>3 DEF NodeValues, Values, Slot
<1>5. own' \in [Node -> Values]
  BY <1>2, <1>4, OwnTyped
<1>6. Within(Call(p), "reduced", nprocs)
  BY <1>0 DEF Within
<1>7. Core(program, nprocs, step, pc, log, ds)'
  BY <1>0, <1>6, Offsets, GoesOn
<1>8. Typed'
  BY <1>0, <1>5, TypesKept
<1> QED BY <1>7, <1>8 DEF Inv

LEMMA FoldAllStep ==
  ASSUME Inv, NEW p \in Node, FoldAll(p)
  PROVE  Inv'
<1> DEFINE s == Call(p).slot
           all == [k \in 1 .. nprocs |-> Part(p, k - 1).data]
           r == FoldedFrom(s, all)
           v == [own[p] EXCEPT ![s] = r]
<1>0. /\ pc[p] = "fold" /\ AllArrive(p) /\ own' = [own EXCEPT ![p][s] = r] /\ Done(p)
      /\ UNCHANGED <<slots, ctx, ran>> /\ UNCHANGED args /\ UNCHANGED ds /\ UNCHANGED log
  BY DEF FoldAll
<1>1. /\ s \in Slot /\ own[p] \in Values /\ nprocs \in Nat \ {0}
      /\ Within(Call(p), "fold", nprocs)
  BY <1>0, CallHas, NodeHas
<1>2. Call(p).call = "bsp_fold" /\ nprocs # 1
  BY <1>1 DEF Within
<1>3. ASSUME NEW k \in 1 .. nprocs PROVE Part(p, k - 1).data \in Value
  <2>1. k - 1 \in Node
    BY <1>1 DEF Node
  <2>2. Arrived(p, k - 1)
    BY <1>0, <2>1 DEF AllArrive
  <2> DEFINE q == k - 1
  <2> HIDE DEF q
  <2>3. /\ Meets(log, nprocs, Call(p), Offset(pc[p]), Len(log[p]), q)
        /\ Part(p, q) = log[q][Len(log[p])]
    BY <1>0, <2>1, <2>2, Offsets, ArrivedIs DEF q
  <2>4. First(Call(p), log[q][Len(log[p])], q)
    BY <1>0, <2>3, Offsets DEF Meets
  <2>5. Part(p, q).data \in Value
    BY <1>2, <2>3, <2>4 DEF First
  <2> QED BY <2>5 DEF q
<1>4. all \in Seq(Value) /\ all # <<>>
  <2> DEFINE item(k) == Part(p, k - 1).data
  <2>1. \A k \in 1 .. nprocs : item(k) \in Value
    BY <1>3
  <2>2. all = [k \in 1 .. nprocs |-> item(k)]
    OBVIOUS
  <2> HIDE DEF item, all
  <2>3. all \in Seq(Value) /\ Len(all) = nprocs
    BY <1>1, <2>1, <2>2, IsASeq
  <2> QED BY <1>1, <2>3
<1> HIDE DEF all, s
<1>5. r \in Value
  BY <1>1, <1>4, FoldedFromTyped DEF Slot
<1> HIDE DEF r
<1>6. v \in Values
  BY <1>1, <1>5 DEF Values
<1>7. own' \in [Node -> Values]
  <2>1. own' = [own EXCEPT ![p] = v]
    BY <1>0
  <2> HIDE DEF v
  <2> QED BY <1>6, <2>1, OwnTyped
<1>8. Parts(Call(p), nprocs) = 1
  BY <1>2 DEF Parts
<1>9. Core(program, nprocs, step, pc, log, ds)'
  BY <1>0, <1>8, Offsets, ReturnsSo
<1>10. Typed'
  BY <1>0, <1>7, TypesKept
<1> QED BY <1>9, <1>10 DEF Inv
LEMMA DatasetIs ==
  ASSUME Inv, NEW p \in Node
  PROVE  Stored(log, ds[p], Call(p), pc[p], Len(log[p]), p)
<1>1. p \in 0 .. nprocs-1
  BY NodeHas
<1> QED BY <1>1 DEF Inv, Core, Along, Call

LEMMA InitializeAllStep ==
  ASSUME Inv, NEW p \in Node, InitializeAll(p)
  PROVE  Inv'
<1> DEFINE m == Call(p).master
           list == initialize_list
           k == Len(log[p]) + 1
<1>0. /\ pc[p] = "node" /\ step[p] < Len(program) /\ Call(p).call = "initialize_all"
      /\ UNCHANGED <<own, slots, ran>> /\ UNCHANGED args
  BY DEF InitializeAll, Calls
<1>1. nprocs \in Nat \ {0} /\ own[p] \in Values /\ m \in Int
  BY <1>0, NodeHas, CallHas
<1>2. CASE nprocs > 1 /\ m >= 0
  <2> DEFINE d == IF p = m THEN Filled(list, own[p]) ELSE Fresh(Len(list))
             part == Bcast(m, 1, d.pos)
  <2>1. ds' = [ds EXCEPT ![p] = d] /\ Post(p, part) /\ Waits(p, "data_pos") /\ UNCHANGED ctx
    BY <1>2 DEF InitializeAll
  <2>2. IsDataset(d) /\ Apart(d) /\ (p = m => Laid(d, list, Len(list)))
    <3>1. list \in Lists /\ Len(list) \in Nat
      BY InitializeListTyped, ListTyped
    <3> HIDE DEF list
    <3>2. CASE p = m
      <4>1. Laid(Filled(list, own[p]), list, Len(list))
        BY <1>1, <3>1, FilledIs
      <4>2. Len(list) \in 0 .. Len(list)
        BY <3>1
      <4> QED BY <3>1, <3>2, <4>1, <4>2, LaidIs, LaidApart
    <3>3. CASE p # m
      <4>1. Laid(Fresh(Len(list)), list, 0) /\ IsDataset(Fresh(Len(list))) /\ 0 \in 0 .. Len(list)
        BY <3>1, FreshIs
      <4> QED BY <3>1, <3>3, <4>1, LaidApart
    <3> QED BY <3>2, <3>3
  <2> HIDE DEF d
  <2>3. d.pos \in Nat
    BY <2>2, DatasetBounds
  <2>4. First(Call(p), part, p) /\ part.data = d.pos
    BY <1>0, <2>3 DEF First, Bcast, Broadcasts, Reductions
  <2> HIDE DEF part
  <2>5. log'[p][k] = part
    BY <2>1, PostHas
  <2>6. Meets(log', nprocs, Call(p), 1, k, p)
    BY <2>4, <2>5, FirstMeets
  <2>7. Stored(log', d, Call(p), "data_pos", k, p)
    BY <2>2, <2>4, <2>5 DEF Stored
  <2> HIDE DEF m
  <2>8. Within(Call(p), "data_pos", nprocs)
    BY <1>0, <1>2 DEF Within, m
  <2>9. Core(program, nprocs, step, pc, log, ds)'
    <3>1. Takes(p, d)
      BY <2>1 DEF Takes
    <3>2. Post(p, part) /\ Waits(p, "data_pos")
      BY <2>1
    <3> QED BY <1>0, <2>6, <2>7, <2>8, <3>1, <3>2, Offsets, Contributes
  <2>10. Typed'
    BY <1>0, <2>1, TypesKept
  <2> QED BY <2>9, <2>10 DEF Inv
<1>3. CASE ~(nprocs > 1 /\ m >= 0)
  <2>1. InitializeChildren(p, InitSlots, own[p]) /\ Done(p) /\ UNCHANGED log /\ UNCHANGED ds
    BY <1>3 DEF InitializeAll
  <2>2. Parts(Call(p), nprocs) = 0
    BY <1>0, <1>1, <1>3 DEF Parts
  <2> HIDE DEF m
  <2>3. Core(program, nprocs, step, pc, log, ds)'
    BY <1>0, <2>1, <2>2, Offsets, ReturnsSo
  <2>4. ctx' \in [Global -> Values]
    BY <1>1, <2>1, ChildrenTyped
  <2>5. Typed'
    BY <1>0, <2>4, TypesKept
  <2> QED BY <2>3, <2>5 DEF Inv
<1> QED BY <1>2, <1>3

LEMMA SendWordsStep ==
  ASSUME Inv, NEW p \in Node, SendWords(p)
  PROVE  Inv'
<1> DEFINE m == Call(p).master
           list == initialize_list
           k == Len(log[p]) + 1
           known == [ds[p] EXCEPT !.pos = FromRoot(p)]
           d == Receivable(IF p = m THEN Pack(known) ELSE known)
           part == Bcast(m, d.pos + 1, d.data)
<1>0. /\ pc[p] = "data_pos" /\ BcastArrives(p)
      /\ ds' = [ds EXCEPT ![p] = d] /\ Post(p, part) /\ Waits(p, "words")
      /\ UNCHANGED <<own, slots, ctx, ran>> /\ UNCHANGED args
  BY DEF SendWords
<1>1. /\ m \in Node /\ Arrived(p, m) /\ FromRoot(p) = log[m][Len(log[p])].data
      /\ Call(p).call \in Broadcasts /\ nprocs # 1 /\ Call(p).call = "initialize_all"
      /\ FromRoot(p) \in Nat
  BY <1>0, BcastIs
<1>2. Stored(log, ds[p], Call(p), "data_pos", Len(log[p]), p)
  BY <1>0, DatasetIs
<1>3. IsDataset(ds[p])
  BY NodeHas
<1>4. /\ IsDataset(d) /\ d.pos = FromRoot(p) /\ d.pos + 1 <= d.size
      /\ p = m => Packed(d.data, FromRoot(p), list)
  <2>1. CASE p = m
    <3>1. Laid(ds[p], list, Len(list)) /\ log[p][Len(log[p])].data = ds[p].pos
      BY <1>2, <2>1 DEF Stored
    <3>2. FromRoot(p) = ds[p].pos
      BY <1>1, <2>1, <3>1
    <3>3. known = ds[p]
      BY <1>1, <1>3, <3>2, PositionIs
    <3> HIDE DEF known
    <3>4. list \in Lists
      BY InitializeListTyped
    <3> HIDE DEF list
    <3>5. /\ IsDataset(Receivable(Pack(ds[p]))) /\ Receivable(Pack(ds[p])).pos = ds[p].pos
          /\ Receivable(Pack(ds[p])).size >= ds[p].pos + 1
          /\ Packed(Receivable(Pack(ds[p])).data, ds[p].pos, list)
      BY <3>1, <3>4, PackIs
    <3>6. d = Receivable(Pack(ds[p]))
      BY <2>1, <3>3
    <3> HIDE DEF d
    <3>7. d.pos = ds[p].pos /\ d.size >= ds[p].pos + 1 /\ Packed(d.data, ds[p].pos, list)
          /\ IsDataset(d)
      BY <3>5, <3>6
    <3>8. d.size \in Nat /\ d.pos \in Nat
      BY <3>7, DatasetBounds
    <3> QED BY <3>2, <3>7, <3>8
  <2>2. CASE p # m
    <3>1. /\ IsDataset(Receivable(known)) /\ Receivable(known).pos = FromRoot(p)
          /\ Receivable(known).pos + 1 <= Receivable(known).size
      BY <1>1, <1>3, KnownIs
    <3> QED BY <2>2, <3>1
  <2> QED BY <2>1, <2>2
<1>5. Len(log[p]) \in 1 .. Len(log[m]) /\ Len(log[p]) \in Nat
  BY <1>0, <1>1, Offsets, ArrivedIs
<1>6. /\ log'[p][k] = part
      /\ log'[m][Len(log[p])] = log[m][Len(log[p])] /\ Len(log[p]) \in 1 .. Len(log'[m])
  BY <1>0, <1>1, <1>5, PostHas
<1>7. part.kind = "bcast" /\ part.root = m /\ part.count = d.pos + 1 /\ part.data = d.data
  BY DEF Bcast
<1> HIDE DEF d, part, m, list
<1>8. k - 1 = Len(log[p])
  BY <1>5
<1> HIDE DEF k
<1>9. k - 1 \in 1 .. Len(log'[m]) /\ log'[m][k-1].data = FromRoot(p)
  BY <1>1, <1>6, <1>8
<1>10. SecondBcast(Call(p), log', k, p)
  <2>1. /\ log'[p][k].kind = "bcast" /\ log'[p][k].root = m
        /\ log'[p][k].count = log'[m][k-1].data + 1
        /\ p = m => Packed(log'[p][k].data, log'[m][k-1].data, list)
    BY <1>4, <1>6, <1>7, <1>9
  <2> QED BY <1>1, <1>9, <2>1 DEF SecondBcast, m, list
<1>11. Meets(log', nprocs, Call(p), 2, k, p)
  BY <1>1, <1>10, SecondBcastMeets
<1>12. Stored(log', d, Call(p), "words", k, p)
  BY <1>4, <1>9 DEF Stored, m
<1>13. Within(Call(p), "words", nprocs)
  <2>1. Within(Call(p), "data_pos", nprocs)
    BY <1>0, CallHas
  <2> QED BY <2>1 DEF Within
<1>14. Core(program, nprocs, step, pc, log, ds)'
  <2>1. Takes(p, d)
    BY <1>0 DEF Takes
  <2>2. Post(p, part) /\ Waits(p, "words") /\ pc[p] = "data_pos" /\ UNCHANGED args
    BY <1>0
  <2> QED BY <1>11, <1>12, <1>13, <2>1, <2>2, Offsets, Contributes DEF k
<1>15. Typed'
  BY <1>0, TypesKept
<1> QED BY <1>14, <1>15 DEF Inv

LEMMA ReceiveWordsStep ==
  ASSUME Inv, NEW p \in Node, ReceiveWords(p)
  PROVE  Inv'
<1> DEFINE m == Call(p).master
           list == initialize_list
           k == Len(log[p])
           d == Restart(Unpack(Overwritten(ds[p], FromRoot(p), ds[p].pos + 1)))
           taken == IF p = m THEN [d |-> d, value |-> own[p]] ELSE PickUp(d, own[p], Slot)
<1>0. /\ pc[p] = "words" /\ BcastArrives(p) /\ Done(p)
      /\ ds' = [ds EXCEPT ![p] = taken.d] /\ own' = [own EXCEPT ![p] = taken.value]
      /\ InitializeChildren(p, InitSlots, taken.value)
      /\ UNCHANGED <<slots, ran>> /\ UNCHANGED args /\ UNCHANGED log
  BY DEF ReceiveWords
<1>1. /\ m \in Node /\ Arrived(p, m) /\ FromRoot(p) = log[m][k].data
      /\ Call(p).call \in Broadcasts /\ Call(p).call = "initialize_all"
      /\ Parts(Call(p), nprocs) = 2
  BY <1>0, BcastIs
<1>2. Stored(log, ds[p], Call(p), "words", k, p)
  BY <1>0, DatasetIs
<1>3. IsDataset(ds[p]) /\ own[p] \in Values
  BY NodeHas
<1>4. SecondBcast(Call(p), log, k, m)
  <2>1. Meets(log, nprocs, Call(p), Offset(pc[p]), k, m)
    BY <1>0, <1>1, Offsets, ArrivedIs
  <2> QED BY <1>0, <1>1, <2>1, Offsets DEF Meets
<1>5. Packed(FromRoot(p), ds[p].pos, list) /\ ds[p].pos + 1 <= ds[p].size
  <2>1. ds[p].pos = log[m][k-1].data /\ ds[p].pos + 1 <= ds[p].size
    BY <1>2 DEF Stored
  <2>2. Packed(log[m][k].data, log[m][k-1].data, list)
    BY <1>1, <1>4 DEF SecondBcast
  <2> QED BY <1>1, <2>1, <2>2
<1>6. list \in Lists
  BY InitializeListTyped
<1> HIDE DEF list
<1>7. Readable(d, list, 0)
  BY <1>3, <1>5, <1>6, ReceivedIs
<1> HIDE DEF d
<1>8. taken.value \in Values /\ \E j \in 0 .. Len(list) : Readable(taken.d, list, j)
  <2>1. CASE p = m
    <3>1. taken = [d |-> d, value |-> own[p]]
      BY <2>1
    <3>2. 0 \in 0 .. Len(list)
      BY <1>6, ListTyped
    <3> HIDE DEF taken
    <3>3. taken.d = d /\ taken.value = own[p]
      BY <3>1
    <3> QED BY <1>3, <1>7, <3>2, <3>3
  <2>2. CASE p # m
    <3>1. taken = PickUp(d, own[p], Slot)
      BY <2>2
    <3> HIDE DEF taken
    <3> QED BY <1>3, <1>6, <1>7, <3>1, PickUpIs
  <2> QED BY <2>1, <2>2
<1> HIDE DEF taken
<1>9. IsDataset(taken.d) /\ Apart(taken.d)
  <2>1. PICK j \in 0 .. Len(list) : Readable(taken.d, list, j)
    BY <1>8
  <2> QED BY <1>6, <2>1, ReadableIs, ReadableApart
<1>10. Core(program, nprocs, step, pc, log, ds)'
  BY <1>0, <1>1, <1>9, Offsets, Returns
<1>11. own' \in [Node -> Values]
  BY <1>0, <1>8, OwnTyped
<1>12. ctx' \in [Global -> Values]
  BY <1>0, <1>8, ChildrenTyped
<1>13. Typed'
  BY <1>0, <1>11, <1>12, TypesKept
<1> QED BY <1>10, <1>13 DEF Inv

(* The slots of a reduction. *)
LEMMA ReduceListIs ==
  ASSUME Inv, NEW p \in Node, step[p] < Len(program) \/ pc[p] # "node"
  PROVE  /\ ReduceList(p) = ListOf(Call(p)) /\ ListOf(Call(p)) \in Lists
         /\ Len(ListOf(Call(p))) \in Nat
<1>1. ReduceList(p) = ListOf(Call(p))
  BY DEF ReduceList, ListOf
<1>2. Call(p).slot \in Named
  BY CallHas
<1>3. <<Call(p).slot>> \in Lists
  BY <1>2 DEF Lists
<1>4. ListOf(Call(p)) \in Lists
  BY <1>3, ReduceListTyped DEF ListOf
<1> QED BY <1>1, <1>4, ListTyped

LEMMA GatherSizesStep ==
  ASSUME Inv, NEW p \in Node, GatherSizes(p)
  PROVE  Inv'
<1> DEFINE list == ListOf(Call(p))
           k == Len(log[p]) + 1
           d == Filled(list, own[p])
           part == Gather(2, <<d.nelem, d.size>>)
<1>1. /\ ReduceList(p) = list /\ list \in Lists /\ Len(list) \in Nat /\ pc[p] = "reduced"
  BY ReduceListIs DEF GatherSizes
<1>0. /\ ds' = [ds EXCEPT ![p] = d]
      /\ nprocs > 1 => Post(p, part) /\ Waits(p, "sizes")
      /\ ~(nprocs > 1) => Done(p) /\ UNCHANGED log
      /\ UNCHANGED <<own, slots, ctx, ran>> /\ UNCHANGED args
  <2>1. \E x \in {Filled(ReduceList(p), own[p])} :
          /\ ds' = [ds EXCEPT ![p] = x]
          /\ IF nprocs > 1 THEN Post(p, Gather(2, <<x.nelem, x.size>>)) /\ Waits(p, "sizes")
                           ELSE Done(p) /\ UNCHANGED log
    BY Zenon DEF GatherSizes
  <2>2. /\ ds' = [ds EXCEPT ![p] = d]
        /\ IF nprocs > 1 THEN Post(p, part) /\ Waits(p, "sizes") ELSE Done(p) /\ UNCHANGED log
    BY <1>1, <2>1
  <2>3. UNCHANGED <<own, slots, ctx, ran>> /\ UNCHANGED args
    BY DEF GatherSizes
  <2> QED BY <2>2, <2>3, Zenon
<1>2. /\ nprocs \in Nat \ {0} /\ own[p] \in Values
      /\ Within(Call(p), "reduced", nprocs)
  BY <1>1, NodeHas, CallHas
<1>3. /\ Call(p).call \in Reductions
      /\ Call(p).call = "reduce_all" \/ (Call(p).call = "reduce" /\ Call(p).global /\ nprocs # 1)
  BY <1>2 DEF Within, Reductions
<1>4. Laid(d, list, Len(list)) /\ IsDataset(d) /\ Apart(d)
  <2> HIDE DEF list
  <2>1. Laid(d, list, Len(list))
    BY <1>1, <1>2, FilledIs
  <2>2. Len(list) \in 0 .. Len(list)
    BY <1>1
  <2> HIDE DEF d
  <2> QED BY <1>1, <2>1, <2>2, LaidIs, LaidApart
<1> HIDE DEF d
<1>5. CASE nprocs > 1
  <2>1. First(Call(p), part, p)
    BY <1>3 DEF First, Gather, Broadcasts, Reductions
  <2>2. log'[p][k] = part
    BY <1>0, <1>5, PostHas
  <2> HIDE DEF part
  <2>3. Meets(log', nprocs, Call(p), 1, k, p)
    BY <2>1, <2>2, FirstMeets
  <2>4. Stored(log', d, Call(p), "sizes", k, p)
    BY <1>4 DEF Stored
  <2>5. Within(Call(p), "sizes", nprocs)
    BY <1>3, <1>5 DEF Within
  <2>6. Core(program, nprocs, step, pc, log, ds)'
    <3>1. Takes(p, d)
      BY <1>0 DEF Takes
    <3>2. Post(p, part) /\ Waits(p, "sizes") /\ pc[p] = "reduced" /\ UNCHANGED args
      BY <1>0, <1>1, <1>5
    <3> QED BY <2>3, <2>4, <2>5, <3>1, <3>2, Offsets, Contributes
  <2>7. Typed'
    BY <1>0, TypesKept
  <2> QED BY <2>6, <2>7 DEF Inv
<1>6. CASE ~(nprocs > 1)
  <2>1. nprocs = 1
    BY <1>2, <1>6
  <2>2. Parts(Call(p), nprocs) = 0
    BY <1>3, <2>1 DEF Parts
  <2>3. Core(program, nprocs, step, pc, log, ds)'
    BY <1>0, <1>1, <1>4, <1>6, <2>2, Offsets, Returns
  <2>4. Typed'
    BY <1>0, TypesKept
  <2> QED BY <2>3, <2>4 DEF Inv
<1> QED BY <1>5, <1>6

LEMMA GatherElementsStep ==
  ASSUME Inv, NEW p \in Node, GatherElements(p)
  PROVE  Inv'
<1> DEFINE list == ListOf(Call(p))
           k == Len(log[p]) + 1
           counts == [q \in Node |-> Part(p, q).data[2]]
           block == [data |-> ds[p].data, size |-> ds[p].size, nelem |-> ds[p].nelem]
           part == Gather(counts, block)
<1>0. /\ pc[p] = "sizes" /\ AllArrive(p) /\ Post(p, part) /\ Waits(p, "elements")
      /\ UNCHANGED <<own, slots, ctx, ran>> /\ UNCHANGED args /\ UNCHANGED ds
  BY DEF GatherElements
<1>1. /\ nprocs \in Nat \ {0} /\ Within(Call(p), "sizes", nprocs)
      /\ Stored(log, ds[p], Call(p), "sizes", Len(log[p]), p) /\ Node = 0 .. nprocs-1
  BY <1>0, NodeHas, CallHas, DatasetIs DEF Node
<1>2. Call(p).call \in Reductions /\ Within(Call(p), "elements", nprocs)
  BY <1>1 DEF Within, Reductions
<1>3. Block(block, list)
  <2>1. Laid(ds[p], list, Len(list))
    BY <1>1 DEF Stored
  <2> HIDE DEF list
  <2> QED BY <2>1 DEF Block
<1>4. ASSUME NEW r \in Node
      PROVE  /\ Len(log[p]) \in 1 .. Len(log[r]) /\ Part(p, r) = log[r][Len(log[p])]
             /\ Len(log[p]) \in Nat
  <2>1. Arrived(p, r)
    BY <1>0 DEF AllArrive
  <2> QED BY <1>0, <2>1, Offsets, ArrivedIs
<1>5. /\ log'[p][k] = part
      /\ \A r \in Node : log'[r][Len(log[p])] = log[r][Len(log[p])] /\ Len(log[p]) \in 1 .. Len(log'[r])
  BY <1>0, <1>4, PostHas
<1>6. part.kind = "allgather" /\ part.root = -1 /\ part.count = counts /\ part.data = block
  BY DEF Gather
<1>7. k - 1 = Len(log[p])
  BY <1>4
<1>8. counts = [r \in 0 .. nprocs-1 |-> log'[r][k-1].data[2]]
  BY <1>1, <1>4, <1>5, <1>7
<1> HIDE DEF part, counts, block, k
<1>9. SecondGather(Call(p), nprocs, log', k, p)
  <2>1. \A r \in 0 .. nprocs-1 : k - 1 \in 1 .. Len(log'[r])
    BY <1>1, <1>5, <1>7
  <2>2. /\ log'[p][k].kind = "allgather" /\ log'[p][k].root = -1
        /\ log'[p][k].count = [r \in 0 .. nprocs-1 |-> log'[r][k-1].data[2]]
        /\ Block(log'[p][k].data, list)
    BY <1>3, <1>5, <1>6, <1>8
  <2> QED BY <2>1, <2>2 DEF SecondGather
<1>10. Meets(log', nprocs, Call(p), 2, k, p)
  BY <1>2, <1>9, SecondGatherMeets
<1>11. Core(program, nprocs, step, pc, log, ds)'
  BY <1>0, <1>2, <1>10, Offsets, ContributesSo DEF k
<1>12. Typed'
  BY <1>0, TypesKept
<1> QED BY <1>11, <1>12 DEF Inv

LEMMA SlotsAre ==
  ASSUME Inv, NEW p \in Node
  PROVE  /\ slots \in [Node -> [Slot -> [0 .. nprocs -> Value]]]
         /\ \A s \in Slot : \A j \in 0 .. nprocs : slots[p][s][j] \in Value
         /\ \A new \in [Slot -> [0 .. nprocs -> Value]] :
              [slots EXCEPT ![p] = new] \in [Node -> [Slot -> [0 .. nprocs -> Value]]]
<1>1. slots \in [Node -> [Slot -> [0 .. nprocs -> Value]]]
  BY DEF Inv, Typed, Node, Slot
<1>2. slots[p] \in [Slot -> [0 .. nprocs -> Value]]
  BY <1>1
<1>3. \A s \in Slot : \A j \in 0 .. nprocs : slots[p][s][j] \in Value
  BY <1>2
<1> QED BY <1>1, <1>3

LEMMA SlotsKept ==
  ASSUME Inv, UNCHANGED args, slots' \in [Node -> [Slot -> [0 .. nprocs -> Value]]],
         own' \in [Node -> Values], UNCHANGED <<ctx, ran>>
  PROVE  Typed'
<1>1. processors' = processors /\ nprocs' = nprocs
  BY DEF args
<1> QED BY <1>1 DEF Inv, Typed, Node, Slot

LEMMA TakeElementsStep ==
  ASSUME Inv, NEW p \in Node, TakeElements(p)
  PROVE  Inv'
<1> DEFINE list == ListOf(Call(p))
           others == [q \in Node \ {p} |-> OtherValues(p, q)]
           new == [s \in Slot |-> [j \in 0 .. nprocs |->
                     IF j \in {0, p + 1} THEN slots[p][s][j] ELSE others[j - 1][s]]]
<1>0. /\ pc[p] = "elements" /\ AllArrive(p) /\ Waits(p, "combine")
      /\ slots' = [slots EXCEPT ![p] = new]
      /\ UNCHANGED <<own, ctx, ran>> /\ UNCHANGED args /\ UNCHANGED ds /\ UNCHANGED log
  BY DEF TakeElements
<1>1. /\ nprocs \in Nat \ {0} /\ Within(Call(p), "elements", nprocs) /\ p \in Nat
      /\ Node = 0 .. nprocs-1 /\ list \in Lists
  BY <1>0, NodeHas, CallHas, ReduceListIs DEF Node
<1>2. Call(p).call \in Reductions /\ Within(Call(p), "combine", nprocs)
  BY <1>1 DEF Within, Reductions
<1>3. ASSUME NEW q \in Node PROVE OtherValues(p, q) \in Values
  <2>1. Arrived(p, q)
    BY <1>0 DEF AllArrive
  <2>2. Meets(log, nprocs, Call(p), Offset(pc[p]), Len(log[p]), q) /\ Part(p, q) = log[q][Len(log[p])]
    BY <1>0, <2>1, Offsets, ArrivedIs
  <2>3. SecondGather(Call(p), nprocs, log, Len(log[p]), q)
    BY <1>0, <1>2, <2>2, Offsets DEF Meets
  <2>4. Block(Part(p, q).data, list)
    BY <2>2, <2>3 DEF SecondGather
  <2> DEFINE d == Restart(FromBuffer(Part(p, q).data))
             v == [s \in Slot |-> slots[p][s][q + 1]]
  <2> HIDE DEF list
  <2>5. Readable(d, list, 0)
    BY <1>1, <2>4, TakenIs
  <2>6. v \in Values
    <3>1. q + 1 \in 0 .. nprocs
      BY <1>1
    <3> QED BY <3>1, SlotsAre DEF Values, Slot
  <2> HIDE DEF d, v
  <2>7. PickUp(d, v, Reduced).value \in Values
    BY <1>1, <2>5, <2>6, PickUpIs
  <2> QED BY <2>7 DEF OtherValues, d, v
<1>4. new \in [Slot -> [0 .. nprocs -> Value]]
  <2>1. ASSUME NEW s \in Slot, NEW j \in 0 .. nprocs
        PROVE  (IF j \in {0, p + 1} THEN slots[p][s][j] ELSE others[j - 1][s]) \in Value
    <3>1. CASE j \in {0, p + 1}
      BY <3>1, SlotsAre
    <3>2. CASE j \notin {0, p + 1}
      <4>1. j - 1 \in Node \ {p}
        BY <1>1, <3>2
      <4>2. others[j-1] = OtherValues(p, j - 1)
        BY <4>1
      <4>3. OtherValues(p, j - 1) \in Values
        BY <1>3, <4>1
      <4> HIDE DEF others
      <4>4. others[j-1][s] \in Value
        BY <4>2, <4>3 DEF Values, Slot
      <4> QED BY <3>2, <4>4
    <3> QED BY <3>1, <3>2
  <2> HIDE DEF others
  <2> QED BY <2>1
<1> HIDE DEF new
<1>5. slots' \in [Node -> [Slot -> [0 .. nprocs -> Value]]]
  BY <1>0, <1>4, SlotsAre
<1>6. Core(program, nprocs, step, pc, log, ds)'
  BY <1>0, <1>2, Offsets, GoesOn
<1>7. own' \in [Node -> Values]
  BY <1>0 DEF Inv, Typed, Node
<1>8. Typed'
  BY <1>0, <1>5, <1>7, SlotsKept
<1> QED BY <1>6, <1>8 DEF Inv

LEMMA ReduceNodesStep ==
  ASSUME Inv, NEW p \in Node, ReduceNodes(p)
  PROVE  Inv'
<1>0. /\ pc[p] = "combine" /\ Done(p)
      /\ UNCHANGED <<ctx, ran>> /\ UNCHANGED args /\ UNCHANGED ds /\ UNCHANGED log
      /\ \E cut \in Cuts(nprocs) :
           \E total \in {[s \in Slot |-> ReducedValue(s, slots[p][s][0], OfNodes(p, s), cut)]} :
             /\ slots' = [slots EXCEPT ![p] = [s \in Slot |->
                             IF Listed(p, s) THEN [@[s] EXCEPT ![0] = total[s]] ELSE @[s]]]
             /\ own' = [own EXCEPT ![p] = [s \in Slot |-> IF Listed(p, s) THEN total[s] ELSE @[s]]]
  BY DEF ReduceNodes
<1>1. PICK cut \in Cuts(nprocs) :
        \E total \in {[s \in Slot |-> ReducedValue(s, slots[p][s][0], OfNodes(p, s), cut)]} :
          /\ slots' = [slots EXCEPT ![p] = [s \in Slot |->
                          IF Listed(p, s) THEN [slots[p][s] EXCEPT ![0] = total[s]] ELSE slots[p][s]]]
          /\ own' = [own EXCEPT ![p] = [s \in Slot |-> IF Listed(p, s) THEN total[s] ELSE own[p][s]]]
  BY <1>0
<1>2. PICK total \in {[s \in Slot |-> ReducedValue(s, slots[p][s][0], OfNodes(p, s), cut)]} :
        /\ slots' = [slots EXCEPT ![p] = [s \in Slot |->
                        IF Listed(p, s) THEN [slots[p][s] EXCEPT ![0] = total[s]] ELSE slots[p][s]]]
        /\ own' = [own EXCEPT ![p] = [s \in Slot |-> IF Listed(p, s) THEN total[s] ELSE own[p][s]]]
  BY <1>1
<1>3. /\ nprocs \in Nat \ {0} /\ own[p] \in Values /\ p \in Nat
      /\ \A s \in Slot : own[p][s] \in Value
      /\ Within(Call(p), "combine", nprocs)
  BY <1>0, NodeHas, CallHas
<1>4. ASSUME NEW s \in Slot PROVE total[s] \in Value
  <2>1. total[s] = ReducedValue(s, slots[p][s][0], OfNodes(p, s), cut)
    OBVIOUS
  <2>2. OfNodes(p, s) \in Seq(Value) /\ Len(OfNodes(p, s)) = nprocs
    <3> DEFINE item(j) == IF j = p + 1 THEN own[p][s] ELSE slots[p][s][j]
    <3>1. \A j \in 1 .. nprocs : item(j) \in Value
      BY <1>3, SlotsAre
    <3>2. OfNodes(p, s) = [j \in 1 .. nprocs |-> item(j)]
      BY DEF OfNodes
    <3> HIDE DEF item
    <3> QED BY <1>3, <3>1, <3>2, IsASeq
  <2>3. cut \in Nat \ {0} /\ (cut <= Len(OfNodes(p, s)) \/ Len(OfNodes(p, s)) = 0)
    <3>1. cut \in Nat \ {0} /\ (cut <= nprocs \/ nprocs = 0)
      BY <1>3, CutsAre
    <3> QED BY <2>2, <3>1
  <2>4. slots[p][s][0] \in Value
    BY <1>3, SlotsAre
  <2> QED BY <2>1, <2>2, <2>3, <2>4, ReducedTyped DEF Slot
<1> DEFINE newslots == [s \in Slot |->
             IF Listed(p, s) THEN [slots[p][s] EXCEPT ![0] = total[s]] ELSE slots[p][s]]
           newown == [s \in Slot |-> IF Listed(p, s) THEN total[s] ELSE own[p][s]]
<1>5. newslots \in [Slot -> [0 .. nprocs -> Value]]
  <2>1. ASSUME NEW s \in Slot
        PROVE  (IF Listed(p, s) THEN [slots[p][s] EXCEPT ![0] = total[s]] ELSE slots[p][s])
                 \in [0 .. nprocs -> Value]
    <3>1. slots[p][s] \in [0 .. nprocs -> Value]
      BY SlotsAre
    <3> QED BY <1>3, <1>4, <3>1
  <2> QED BY <2>1
<1>6. newown \in Values
  BY <1>3, <1>4 DEF Values, Slot
<1>7. slots' = [slots EXCEPT ![p] = newslots] /\ own' = [own EXCEPT ![p] = newown]
  BY <1>2
<1> HIDE DEF newslots, newown
<1>8. slots' \in [Node -> [Slot -> [0 .. nprocs -> Value]]] /\ own' \in [Node -> Values]
  BY <1>5, <1>6, <1>7, SlotsAre, OwnTyped
<1>9. Parts(Call(p), nprocs) = 2
  BY <1>3 DEF Parts, Within
<1>10. Core(program, nprocs, step, pc, log, ds)'
  BY <1>0, <1>9, Offsets, ReturnsSo
<1>11. Typed'
  BY <1>0, <1>8, SlotsKept
<1> QED BY <1>10, <1>11 DEF Inv
LEMMA NodeKeeps ==
  ASSUME Inv, NEW p \in Node, NodeStep(p)
  PROVE  Inv'
BY InitializeAllStep, SendWordsStep, ReceiveWordsStep, InitializeStep, SendBytesStep, ReceiveBytesStep,
   ReduceLocalStep, ReduceNodeStep, GatherSizesStep, GatherElementsStep, TakeElementsStep,
   ReduceNodesStep, ExecuteStep, EnterSyncStep, LeaveSyncStep, BroadcastStringStep, FoldStep,
   FoldAllStep, Level1AloneStep, Zenon DEF NodeStep

LEMMA NothingHappens ==
  ASSUME Inv, UNCHANGED vars
  PROVE  Inv'
BY DEF Inv, Typed, vars, args

LEMMA StepsKeep ==
  ASSUME Inv, [Next]_vars
  PROVE  Inv'
<1>1. CASE \E p \in Node : NodeStep(p)
  BY <1>1, NodeKeeps
<1>2. CASE \E c \in Global : RunStep(c)
  BY <1>2, RunStepStep
<1>3. CASE UNCHANGED vars
  BY <1>3, NothingHappens
<1> QED BY <1>1, <1>2, <1>3, Zenon DEF Next, Over

LEMMA ItBegins ==
  ASSUME Init
  PROVE  Inv
<1>1. processors \in Nat /\ nprocs \in Nat \ {0}
  BY SizesAssumption DEF Init
<1>2. Suitable(program, nprocs)
  <2> DEFINE S == {c \in NodeCalls : c.call = "bsp_broadcast" => c.master >= 0}
  <2>1. program \in Seq(S) /\ \A i \in DOMAIN program : program[i].master < nprocs
    BY ScriptsAssumption DEF Init
  <2>2. \A c \in S : c \in NodeCalls /\ (c.call = "bsp_broadcast" => c.master >= 0)
    OBVIOUS
  <2> HIDE DEF S
  <2>3. IsSequence(program)
    BY <2>1 DEF IsSequence
  <2>4. \A i \in 1 .. Len(program) : program[i] \in S /\ program[i].master < nprocs
    BY <2>1
  <2> QED BY <1>1, <2>2, <2>3, <2>4 DEF Suitable
<1>3. Typed
  <2>1. own \in [0 .. nprocs-1 -> Values]
    <3>1. own = [p \in 0 .. nprocs-1 |-> [s \in DOMAIN Kind |-> <<100 + p>>]]
      BY DEF Init, Node, Slot
    <3>2. \A p \in 0 .. nprocs-1 : <<100 + p>> \in Value
      BY <1>1 DEF Value
    <3> QED BY <3>1, <3>2 DEF Values
  <2>2. slots \in [0 .. nprocs-1 -> [DOMAIN Kind -> [0 .. nprocs -> Value]]]
    <3>1. slots = [p \in 0 .. nprocs-1 |-> [s \in DOMAIN Kind |-> [q \in 0 .. nprocs |-> <<>>]]]
      BY DEF Init, Node, Slot
    <3>2. <<>> \in Value
      BY DEF Value
    <3> QED BY <3>1, <3>2
  <2>3. ctx \in [0 .. processors-1 -> Values]
    <3>1. ctx = [c \in 0 .. processors-1 |-> [s \in DOMAIN Kind |-> <<c>>]]
      BY DEF Init, Global, Slot
    <3>2. \A c \in 0 .. processors-1 : <<c>> \in Value
      BY <1>1 DEF Value
    <3> QED BY <3>1, <3>2 DEF Values
  <2> QED BY <1>1, <2>1, <2>2, <2>3 DEF Typed, Init
<1>4. /\ step = [p \in 0 .. nprocs-1 |-> 0] /\ pc = [p \in 0 .. nprocs-1 |-> "node"]
      /\ log = [p \in 0 .. nprocs-1 |-> <<>>] /\ ds = [p \in 0 .. nprocs-1 |-> Fresh(0)]
  BY DEF Init, Node
<1>5. /\ Family(step, nprocs) /\ Family(pc, nprocs) /\ Family(log, nprocs) /\ Family(ds, nprocs)
  BY <1>4 DEF Family
<1>6. Len(<<>>) = 0 /\ IsSequence(<<>>)
  <2>1. <<>> \in Seq(Nat)
    OBVIOUS
  <2> QED BY <2>1 DEF IsSequence
<1>7. Matched(log, program, nprocs)
  BY <1>4, <1>6 DEF Matched
<1>8. Along(program, nprocs, step, pc, log, ds)
  <2>1. IsDataset(Fresh(0)) /\ Apart(Fresh(0))
    <3> DEFINE list == <<>>
    <3>1. list \in Lists /\ Len(list) = 0
      BY DEF Lists
    <3> HIDE DEF list
    <3>2. Laid(Fresh(Len(list)), list, 0) /\ IsDataset(Fresh(Len(list))) /\ 0 \in 0 .. Len(list)
      BY <3>1, FreshIs
    <3> QED BY <3>1, <3>2, LaidApart
  <2>2. Situated(program, nprocs, 0, "node", 0)
    <3>1. Base(program, nprocs)[0] = 0 /\ Len(program) \in Nat
      BY <1>2, BaseIs DEF Suitable, Places
    <3> QED BY <3>1, Offsets DEF Situated
  <2>3. ASSUME NEW q \in 0 .. nprocs-1
        PROVE  /\ Situated(program, nprocs, step[q], pc[q], Len(log[q]))
               /\ Stored(log, ds[q], program[step[q]+1], pc[q], Len(log[q]), q)
    <3>1. step[q] = 0 /\ pc[q] = "node" /\ log[q] = <<>> /\ ds[q] = Fresh(0)
      BY <1>4
    <3> HIDE DEF Situated, Stored
    <3>2. Stored(log, ds[q], program[step[q]+1], pc[q], Len(log[q]), q)
      BY <2>1, <3>1, StoredIdle
    <3> QED BY <1>6, <2>2, <3>1, <3>2
  <2> QED BY <2>3 DEF Along
<1> QED BY <1>2, <1>3, <1>5, <1>7, <1>8 DEF Inv, Core

(* Each action keeps the invariant, whatever the observer notes. *)
LEMMA AlwaysInv == OSpec => []Inv
<1>1. OInit => Inv
  BY ItBegins DEF OInit
<1>2. Inv /\ [ONext]_<<vars, meaning>> => Inv'
  <2> SUFFICES ASSUME Inv, [ONext]_<<vars, meaning>> PROVE Inv'
    OBVIOUS
  <2>1. [Next]_vars
    BY DEF ONext
  <2> QED BY <2>1, StepsKeep
<1> QED BY <1>1, <1>2, PTL DEF OSpec

-----------------------------------------------------------------------------
(* However many nodes and contexts there are and whatever is declared, the *)
(* variables of nodes and contexts and the slots of a reduction hold       *)
(* sequences of numbers, and the position and the counter of every dataset *)
(* stay within it, through initialize_all, initialize, reduce_all and      *)
(* reduce.                                                                 *)
THEOREM TypesAreKept == OSpec => []TypeOK
<1>1. Inv => TypeOK
  <2> SUFFICES ASSUME Inv PROVE TypeOK
    OBVIOUS
  <2>1. step \in [Node -> 0 .. Len(program)]
    <3>1. Family(step, nprocs) /\ Node = 0 .. nprocs-1
      BY DEF Inv, Core, Node
    <3>2. \A p \in 0 .. nprocs-1 : step[p] \in 0 .. Len(program)
      BY DEF Inv, Core, Along, Situated
    <3> HIDE DEF Node
    <3>3. step = [q \in 0 .. nprocs-1 |-> step[q]]
      BY <3>1 DEF Family
    <3> QED BY <3>1, <3>2, <3>3
  <2>2. /\ own \in [Node -> [Slot -> Seq(Nat)]] /\ ctx \in [Global -> [Slot -> Seq(Nat)]]
        /\ slots \in [Node -> [Slot -> [0 .. nprocs -> Seq(Nat)]]] /\ ran \subseteq Global
    BY DEF Inv, Typed, Node, Global, Slot, Values, Value
  <2>3. ASSUME NEW p \in Node PROVE ds[p].pos \in 0 .. ds[p].size /\ ds[p].current <= ds[p].nelem
    <3>1. IsDataset(ds[p])
      BY NodeHas
    <3> DEFINE d == ds[p]
    <3> HIDE DEF d
    <3>2. IsDataset(d)
      BY <3>1 DEF d
    <3>3. d.size \in Nat /\ d.pos \in Nat /\ d.pos <= d.size /\ d.current <= d.nelem
      BY <3>2, DatasetBounds
    <3> QED BY <3>3 DEF d
  <2> QED BY <2>1, <2>2, <2>3 DEF TypeOK
<1> QED BY <1>1, AlwaysInv, PTL

(* Any two nodes that make the same calls pass the same kind, root and     *)
(* counts in each collective they have both come to: the size a node       *)
(* passes with the bytes of a broadcast, or with the datasets of a         *)
(* reduction, is the one the master or every other node has told it in the *)
(* collective before.                                                      *)
THEOREM NodesAgreeOnCollectives == OSpec => []CollectivesMatch
<1>1. Inv => CollectivesMatch
  <2> SUFFICES ASSUME Inv, NEW p \in Node, NEW q \in Node,
                      NEW k \in DOMAIN log[p] \intersect DOMAIN log[q]
               PROVE  /\ log[p][k].kind = log[q][k].kind /\ log[p][k].root = log[q][k].root
                      /\ log[p][k].count = log[q][k].count
    BY DEF CollectivesMatch
  <2>1. /\ p \in 0 .. nprocs-1 /\ q \in 0 .. nprocs-1 /\ nprocs \in Nat
        /\ Suitable(program, nprocs) /\ Matched(log, program, nprocs)
        /\ IsSequence(log[p]) /\ IsSequence(log[q])
    BY NodeHas
  <2>2. k \in 1 .. Len(log[p]) /\ k \in 1 .. Len(log[q])
    BY <2>1 DEF IsSequence
  <2>3. Belongs(log, program, nprocs, k, p) /\ Belongs(log, program, nprocs, k, q)
    BY <2>1, <2>2 DEF Matched
  <2>4. PICK i \in 1 .. Len(program) :
          /\ k \in Between(program, nprocs, i)
          /\ Meets(log, nprocs, program[i], k - Base(program, nprocs)[i-1], k, p)
    BY <2>3 DEF Belongs
  <2>5. PICK h \in 1 .. Len(program) :
          /\ k \in Between(program, nprocs, h)
          /\ Meets(log, nprocs, program[h], k - Base(program, nprocs)[h-1], k, q)
    BY <2>3 DEF Belongs
  <2>6. IsSequence(program)
    BY <2>1 DEF Suitable
  <2>7. i = h
    BY <2>4, <2>5, <2>6, OneCall
  <2> DEFINE c == program[i]
             j == k - Base(program, nprocs)[i-1]
  <2>8. Meets(log, nprocs, c, j, k, p) /\ Meets(log, nprocs, c, j, k, q)
    BY <2>4, <2>5, <2>7
  <2>9. c.call \in {"superstep", "bsp_fold"} \union Broadcasts \union Reductions
    BY <2>1, CallTyped
  <2>10. j \in 1 .. Parts(c, nprocs) /\ Parts(c, nprocs) \in 0 .. 2
    <3>1. /\ Base(program, nprocs)[i] = Base(program, nprocs)[i-1] + Parts(c, nprocs)
          /\ Base(program, nprocs)[i] \in Nat /\ Base(program, nprocs)[i-1] \in Nat
      <4>1. i - 1 \in 0 .. Len(program) /\ i \in 0 .. Len(program)
        BY <2>6, BaseIs
      <4> QED BY <2>6, <4>1, BaseIs DEF Places
    <3>2. k \in Base(program, nprocs)[i-1] + 1 .. Base(program, nprocs)[i]
      BY <2>4 DEF Between
    <3> DEFINE most == Parts(c, nprocs)
    <3>3. most \in 0 .. 2
      BY PartsTyped
    <3> HIDE DEF c, most
    <3>4. j \in 1 .. most
      BY <3>1, <3>2, <3>3 DEF most
    <3> QED BY <3>3, <3>4 DEF most
  <2>11. j = 2 => c.call \in Broadcasts \/ c.call \in Reductions
    <3> SUFFICES ASSUME j = 2 PROVE c.call \in Broadcasts \/ c.call \in Reductions
      OBVIOUS
    <3>1. 2 <= Parts(c, nprocs)
      BY <2>10
    <3> QED BY <2>1, <3>1, SecondPart
  <2> HIDE DEF c
  <2>12. j = 1 \/ j = 2
    <3> HIDE DEF j
    <3> QED BY <2>10
  <2> HIDE DEF j
  <2>13. CASE j = 1
    <3>1. First(c, log[p][k], p) /\ First(c, log[q][k], q)
      BY <2>8, <2>13 DEF Meets
    <3> QED BY <2>9, <3>1 DEF First
  <2>14. CASE j = 2 /\ c.call \in Broadcasts
    <3>1. SecondBcast(c, log, k, p) /\ SecondBcast(c, log, k, q)
      BY <2>8, <2>14 DEF Meets
    <3> QED BY <3>1 DEF SecondBcast
  <2>15. CASE j = 2 /\ c.call \in Reductions
    <3>1. SecondGather(c, nprocs, log, k, p) /\ SecondGather(c, nprocs, log, k, q)
      BY <2>8, <2>15 DEF Meets
    <3> QED BY <3>1 DEF SecondGather
  <2> QED BY <2>11, <2>12, <2>13, <2>14, <2>15
<1> QED BY <1>1, AlwaysInv, PTL

(* In every dataset that is filled, sent, received or read the elements    *)
(* written by add_elem lie one behind the other within the buffer:         *)
(* next_pos leaves room for the whole of an element, and a broadcast or an *)
(* all-gather moves none.                                                  *)
THEOREM ElementsLieApart == OSpec => []ElementsApart
<1>1. Inv => ElementsApart
  BY NodeHas DEF ElementsApart
<1> QED BY <1>1, AlwaysInv, PTL

=============================================================================
