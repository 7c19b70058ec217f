--------------------------- MODULE DelivTableProofs ---------------------------
(***************************************************************************)
(* Proofs about DelivTable, for any number of processes, types, sizes and  *)
(* pushes: however often the table grows, each list holds the elements     *)
(* pushed, in order; so does the table it is received in; and the chain of *)
(* the messages goes through all columns.                                  *)
(*                                                                         *)
(* The invariant gives each list the places of its elements, counted from  *)
(* the top of the column so that a growth of the table leaves them as they *)
(* are.  All of an element lies between the index and the used part of its *)
(* column, so the next push does not touch it; and no number is in two     *)
(* lists, so the slot of a link belongs to one list only.                  *)
(***************************************************************************)
EXTENDS DelivTable, Recursion

-----------------------------------------------------------------------------
(* The invariant. *)

(* The list of the elements ids at these places behind slot base, all      *)
(* within the first "top" slots from there.                                *)
IsList(d, base, top, ids, places) ==
  /\ places \in [1 .. Len(ids) -> Nat]
  /\ \A k \in 1 .. Len(ids) :
       /\ places[k] >= IndexSlots
       /\ places[k] + TagSlots + no_slots(d[base + places[k]].size) <= top
       /\ IsElement(d, base + places[k], ids[k])
       /\ d[base + places[k]].next \in Int /\ d[base + places[k]].size \in Nat
  /\ \A k \in 1 .. Len(ids) - 1 : places[k+1] = places[k] + d[base + places[k]].next

(* Where following the links leads. *)
Places(d, base, first, n) == [k \in 1 .. n |-> Visited(d, base + first, n)[k] - base]

Shape ==
  /\ TypeOK
  /\ data \in [0 .. NProcs * rows - 1 -> [id : Nat, next : Int, size : Nat]]
  /\ log \in [Column -> [Types -> Seq(Nat)]]
  /\ \A p \in Column, t \in Types : count[p][t] = Len(log[p][t])

(* The numbers of the elements: each is in one place of one list. *)
Numbered ==
  \A p \in Column, t \in Types : \A k \in DOMAIN log[p][t] :
    /\ k <= log[p][t][k] /\ log[p][t][k] <= pushes
    /\ \A q \in Column, u \in Types : \A l \in DOMAIN log[q][u] :
         log[p][t][k] = log[q][u][l] => p = q /\ t = u /\ k = l

(* Each list of a column of the table. *)
HasList(p, t, places) ==
  /\ IsList(data, p * rows, used[p], log[p][t], places)
  /\ count[p][t] > 0 => places[1] = start[p][t] /\ places[count[p][t]] = end[p][t]
Lists ==
  \A p \in Column, t \in Types :
    HasList(p, t, Places(data, p * rows, start[p][t], count[p][t]))

TableInv == Shape /\ Numbered /\ Lists


-----------------------------------------------------------------------------
(* Slots. *)

(* Row i of column p in a table with columns of r slots. *)
LEMMA SlotOfRow ==
  ASSUME NEW p \in Nat, NEW r \in Nat, NEW i \in 0 .. r-1
  PROVE  /\ (p * r + i) \div r = p /\ (p * r + i) % r = i
         /\ p * r \in Nat /\ p * r + i \in Nat
  OBVIOUS

LEMMA RowOfSlot ==
  ASSUME NEW r \in Nat, NEW s \in 0 .. NProcs * r - 1
  PROVE  /\ s \div r \in Column /\ s % r \in 0 .. r-1 /\ r > 0
         /\ s = (s \div r) * r + (s % r)
<1>1. NProcs \in Nat /\ r > 0 /\ s \in Nat
  BY NProcsAssumption
<1>2. s = (s \div r) * r + (s % r) /\ s % r \in 0 .. r-1 /\ s \div r \in Nat
  BY <1>1
<1>3. s \div r <= NProcs - 1
  BY <1>1
<1> QED BY <1>1, <1>2, <1>3 DEF Column

LEMMA SlotInTable ==
  ASSUME NEW p \in Column, NEW r \in Nat, NEW i \in 0 .. r-1
  PROVE  p * r + i \in 0 .. NProcs * r - 1
<1>1. p \in Nat /\ p + 1 <= NProcs /\ NProcs \in Nat
  BY NProcsAssumption DEF Column
<1>2. (p + 1) * r <= NProcs * r
  BY <1>1
<1>3. (p + 1) * r = p * r + r
  BY <1>1
<1> QED BY <1>1, <1>2, <1>3

LEMMA SlotsApart ==
  ASSUME NEW p \in Column, NEW q \in Column, NEW r \in Nat, NEW i \in 0 .. r-1, NEW j \in 0 .. r-1,
         p * r + i = q * r + j
  PROVE  p = q /\ i = j
<1>1. p \in Nat /\ q \in Nat
  BY DEF Column
<1>2. (p * r + i) \div r = p /\ (p * r + i) % r = i
  BY <1>1, SlotOfRow
<1>3. (q * r + j) \div r = q /\ (q * r + j) % r = j
  BY <1>1, SlotOfRow
<1> QED BY <1>2, <1>3

LEMMA SlotsOfData == ASSUME NEW size \in Nat PROVE no_slots(size) \in Nat
  BY DEF no_slots, SlotBytes

-----------------------------------------------------------------------------
(* Lists. *)

(* Following the links. *)
LEMMA VisitedIs ==
  ASSUME NEW d, NEW s, NEW n \in Nat, NEW f \in [1 .. n -> Int],
         n > 0 => f[1] = s,
         \A k \in 1 .. n-1 : f[k+1] = f[k] + d[f[k]].next
  PROVE  Visited(d, s, n) = f
<1> DEFINE G(k, x) == x + d[x].next
           Rec(g) == g = [k \in 1 .. n |-> IF k = 1 THEN s ELSE G(k, g[k-1])]
           g == CHOOSE g : Rec(g)
<1>1. Rec(f)
  <2>1. ASSUME NEW k \in 1 .. n PROVE f[k] = IF k = 1 THEN s ELSE G(k, f[k-1])
    <3>1. CASE k = 1
      BY <3>1
    <3>2. CASE k # 1
      <4>1. k - 1 \in 1 .. n-1 /\ (k - 1) + 1 = k
        BY <3>2
      <4>2. f[(k-1)+1] = f[k-1] + d[f[k-1]].next
        BY <4>1
      <4> QED BY <3>2, <4>1, <4>2
    <3> QED BY <3>1, <3>2
  <2> HIDE DEF G
  <2> QED BY <2>1
<1>2. Rec(g)
  <2> HIDE DEF Rec
  <2> QED BY <1>1
<1>3. Visited(d, s, n) = g
  BY DEF Visited
<1> HIDE DEF g
<1>4. g = [k \in 1 .. n |-> g[k]]
  <2> HIDE DEF G
  <2> QED BY <1>2
<1>5. \A k \in 1 .. n : g[k] = f[k]
  <2> DEFINE T == {k \in 0 .. n : k > 0 => g[k] = f[k]}
  <2>1. ASSUME NEW k \in 0 .. n-1, k \in T PROVE k + 1 \in T
    <3>1. /\ f[k+1] = IF k + 1 = 1 THEN s ELSE G(k+1, f[(k+1)-1])
          /\ g[k+1] = IF k + 1 = 1 THEN s ELSE G(k+1, g[(k+1)-1])
      <4>1. k + 1 \in 1 .. n
        OBVIOUS
      <4> HIDE DEF G
      <4> QED BY <1>1, <1>2, <4>1
    <3>2. k # 0 => f[k] = g[k]
      BY <2>1
    <3>3. (k + 1) - 1 = k /\ (k + 1 = 1 <=> k = 0)
      OBVIOUS
    <3> HIDE DEF G
    <3>4. f[k+1] = g[k+1]
      BY <3>1, <3>2, <3>3
    <3> QED BY <3>4
  <2>2. 0 \in T
    OBVIOUS
  <2>3. 0 .. n \subseteq T
    <3> HIDE DEF T
    <3> QED BY <2>1, <2>2, BoundedInduction
  <2> QED BY <2>3
<1> QED BY <1>3, <1>4, <1>5

(* The places are where the links lead. *)
BeginsAt(ids, places, first) == ids # <<>> => places[1] = first
SlotsFrom(base, places, n) == [k \in 1 .. n |-> base + places[k]]
LinksLead(d, base, first, n, places) ==
  /\ Visited(d, base + first, n) = SlotsFrom(base, places, n)
  /\ Places(d, base, first, n) = places

LEMMA PlacesAre ==
  ASSUME NEW d, NEW base, NEW top, NEW ids, NEW places, NEW first,
         base \in Nat, ids \in Seq(Nat), first \in Nat,
         IsList(d, base, top, ids, places), BeginsAt(ids, places, first)
  PROVE  LinksLead(d, base, first, Len(ids), places)
<1> DEFINE n == Len(ids)
           f == [k \in 1 .. n |-> base + places[k]]
<1>1. n \in Nat /\ places \in [1 .. n -> Nat] /\ (n > 0 => places[1] = first)
      /\ \A k \in 1 .. n : d[base + places[k]].next \in Int
  BY DEF IsList, BeginsAt
<1>0. \A k \in 1 .. n-1 : places[k+1] = places[k] + d[base + places[k]].next
  BY DEF IsList
<1> HIDE DEF n
<1>2. f \in [1 .. n -> Int] /\ (n > 0 => f[1] = base + first)
  BY <1>1
<1>3. ASSUME NEW k \in 1 .. n-1 PROVE f[k+1] = f[k] + d[f[k]].next
  <2>1. /\ f[k] = base + places[k] /\ f[k+1] = base + places[k+1]
        /\ places[k] \in Nat /\ places[k+1] \in Nat
    BY <1>1
  <2> DEFINE x == d[base + places[k]].next
  <2>2. places[k+1] = places[k] + x
    BY <1>0
  <2>3. f[k] + d[f[k]].next = (base + places[k]) + x
    BY <2>1
  <2>4. x \in Int => base + (places[k] + x) = (base + places[k]) + x
    BY <2>1
  <2>5. x \in Int
    BY <1>1
  <2> HIDE DEF x, f
  <2> QED BY <2>1, <2>2, <2>3, <2>4, <2>5
<1>4. Visited(d, base + first, n) = f
  <2> HIDE DEF f
  <2> QED BY <1>1, <1>2, <1>3, VisitedIs
<1>5. Places(d, base, first, n) = places
  BY <1>1, <1>4 DEF Places
<1> QED BY <1>4, <1>5 DEF n, SlotsFrom, LinksLead

(* What a list needs of the slots: another table that has the same         *)
(* elements in the rows below top, and the same links but for the last.    *)
SameElements(d, base, d2, base2, top) ==
  \A i \in 0 .. top-1 : /\ base2 + i \in DOMAIN d2
                        /\ d2[base2 + i].id = d[base + i].id
                        /\ d2[base2 + i].size = d[base + i].size
SameLinks(d, base, d2, base2, ids, places) ==
  /\ \A k \in 1 .. Len(ids)-1 : d2[base2 + places[k]].next = d[base + places[k]].next
  /\ \A k \in 1 .. Len(ids) : d2[base2 + places[k]].next \in Int

(* One element of a list, in terms of its rows. *)
ElementAt(d, base, row, top, id) ==
  /\ d[base + row].size \in Nat /\ d[base + row].id = id
  /\ row + TagSlots + no_slots(d[base + row].size) <= top
  /\ \A i \in row .. row + TagSlots + no_slots(d[base + row].size) - 1 :
       base + i \in DOMAIN d /\ d[base + i].id = id

LEMMA ElementRows ==
  ASSUME NEW d, NEW base \in Nat, NEW row \in Nat, NEW top \in Nat, NEW id,
         d[base + row].size \in Nat,
         row + TagSlots + no_slots(d[base + row].size) <= top
  PROVE  IsElement(d, base + row, id) <=> ElementAt(d, base, row, top, id)
<1> DEFINE n == TagSlots + no_slots(d[base + row].size)
<1>1. n \in Nat /\ n >= 1
  BY SlotsOfData DEF TagSlots
<1>2. /\ row + TagSlots + no_slots(d[base + row].size) = row + n
      /\ (base + row) + TagSlots + no_slots(d[base + row].size) - 1 = (base + row) + n - 1
      /\ row + TagSlots + no_slots(d[base + row].size) - 1 = row + n - 1
  BY SlotsOfData DEF TagSlots
<1> DEFINE a == \A i \in base + row .. (base + row) + n - 1 : i \in DOMAIN d /\ d[i].id = id
           b == \A i \in row .. row + n - 1 : base + i \in DOMAIN d /\ d[base + i].id = id
<1> HIDE DEF n
<1>3. ASSUME a PROVE b
  <2> SUFFICES ASSUME NEW i \in row .. row + n - 1
               PROVE  base + i \in DOMAIN d /\ d[base + i].id = id
    OBVIOUS
  <2>1. base + i \in base + row .. (base + row) + n - 1
    BY <1>1
  <2> QED BY <1>3, <2>1
<1>4. ASSUME b PROVE a
  <2> SUFFICES ASSUME NEW i \in base + row .. (base + row) + n - 1
               PROVE  i \in DOMAIN d /\ d[i].id = id
    OBVIOUS
  <2>1. i - base \in row .. row + n - 1 /\ base + (i - base) = i
    BY <1>1
  <2> QED BY <1>4, <2>1
<1>5. b => d[base + row].id = id
  <2>1. row \in row .. row + n - 1
    BY <1>1
  <2> QED BY <2>1
<1>6. IsElement(d, base + row, id) <=> a
  BY <1>2 DEF IsElement
<1>7. ElementAt(d, base, row, top, id) <=> b
  BY <1>2, <1>5 DEF ElementAt
<1> QED BY <1>3, <1>4, <1>6, <1>7

LEMMA ElementKept ==
  ASSUME NEW d, NEW base \in Nat, NEW d2, NEW base2 \in Nat, NEW top \in Nat, NEW top2 \in Nat,
         top <= top2, SameElements(d, base, d2, base2, top), NEW row \in Nat, NEW id,
         ElementAt(d, base, row, top, id)
  PROVE  ElementAt(d2, base2, row, top2, id)
<1> DEFINE n == no_slots(d[base + row].size)
<1>1. n \in Nat /\ row + TagSlots + n <= top /\ d[base + row].size \in Nat
  BY SlotsOfData DEF ElementAt
<1>2. row \in 0 .. top-1
  BY <1>1 DEF TagSlots
<1>3. d2[base2 + row].size = d[base + row].size /\ d2[base2 + row].id = d[base + row].id
  BY <1>2 DEF SameElements
<1>4. ASSUME NEW i \in row .. row + TagSlots + n - 1
      PROVE  base2 + i \in DOMAIN d2 /\ d2[base2 + i].id = id
  <2>1. i \in 0 .. top-1
    BY <1>1 DEF TagSlots
  <2>2. d[base + i].id = id
    BY DEF ElementAt
  <2> QED BY <2>1, <2>2 DEF SameElements
<1>5. row + TagSlots + n <= top2
  BY <1>1 DEF TagSlots
<1> QED BY <1>3, <1>4, <1>5 DEF ElementAt

(* An element and a list, in these terms. *)
Listed(d, base, top, ids, places) ==
  /\ places \in [1 .. Len(ids) -> Nat]
  /\ \A k \in 1 .. Len(ids) : /\ places[k] >= IndexSlots
                              /\ d[base + places[k]].next \in Int
                              /\ ElementAt(d, base, places[k], top, ids[k])
  /\ \A k \in 1 .. Len(ids) - 1 : places[k+1] = places[k] + d[base + places[k]].next

LEMMA ListAt ==
  ASSUME NEW d, NEW base \in Nat, NEW top \in Nat, NEW ids \in Seq(Nat), NEW places
  PROVE  IsList(d, base, top, ids, places) <=> Listed(d, base, top, ids, places)
<1>1. ASSUME places \in [1 .. Len(ids) -> Nat], NEW k \in 1 .. Len(ids)
      PROVE  /\ d[base + places[k]].size \in Nat
             /\ places[k] + TagSlots + no_slots(d[base + places[k]].size) <= top
             /\ IsElement(d, base + places[k], ids[k])
             <=> ElementAt(d, base, places[k], top, ids[k])
  <2>1. places[k] \in Nat
    BY <1>1
  <2> DEFINE row == places[k]
             id == ids[k]
  <2> HIDE DEF row, id
  <2>2. row \in Nat
    BY <2>1 DEF row
  <2>3. (d[base + row].size \in Nat /\ row + TagSlots + no_slots(d[base + row].size) <= top)
          => (IsElement(d, base + row, id) <=> ElementAt(d, base, row, top, id))
    BY <2>2, ElementRows
  <2>4. ElementAt(d, base, row, top, id)
          => d[base + row].size \in Nat /\ row + TagSlots + no_slots(d[base + row].size) <= top
    BY DEF ElementAt
  <2> QED BY <2>3, <2>4 DEF row, id
<1> QED BY <1>1 DEF IsList, Listed

LEMMA ListKept ==
  ASSUME NEW d, NEW base \in Nat, NEW d2, NEW base2 \in Nat, NEW top \in Nat, NEW top2 \in Nat,
         top <= top2, NEW ids \in Seq(Nat), NEW places,
         SameElements(d, base, d2, base2, top), SameLinks(d, base, d2, base2, ids, places),
         IsList(d, base, top, ids, places)
  PROVE  IsList(d2, base2, top2, ids, places)
<1>1. /\ places \in [1 .. Len(ids) -> Nat]
      /\ \A k \in 1 .. Len(ids) : /\ places[k] >= IndexSlots
                                  /\ d[base + places[k]].next \in Int
                                  /\ ElementAt(d, base, places[k], top, ids[k])
      /\ \A k \in 1 .. Len(ids) - 1 : places[k+1] = places[k] + d[base + places[k]].next
  <2>1. Listed(d, base, top, ids, places)
    BY ListAt
  <2> QED BY <2>1 DEF Listed
<1>2. ASSUME NEW k \in 1 .. Len(ids)
      PROVE  /\ places[k] >= IndexSlots /\ d2[base2 + places[k]].next \in Int
             /\ ElementAt(d2, base2, places[k], top2, ids[k])
  <2>1. places[k] \in Nat /\ places[k] >= IndexSlots /\ ElementAt(d, base, places[k], top, ids[k])
    BY <1>1
  <2>2. ElementAt(d2, base2, places[k], top2, ids[k])
    BY <2>1, ElementKept
  <2> QED BY <2>1, <2>2 DEF SameLinks
<1>3. \A k \in 1 .. Len(ids) - 1 : places[k+1] = places[k] + d2[base2 + places[k]].next
  BY <1>1 DEF SameLinks
<1> QED BY <1>1, <1>2, <1>3, ListAt DEF Listed

LEMMA NoElements ==
  ASSUME NEW d, NEW base \in Nat, NEW top \in Nat
  PROVE  IsList(d, base, top, <<>>, <<>>)
<1>1. Len(<<>>) = 0 /\ <<>> \in [1 .. 0 -> Nat]
  OBVIOUS
<1> QED BY <1>1 DEF IsList

(* All of a list but its last link survived, the last one leads to the     *)
(* place of the new element, and that lies in the slots that are new.      *)
OneMore(places, n, top) == [k \in 1 .. n+1 |-> IF k <= n THEN places[k] ELSE top]
LastLeadsTo(d, base, places, n, top) ==
  n > 0 => top = places[n] + d[base + places[n]].next

LEMMA ListGrows ==
  ASSUME NEW d, NEW base, NEW d2, NEW base2, NEW top, NEW top2, NEW ids, NEW places, NEW id,
         base \in Nat, base2 \in Nat, top \in Nat, top2 \in Nat, top <= top2,
         ids \in Seq(Nat), id \in Nat,
         SameElements(d, base, d2, base2, top), SameLinks(d, base, d2, base2, ids, places),
         IsList(d, base, top, ids, places),
         top >= IndexSlots, d2[base2 + top].next \in Int, ElementAt(d2, base2, top, top2, id),
         LastLeadsTo(d2, base2, places, Len(ids), top)
  PROVE  IsList(d2, base2, top2, Append(ids, id), OneMore(places, Len(ids), top))
<1> DEFINE n == Len(ids)
           more == Append(ids, id)
           all == [k \in 1 .. n+1 |-> IF k <= n THEN places[k] ELSE top]
<1>1. /\ n \in Nat /\ more \in Seq(Nat) /\ Len(more) = n + 1 /\ more[n+1] = id
      /\ \A k \in 1 .. n : more[k] = ids[k]
  OBVIOUS
<1>0. n \in Nat
  OBVIOUS
<1>2. /\ places \in [1 .. n -> Nat]
      /\ \A k \in 1 .. n : /\ places[k] >= IndexSlots
                           /\ d2[base2 + places[k]].next \in Int
                           /\ ElementAt(d2, base2, places[k], top2, ids[k])
      /\ \A k \in 1 .. n-1 : places[k+1] = places[k] + d2[base2 + places[k]].next
  <2>1. IsList(d2, base2, top2, ids, places)
    BY ListKept
  <2>2. Listed(d2, base2, top2, ids, places)
    BY <2>1, ListAt
  <2> QED BY <2>2 DEF Listed
<1>3. n > 0 => top = places[n] + d2[base2 + places[n]].next
  BY DEF LastLeadsTo
<1> HIDE DEF n, more
<1>4. all \in [1 .. n+1 -> Nat]
  BY <1>1, <1>2
<1>5. ASSUME NEW k \in 1 .. n+1
      PROVE  /\ all[k] >= IndexSlots /\ d2[base2 + all[k]].next \in Int
             /\ ElementAt(d2, base2, all[k], top2, more[k])
  <2>1. CASE k <= n
    <3>1. k \in 1 .. n /\ all[k] = places[k] /\ more[k] = ids[k]
      BY <1>1, <2>1
    <3> QED BY <1>2, <3>1
  <2>2. CASE k = n + 1
    <3>1. all[k] = top /\ more[k] = id
      BY <1>1, <2>2
    <3> QED BY <3>1
  <2> QED BY <1>1, <2>1, <2>2
<1>6. ASSUME NEW k \in 1 .. n PROVE all[k+1] = all[k] + d2[base2 + all[k]].next
  <2>1. all[k] = places[k]
    BY <1>1
  <2>2. CASE k < n
    <3>1. k \in 1 .. n-1 /\ k + 1 \in 1 .. n+1 /\ k + 1 <= n
      BY <1>0, <2>2
    <3>2. all[k+1] = places[k+1]
      BY <3>1
    <3> QED BY <1>2, <2>1, <3>1, <3>2
  <2>3. CASE k = n
    <3>1. all[k+1] = top
      BY <1>1, <2>3
    <3> QED BY <1>3, <2>1, <2>3, <3>1
  <2> QED BY <1>1, <2>2, <2>3
<1> HIDE DEF all
<1>7. (n + 1) - 1 = n
  BY <1>1
<1>8. /\ all \in [1 .. Len(more) -> Nat]
      /\ \A k \in 1 .. Len(more) : /\ all[k] >= IndexSlots
                                   /\ d2[base2 + all[k]].next \in Int
                                   /\ ElementAt(d2, base2, all[k], top2, more[k])
      /\ \A k \in 1 .. Len(more) - 1 : all[k+1] = all[k] + d2[base2 + all[k]].next
  BY <1>1, <1>4, <1>5, <1>6, <1>7
<1>9. IsList(d2, base2, top2, more, all)
  <2>1. Listed(d2, base2, top2, more, all)
    BY <1>8 DEF Listed
  <2> QED BY <1>1, <2>1, ListAt
<1> QED BY <1>9 DEF all, more, n, OneMore

-----------------------------------------------------------------------------
(* The table. *)

Slot == [id : Nat, next : Int, size : Nat]

LEMMA Shapes ==
  ASSUME Shape, NEW p \in Column
  PROVE  /\ rows \in Nat /\ used[p] \in Nat /\ used[p] >= IndexSlots /\ used[p] <= rows
         /\ p \in Nat /\ p * rows \in Nat /\ pushes \in Nat
         /\ \A t \in Types : /\ log[p][t] \in Seq(Nat) /\ count[p][t] = Len(log[p][t])
                             /\ start[p][t] \in Nat /\ end[p][t] \in Nat
<1>1. rows \in Nat /\ used \in [Column -> IndexSlots .. rows] /\ pushes \in 0 .. MaxPush
  BY DEF Shape, TypeOK
<1>2. used[p] \in IndexSlots .. rows
  BY <1>1
<1>3. p \in Nat /\ MaxPush \in Nat
  BY SizesAssumption DEF Column
<1>4. p * rows \in Nat
  BY <1>1, <1>3
<1>5. ASSUME NEW t \in Types
      PROVE  /\ log[p][t] \in Seq(Nat) /\ count[p][t] = Len(log[p][t])
             /\ start[p][t] \in Nat /\ end[p][t] \in Nat
  <2>1. start[p][t] \in 0 .. rows /\ end[p][t] \in 0 .. rows
    BY DEF Shape, TypeOK
  <2>2. log[p][t] \in Seq(Nat) /\ count[p][t] = Len(log[p][t])
    BY DEF Shape
  <2> QED BY <1>1, <2>1, <2>2
<1> QED BY <1>1, <1>2, <1>3, <1>4, <1>5 DEF IndexSlots

(* Any places that make a list are those the invariant speaks of. *)
LEMMA HasPlaces ==
  ASSUME Shape, NEW p \in Column, NEW t \in Types, NEW places, HasList(p, t, places)
  PROVE  /\ Places(data, p * rows, start[p][t], count[p][t]) = places
         /\ Visited(data, p * rows + start[p][t], count[p][t])
              = SlotsFrom(p * rows, places, count[p][t])
<1> DEFINE base == p * rows
           ids == log[p][t]
           first == start[p][t]
           top == used[p]
<1>1. base \in Nat /\ ids \in Seq(Nat) /\ count[p][t] = Len(ids) /\ first \in Nat
  BY Shapes
<1>2. /\ IsList(data, base, top, ids, places)
      /\ count[p][t] > 0 => places[1] = first
  BY DEF HasList
<1> HIDE DEF base, ids, first, top
<1>3. BeginsAt(ids, places, first)
  BY <1>1, <1>2 DEF BeginsAt
<1>4. base \in Nat /\ first \in Nat /\ ids \in Seq(Nat) /\ IsList(data, base, top, ids, places)
  BY <1>1, <1>2
<1>5. LinksLead(data, base, first, Len(ids), places)
  BY <1>3, <1>4, PlacesAre
<1> QED BY <1>1, <1>5 DEF base, first, LinksLead

LEMMA ListsByPlaces ==
  ASSUME Shape, \A p \in Column, t \in Types : \E places : HasList(p, t, places)
  PROVE  Lists
<1> SUFFICES ASSUME NEW p \in Column, NEW t \in Types
             PROVE  HasList(p, t, Places(data, p * rows, start[p][t], count[p][t]))
  BY DEF Lists
<1>1. PICK places : HasList(p, t, places)
  OBVIOUS
<1>2. Places(data, p * rows, start[p][t], count[p][t]) = places
  BY <1>1, HasPlaces
<1> QED BY <1>1, <1>2

(* What the invariant says about one list. *)
LEMMA ListFacts ==
  ASSUME Shape, NEW p \in Column, NEW t \in Types, NEW places, HasList(p, t, places)
  PROVE  LET n == Len(log[p][t]) IN
         /\ places \in [1 .. n -> Nat] /\ n = count[p][t]
         /\ n > 0 => places[1] = start[p][t] /\ places[n] = end[p][t]
         /\ \A k \in 1 .. n :
              /\ places[k] >= IndexSlots /\ places[k] < used[p]
              /\ data[p * rows + places[k]].next \in Int
              /\ ElementAt(data, p * rows, places[k], used[p], log[p][t][k])
         /\ \A k \in 1 .. n-1 : places[k+1] = places[k] + data[p * rows + places[k]].next
<1> DEFINE base == p * rows
           ids == log[p][t]
           top == used[p]
           n == Len(ids)
<1>1. /\ base \in Nat /\ ids \in Seq(Nat) /\ count[p][t] = Len(ids)
      /\ used[p] \in Nat /\ n \in Nat
  BY Shapes
<1>2. /\ IsList(data, base, top, ids, places)
      /\ n > 0 => places[1] = start[p][t] /\ places[n] = end[p][t]
  BY <1>1 DEF HasList
<1>3. Listed(data, base, top, ids, places)
  <2>1. base \in Nat /\ top \in Nat /\ ids \in Seq(Nat) /\ IsList(data, base, top, ids, places)
    BY <1>1, <1>2
  <2> HIDE DEF base, ids, top
  <2> QED BY <2>1, ListAt
<1>4. /\ places \in [1 .. n -> Nat]
      /\ \A k \in 1 .. n : /\ places[k] >= IndexSlots
                           /\ data[base + places[k]].next \in Int
                           /\ ElementAt(data, base, places[k], top, ids[k])
      /\ \A k \in 1 .. n-1 : places[k+1] = places[k] + data[base + places[k]].next
  BY <1>3 DEF Listed
<1>5. ASSUME NEW k \in 1 .. n PROVE places[k] < top
  <2> DEFINE row == places[k]
             size == data[base + row].size
  <2>1. row \in Nat /\ ElementAt(data, base, row, top, ids[k]) /\ top \in Nat
    BY <1>1, <1>4
  <2>2. size \in Nat /\ row + TagSlots + no_slots(size) <= top
    BY <2>1 DEF ElementAt
  <2> HIDE DEF row, size, top
  <2>3. no_slots(size) \in Nat
    BY <2>2, SlotsOfData
  <2>4. row < top
    BY <2>1, <2>2, <2>3 DEF TagSlots
  <2> QED BY <2>4 DEF row
<1> QED BY <1>1, <1>2, <1>4, <1>5

-----------------------------------------------------------------------------
(* A push. *)

(* The table has room for the new element, whatever it grew to. *)
LEMMA RoomForPush ==
  ASSUME Shape, NEW p \in Column, NEW slots \in Nat
  PROVE  /\ RowsFor(p, slots) \in Nat /\ rows <= RowsFor(p, slots)
         /\ used[p] + slots <= RowsFor(p, slots)
<1> DEFINE u == used[p]
           free == rows - u
           more == Max({rows, slots - free})
<1>1. rows \in Nat /\ u \in Nat /\ u <= rows
  BY Shapes
<1>2. free \in Int /\ slots - free \in Int
  BY <1>1
<1>3. more = IF rows >= slots - free THEN rows ELSE slots - free
  BY <1>1, <1>2, MaxOfTwo
<1>4. RowsFor(p, slots) = IF slots > free THEN rows + more ELSE rows
  BY DEF RowsFor
<1> HIDE DEF u, more
<1> QED BY <1>1, <1>2, <1>3, <1>4 DEF u

(* The used slots of every column in a block with columns of r2 rows.      *)
Copy(r2) ==
  [s \in 0 .. NProcs * r2 - 1 |->
     IF s % r2 < used[s \div r2] THEN data[(s \div r2) * rows + (s % r2)] ELSE Junk]
SameRows(d2, r2) ==
  \A q \in Column : \A i \in 0 .. used[q]-1 : d2[q * r2 + i] = data[q * rows + i]
Block(d, r) == d \in [0 .. NProcs * r - 1 -> Slot]

LEMMA CopyKeeps ==
  ASSUME Shape, NEW r2 \in Nat, \A q \in Column : used[q] <= r2
  PROVE  Block(Copy(r2), r2) /\ SameRows(Copy(r2), r2)
<1>1. data \in [0 .. NProcs * rows - 1 -> Slot] /\ rows \in Nat
  BY DEF Shape, TypeOK, Slot
<1> DEFINE m == Copy(r2)
           at(s) == data[(s \div r2) * rows + (s % r2)]
<1>2. m = [s \in 0 .. NProcs * r2 - 1 |-> IF s % r2 < used[s \div r2] THEN at(s) ELSE Junk]
  BY DEF Copy
<1>3. ASSUME NEW s \in 0 .. NProcs * r2 - 1 PROVE m[s] \in Slot
  <2>1. Junk \in Slot
    BY DEF Junk, Slot
  <2>2. ASSUME s % r2 < used[s \div r2] PROVE at(s) \in Slot
    <3> DEFINE p == s \div r2
               i == s % r2
    <3>1. p \in Column /\ i \in 0 .. r2-1
      BY RowOfSlot
    <3>2. used[p] \in Nat /\ used[p] <= rows
      BY <3>1, Shapes
    <3>3. i < used[p]
      BY <2>2
    <3> HIDE DEF p, i
    <3>4. i \in 0 .. rows-1
      BY <1>1, <3>1, <3>2, <3>3
    <3>5. p * rows + i \in 0 .. NProcs * rows - 1
      BY <1>1, <3>1, <3>4, SlotInTable
    <3>6. data[p * rows + i] \in Slot
      BY <1>1, <3>5
    <3> QED BY <3>6 DEF p, i
  <2> HIDE DEF at
  <2> QED BY <1>2, <2>1, <2>2
<1>4. ASSUME NEW q \in Column, NEW i \in 0 .. used[q]-1
      PROVE  m[q * r2 + i] = data[q * rows + i]
  <2>1. used[q] \in Nat /\ used[q] <= r2 /\ q \in Nat
    BY Shapes
  <2>2. i \in 0 .. r2-1 /\ i < used[q]
    BY <2>1
  <2> DEFINE s == q * r2 + i
  <2>3. s \in 0 .. NProcs * r2 - 1
    BY <2>2, SlotInTable
  <2>4. s \div r2 = q /\ s % r2 = i
    BY <2>1, <2>2, SlotOfRow
  <2> HIDE DEF s
  <2>5. m[s] = IF s % r2 < used[s \div r2] THEN at(s) ELSE Junk
    BY <1>2, <2>3
  <2> QED BY <2>2, <2>4, <2>5 DEF s
<1>5. m \in [0 .. NProcs * r2 - 1 -> Slot]
  <2> HIDE DEF at
  <2>1. m = [s \in 0 .. NProcs * r2 - 1 |-> m[s]]
    BY <1>2
  <2> HIDE DEF m
  <2> QED BY <1>3, <2>1
<1> QED BY <1>4, <1>5 DEF Block, SameRows

(* The block in which the element is written. *)
Room(newrows) == IF newrows = rows THEN data ELSE Moved(data, rows, newrows)

LEMMA RoomKeeps ==
  ASSUME Shape, NEW newrows \in Nat, rows <= newrows
  PROVE  Block(Room(newrows), newrows) /\ SameRows(Room(newrows), newrows)
<1>1. CASE newrows = rows
  BY <1>1 DEF Room, Shape, Slot, Block, SameRows
<1>2. CASE newrows # rows
  <2>1. Room(newrows) = Copy(newrows)
    BY <1>2 DEF Room, Moved, Copy
  <2>2. ASSUME NEW q \in Column PROVE used[q] <= newrows
    BY Shapes
  <2> QED BY <2>1, <2>2, CopyKeeps
<1> QED BY <1>1, <1>2

(* What a push leaves behind each row in use: the elements as they were,   *)
(* and one link that is new.                                               *)
NextAfter(p, t, q, i) ==
  IF count[p][t] > 0 /\ q = p /\ i = end[p][t] THEN Link(p, t) ELSE data[q * rows + i].next
AfterPush(p, t, d2, r2) ==
  \A q \in Column : \A i \in 0 .. used[q]-1 :
    /\ d2[q * r2 + i].id = data[q * rows + i].id
    /\ d2[q * r2 + i].size = data[q * rows + i].size
    /\ d2[q * r2 + i].next = NextAfter(p, t, q, i)
NewSlots(p, d2, r2, slots, slot) ==
  \A i \in used[p] .. used[p] + slots - 1 : d2[p * r2 + i] = slot

Linked(d, x, v, link) == IF link THEN [d EXCEPT ![x].next = v] ELSE d
LinkedAs(d2, d, D, x, v, link) ==
  \A s \in D : /\ d2[s].id = d[s].id /\ d2[s].size = d[s].size
              /\ d2[s].next = IF link /\ s = x THEN v ELSE d[s].next

LEMMA Relinked ==
  ASSUME NEW D, NEW d, NEW x, NEW v, NEW link,
         d \in [D -> Slot], v \in Int, link \in BOOLEAN
  PROVE  /\ Linked(d, x, v, link) \in [D -> Slot]
         /\ LinkedAs(Linked(d, x, v, link), d, D, x, v, link)
<1> DEFINE d1 == [d EXCEPT ![x].next = v]
<1>1. ASSUME NEW s \in D
      PROVE  /\ d1[s] \in Slot /\ d1[s].id = d[s].id /\ d1[s].size = d[s].size
             /\ d1[s].next = IF s = x THEN v ELSE d[s].next
  <2>1. d[s] \in Slot
    OBVIOUS
  <2>2. d1[s] = IF s = x THEN [d[s] EXCEPT !.next = v] ELSE d[s]
    OBVIOUS
  <2> HIDE DEF d1
  <2> DEFINE e == d[s]
             f == [e EXCEPT !.next = v]
  <2>3. f \in Slot /\ f.id = e.id /\ f.size = e.size /\ f.next = v
    <3> HIDE DEF e
    <3> QED BY <2>1 DEF Slot, e
  <2> HIDE DEF f
  <2> QED BY <2>1, <2>2, <2>3 DEF f
<1>2. d1 \in [D -> Slot]
  <2>1. d1 = [s \in D |-> d1[s]]
    OBVIOUS
  <2> HIDE DEF d1
  <2> QED BY <1>1, <2>1
<1> HIDE DEF d1
<1>3. Linked(d, x, v, link) = IF link THEN d1 ELSE d
  BY DEF Linked, d1
<1> QED BY <1>1, <1>2, <1>3 DEF LinkedAs

Fills(d2, d, p, r, base, slots, slot) ==
  d2 = [s \in DOMAIN d |-> IF s \in p * r + base .. p * r + base + slots - 1 THEN slot ELSE d[s]]
FilledAs(d2, d, p, r, base, slots, slot) ==
  /\ d2 \in [0 .. NProcs * r - 1 -> Slot]
  /\ \A i \in base .. base + slots - 1 : d2[p * r + i] = slot
  /\ \A q \in Column : \A i \in 0 .. r-1 :
       q # p \/ i < base => d2[q * r + i] = d[q * r + i]

LEMMA Written ==
  ASSUME NEW r, NEW p, NEW base, NEW slots, NEW d, NEW d2, NEW slot,
         r \in Nat, p \in Column, base \in Nat, slots \in Nat, base + slots <= r,
         d \in [0 .. NProcs * r - 1 -> Slot], slot \in Slot,
         Fills(d2, d, p, r, base, slots, slot)
  PROVE  FilledAs(d2, d, p, r, base, slots, slot)
<1> DEFINE at == p * r + base
<1>1. p \in Nat /\ p * r \in Nat
  BY DEF Column
<1>2. d2 = [s \in 0 .. NProcs * r - 1 |-> IF s \in at .. at + slots - 1 THEN slot ELSE d[s]]
  BY DEF Fills
<1>3. d2 \in [0 .. NProcs * r - 1 -> Slot]
  BY <1>2
<1>4. ASSUME NEW i \in base .. base + slots - 1 PROVE d2[p * r + i] = slot
  <2>1. i \in 0 .. r-1
    OBVIOUS
  <2>2. p * r + i \in 0 .. NProcs * r - 1
    BY <2>1, SlotInTable
  <2>3. p * r + i \in at .. at + slots - 1
    BY <1>1
  <2> QED BY <1>2, <2>2, <2>3
<1>5. ASSUME NEW q \in Column, NEW i \in 0 .. r-1, q # p \/ i < base
      PROVE  d2[q * r + i] = d[q * r + i]
  <2> DEFINE s == q * r + i
  <2>1. s \in 0 .. NProcs * r - 1
    BY SlotInTable
  <2>2. s \notin at .. at + slots - 1
    <3> SUFFICES ASSUME s \in at .. at + slots - 1 PROVE FALSE
      OBVIOUS
    <3> DEFINE j == s - p * r
    <3>1. j \in Int /\ base <= j /\ j <= base + slots - 1 /\ s = p * r + j
      <4>1. s \in Int
        BY <2>1
      <4> HIDE DEF s
      <4> QED BY <1>1, <4>1
    <3> HIDE DEF j
    <3>2. j \in 0 .. r-1
      BY <3>1
    <3>3. q * r + i = p * r + j
      BY <3>1
    <3>4. q = p /\ i = j
      BY <3>2, <3>3, SlotsApart
    <3> QED BY <1>5, <3>1, <3>4
  <2> HIDE DEF s, at
  <2>3. d2[s] = d[s]
    BY <1>2, <2>1, <2>2
  <2> QED BY <2>3 DEF s
<1> QED BY <1>3, <1>4, <1>5 DEF FilledAs

LEMMA Pushed ==
  ASSUME Shape, NEW p \in Column, NEW t \in Types, NEW size \in Sizes, Push(p, t, size),
         count[p][t] > 0 => end[p][t] < used[p]
  PROVE  /\ rows' \in Nat /\ rows <= rows'
         /\ used'[p] = used[p] + TagSlots + no_slots(size) /\ used'[p] <= rows'
         /\ data' \in [0 .. NProcs * rows' - 1 -> Slot]
         /\ AfterPush(p, t, data', rows')
         /\ NewSlots(p, data', rows', TagSlots + no_slots(size), ElementSlot(pushes + 1, size))
<1> DEFINE slots == TagSlots + no_slots(size)
           r == RowsFor(p, slots)
           moved == Room(r)
           v == Link(p, t)
           x == p * r + end[p][t]
           linked == Linked(moved, x, v, count[p][t] > 0)
           slot == ElementSlot(pushes + 1, size)
<1>1. size \in Nat /\ no_slots(size) \in Nat /\ slots \in Nat
  BY SizesAssumption, SlotsOfData DEF TagSlots
<1>2. /\ used[p] \in Nat /\ used[p] <= rows /\ pushes \in Nat /\ p \in Nat
      /\ end[p][t] \in Nat /\ v \in Int
      /\ (count[p][t] > 0) \in BOOLEAN /\ count[p][t] \in Nat
  BY Shapes DEF Link
<1>0. rows \in Nat
  BY Shapes
<1>3. r \in Nat /\ rows <= r /\ used[p] + slots <= r
  <2> HIDE DEF slots
  <2> QED BY <1>1, RoomForPush
<1>4. rows' = r
  BY DEF Push
<1>5. /\ moved \in [0 .. NProcs * r - 1 -> Slot]
      /\ \A q \in Column : \A i \in 0 .. used[q]-1 : moved[q * r + i] = data[q * rows + i]
  <2> HIDE DEF r
  <2>1. Block(moved, r) /\ SameRows(moved, r)
    BY <1>3, RoomKeeps
  <2> QED BY <2>1 DEF Block, SameRows
<1>6. slot \in Slot
  BY <1>1, <1>2 DEF ElementSlot, Slot
<1>7. /\ linked \in [0 .. NProcs * r - 1 -> Slot]
      /\ \A s \in 0 .. NProcs * r - 1 :
           /\ linked[s].id = moved[s].id /\ linked[s].size = moved[s].size
           /\ linked[s].next = IF count[p][t] > 0 /\ s = x THEN v ELSE moved[s].next
  <2> DEFINE D == 0 .. NProcs * r - 1
             link == count[p][t] > 0
  <2>1. moved \in [D -> Slot] /\ v \in Int /\ link \in BOOLEAN
    BY <1>2, <1>5
  <2> HIDE DEF D, moved, v, x, link
  <2>2. Linked(moved, x, v, link) \in [D -> Slot] /\ LinkedAs(Linked(moved, x, v, link), moved, D, x, v, link)
    BY <2>1, Relinked
  <2> QED BY <2>2 DEF D, link, LinkedAs
<1>8. data' = [s \in DOMAIN linked |->
                 IF s \in p * r + used[p] .. p * r + used[p] + slots - 1 THEN slot ELSE linked[s]]
  <2>1. moved = IF r = rows THEN data ELSE Moved(data, rows, r)
    BY DEF Room
  <2>2. linked = IF count[p][t] = 0 THEN moved ELSE [moved EXCEPT ![x].next = v]
    BY <1>2 DEF Linked
  <2>3. pushes' = pushes + 1
    BY DEF Push
  <2> QED BY <2>1, <2>2, <2>3 DEF Push
<1>9. used'[p] = used[p] + TagSlots + no_slots(size)
  <2>1. used' = [used EXCEPT ![p] = @ + slots] /\ used \in [Column -> IndexSlots .. rows]
    BY DEF Push, Shape, TypeOK
  <2>2. used'[p] = used[p] + slots
    BY <2>1
  <2> QED BY <1>1, <1>2, <2>2 DEF TagSlots
<1>10. used'[p] = used[p] + slots
  BY <1>1, <1>2, <1>9 DEF TagSlots
<1> HIDE DEF slot, linked, slots, r
<1>11. /\ data' \in [0 .. NProcs * r - 1 -> Slot]
       /\ \A i \in used[p] .. used[p] + slots - 1 : data'[p * r + i] = slot
       /\ \A q \in Column : \A i \in 0 .. r-1 :
            q # p \/ i < used[p] => data'[q * r + i] = linked[q * r + i]
  <2> DEFINE base == used[p]
  <2>1. base \in Nat /\ base + slots <= r
    BY <1>2, <1>3
  <2> HIDE DEF base
  <2>2. Fills(data', linked, p, r, base, slots, slot)
    BY <1>8 DEF base, Fills
  <2>3. FilledAs(data', linked, p, r, base, slots, slot)
    BY <1>1, <1>3, <1>6, <1>7, <2>1, <2>2, Written
  <2> QED BY <2>3 DEF base, FilledAs
<1>12. ASSUME NEW q \in Column, NEW i \in 0 .. used[q]-1
       PROVE  /\ data'[q * r + i].id = data[q * rows + i].id
              /\ data'[q * r + i].size = data[q * rows + i].size
              /\ data'[q * r + i].next = NextAfter(p, t, q, i)
  <2> DEFINE s == q * r + i
  <2>1. used[q] \in Nat /\ used[q] <= rows
    BY Shapes
  <2>2. i \in 0 .. r-1 /\ i < used[q]
    BY <1>0, <1>3, <2>1
  <2>3. q # p \/ i < used[p]
    BY <2>2
  <2>4. s \in 0 .. NProcs * r - 1
    BY <1>3, <2>2, SlotInTable
  <2>5. data'[s] = linked[s] /\ moved[s] = data[q * rows + i]
    BY <1>5, <1>11, <2>2, <2>3
  <2>6. count[p][t] > 0 => (s = x <=> q = p /\ i = end[p][t])
    <3>1. count[p][t] > 0 => end[p][t] \in 0 .. r-1
      BY <1>0, <1>2, <1>3
    <3>2. CASE end[p][t] \in 0 .. r-1
      <4> DEFINE e == end[p][t]
      <4> HIDE DEF e
      <4>1. s = p * r + e => q = p /\ i = e
        <5>1. e \in 0 .. r-1
          BY <3>2 DEF e
        <5> QED BY <1>3, <2>2, <5>1, SlotsApart
      <4> QED BY <4>1 DEF e
    <3> QED BY <3>1, <3>2
  <2> HIDE DEF s, x, moved, v
  <2>7. /\ linked[s].id = moved[s].id /\ linked[s].size = moved[s].size
        /\ linked[s].next = IF count[p][t] > 0 /\ s = x THEN v ELSE moved[s].next
    BY <1>7, <2>4
  <2> QED BY <2>5, <2>6, <2>7 DEF s, v, NextAfter
<1> QED BY <1>3, <1>4, <1>9, <1>10, <1>11, <1>12 DEF AfterPush, NewSlots, slots, slot

(* The last element of a list lies in the used part of its column. *)
LEMMA EndInColumn ==
  ASSUME TableInv, NEW p \in Column, NEW t \in Types, count[p][t] > 0
  PROVE  end[p][t] < used[p]
<1> DEFINE places == Places(data, p * rows, start[p][t], count[p][t])
           n == Len(log[p][t])
<1>1. Shape /\ HasList(p, t, places)
  BY DEF TableInv, Lists
<1>2. n \in Nat /\ n = count[p][t]
  BY <1>1, Shapes
<1> HIDE DEF places
<1>3. places[n] = end[p][t] /\ \A k \in 1 .. n : places[k] < used[p]
  BY <1>1, <1>2, ListFacts
<1>4. n \in 1 .. n
  BY <1>2
<1> QED BY <1>3, <1>4

(* No two elements begin in the same slot. *)
LEMMA BeginApart ==
  ASSUME TableInv, NEW p \in Column, NEW t \in Types, NEW u \in Types, NEW places, NEW places2,
         HasList(p, t, places), HasList(p, u, places2),
         NEW k \in 1 .. Len(log[p][t]), NEW l \in 1 .. Len(log[p][u]), places[k] = places2[l]
  PROVE  t = u /\ k = l
<1>1. Shape /\ Numbered
  BY DEF TableInv
<1>2. /\ ElementAt(data, p * rows, places[k], used[p], log[p][t][k])
      /\ ElementAt(data, p * rows, places2[l], used[p], log[p][u][l])
  BY <1>1, ListFacts
<1>3. log[p][t][k] = log[p][u][l]
  BY <1>2 DEF ElementAt
<1>4. log[p][t] \in Seq(Nat) /\ log[p][u] \in Seq(Nat)
  BY <1>1, Shapes
<1> QED BY <1>1, <1>3, <1>4 DEF Numbered

LEMMA ElementsStay ==
  ASSUME Shape, NEW p \in Column, NEW t \in Types, NEW q \in Column,
         NEW r2 \in Nat, NEW d2, rows <= r2, Block(d2, r2),
         AfterPush(p, t, d2, r2)
  PROVE  SameElements(data, q * rows, d2, q * r2, used[q])
<1> DEFINE top == used[q]
<1>1. rows \in Nat /\ top \in Nat /\ top <= rows
  BY Shapes
<1> HIDE DEF top
<1>2. ASSUME NEW i \in 0 .. top-1 PROVE q * r2 + i \in DOMAIN d2
  <2>1. i \in 0 .. r2-1
    BY <1>1
  <2>2. q * r2 + i \in 0 .. NProcs * r2 - 1
    BY <2>1, SlotInTable
  <2> QED BY <2>2 DEF Block
<1> QED BY <1>2 DEF SameElements, AfterPush, top

(* The links of a list stay, but for the last one of the list that grows. *)
LEMMA LinksStay ==
  ASSUME TableInv, NEW p \in Column, NEW t \in Types, NEW q \in Column, NEW u \in Types, NEW places,
         HasList(q, u, places), NEW r2 \in Nat, NEW d2, rows <= r2,
         Block(d2, r2), AfterPush(p, t, d2, r2)
  PROVE  LET n == Len(log[q][u]) IN
         /\ SameLinks(data, q * rows, d2, q * r2, log[q][u], places)
         /\ q # p \/ u # t => \A k \in 1 .. n :
              d2[q * r2 + places[k]].next = data[q * rows + places[k]].next
         /\ q = p /\ u = t /\ n > 0 =>
              d2[q * r2 + places[n]].next = used[p] - end[p][t]
<1> DEFINE n == Len(log[q][u])
<1>1. Shape /\ n \in Nat /\ rows \in Nat /\ used[q] \in Nat /\ used[q] <= rows /\ n = count[q][u]
  BY Shapes DEF TableInv
<1>2. /\ places \in [1 .. n -> Nat]
      /\ n > 0 => places[n] = end[q][u]
      /\ \A k \in 1 .. n : places[k] < used[q]
  BY <1>1, ListFacts
<1>3. ASSUME NEW k \in 1 .. n
      PROVE  /\ d2[q * r2 + places[k]].next = NextAfter(p, t, q, places[k])
             /\ d2[q * r2 + places[k]].next \in Int
  <2> DEFINE i == places[k]
  <2>1. i \in Nat /\ i < used[q]
    BY <1>2
  <2> HIDE DEF i
  <2>2. i \in 0 .. used[q]-1 /\ i \in 0 .. r2-1
    BY <1>1, <2>1
  <2>3. q * r2 + i \in 0 .. NProcs * r2 - 1
    BY <2>2, SlotInTable
  <2>4. d2[q * r2 + i].next = NextAfter(p, t, q, i)
    BY <2>2 DEF AfterPush
  <2>5. d2[q * r2 + i] \in Slot
    BY <2>3 DEF Block
  <2>6. d2[q * r2 + i].next \in Int
    BY <2>5 DEF Slot
  <2> QED BY <2>4, <2>6 DEF i
<1>4. ASSUME NEW k \in 1 .. n, q # p \/ u # t \/ k < n
      PROVE  d2[q * r2 + places[k]].next = data[q * rows + places[k]].next
  <2>1. ~(count[p][t] > 0 /\ q = p /\ places[k] = end[p][t])
    <3> SUFFICES ASSUME count[p][t] > 0, q = p, places[k] = end[p][t] PROVE FALSE
      OBVIOUS
    <3> DEFINE places2 == Places(data, p * rows, start[p][t], count[p][t])
               m == Len(log[p][t])
    <3>1. HasList(p, t, places2)
      BY DEF TableInv, Lists
    <3>2. m \in Nat /\ m = count[p][t]
      BY <1>1, Shapes, SMTT(30)
    <3>3. m \in 1 .. m
      BY <3>2
    <3> HIDE DEF places2
    <3>4. places2[m] = end[p][t]
      BY <1>1, <3>1, <3>2, ListFacts
    <3>5. HasList(p, u, places) /\ k \in 1 .. Len(log[p][u]) /\ places2[m] = places[k]
      BY <3>4
    <3>6. t = u /\ m = k
      BY <3>1, <3>3, <3>5, BeginApart
    <3> QED BY <1>1, <1>4, <3>6
  <2> QED BY <1>3, <2>1 DEF NextAfter
<1>5. ASSUME q = p, u = t, n > 0
      PROVE  d2[q * r2 + places[n]].next = used[p] - end[p][t]
  <2>1. n \in 1 .. n
    BY <1>1, <1>5
  <2>2. d2[q * r2 + places[n]].next = NextAfter(p, t, q, places[n])
    BY <1>3, <2>1
  <2>3. places[n] = end[p][t] /\ count[p][t] > 0
    BY <1>1, <1>2, <1>5
  <2> QED BY <1>5, <2>2, <2>3 DEF NextAfter, Link
<1>6. SameLinks(data, q * rows, d2, q * r2, log[q][u], places)
  <2>1. \A k \in 1 .. n-1 : k \in 1 .. n /\ k < n
    BY <1>1
  <2> QED BY <1>3, <1>4, <2>1 DEF SameLinks
<1> QED BY <1>4, <1>5, <1>6

EachHasList == \A p \in Column, t \in Types : \E places : HasList(p, t, places)

LEMMA ListsByPlacesAsFact == Shape /\ EachHasList => Lists
  BY ListsByPlaces DEF EachHasList

LEMMA OtherListKept ==
  ASSUME TableInv, NEW p \in Column, NEW t \in Types, NEW q \in Column, NEW u \in Types, NEW places,
         HasList(q, u, places), q # p \/ u # t,
         NEW r2 \in Nat, rows <= r2, NEW d2, Block(d2, r2), AfterPush(p, t, d2, r2),
         NEW top2 \in Nat, used[q] <= top2
  PROVE  IsList(d2, q * r2, top2, log[q][u], places)
<1> DEFINE base == q * rows
           base2 == q * r2
           ids == log[q][u]
           top == used[q]
<1>1. Shape /\ base \in Nat /\ top \in Nat /\ ids \in Seq(Nat) /\ q \in Nat
  BY Shapes DEF TableInv
<1>2. base2 \in Nat /\ top <= top2
  BY <1>1
<1>3. SameElements(data, base, d2, base2, top)
  BY <1>1, ElementsStay
<1>4. SameLinks(data, base, d2, base2, ids, places)
  BY LinksStay
<1>5. IsList(data, base, top, ids, places)
  BY DEF HasList
<1> HIDE DEF base, base2, ids, top
<1>6. IsList(d2, base2, top2, ids, places)
  BY <1>1, <1>2, <1>3, <1>4, <1>5, ListKept
<1> QED BY <1>6 DEF base2, ids

LEMMA ThisListGrows ==
  ASSUME TableInv, NEW p \in Column, NEW t \in Types, NEW places, HasList(p, t, places),
         NEW size \in Nat,
         NEW r2 \in Nat, rows <= r2, NEW d2, Block(d2, r2), AfterPush(p, t, d2, r2),
         NEW id \in Nat,
         NewSlots(p, d2, r2, TagSlots + no_slots(size), ElementSlot(id, size)),
         NEW top2 \in Nat, top2 = used[p] + TagSlots + no_slots(size), top2 <= r2
  PROVE  IsList(d2, p * r2, top2, Append(log[p][t], id), OneMore(places, Len(log[p][t]), used[p]))
<1> DEFINE base == p * rows
           base2 == p * r2
           ids == log[p][t]
           top == used[p]
           n == Len(ids)
           m == no_slots(size)
<1>1. /\ Shape /\ base \in Nat /\ top \in Nat /\ top >= IndexSlots /\ ids \in Seq(Nat)
      /\ p \in Nat /\ n \in Nat /\ n = count[p][t]
  BY Shapes, SMTT(30) DEF TableInv
<1>2. base2 \in Nat /\ m \in Nat
  <2>1. base2 \in Nat
    BY <1>1
  <2> QED BY <2>1, SlotsOfData
<1>3. SameElements(data, base, d2, base2, top)
  BY <1>1, ElementsStay
<1>4. /\ SameLinks(data, base, d2, base2, ids, places)
      /\ n > 0 => d2[base2 + places[n]].next = used[p] - end[p][t]
  BY LinksStay
<1>5. IsList(data, base, top, ids, places)
  BY DEF HasList
<1>6. n > 0 => places[n] = end[p][t] /\ end[p][t] \in Nat
  BY <1>1, Shapes DEF HasList
<1>7. ASSUME NEW i \in top .. top + TagSlots + m - 1
      PROVE  base2 + i \in DOMAIN d2 /\ d2[base2 + i] = ElementSlot(id, size)
  <2>0. top + TagSlots + m <= r2
    OBVIOUS
  <2> HIDE DEF top, m
  <2>1. i \in 0 .. r2-1 /\ i \in top .. top + (TagSlots + m) - 1
    BY <1>1, <1>2, <2>0 DEF TagSlots
  <2>2. base2 + i \in 0 .. NProcs * r2 - 1
    BY <2>1, SlotInTable
  <2> QED BY <2>1, <2>2 DEF NewSlots, Block, top, m
<1>8. top \in top .. top + TagSlots + m - 1
  BY <1>1, <1>2, SMTT(30) DEF TagSlots
<1>9. /\ ElementSlot(id, size).id = id /\ ElementSlot(id, size).size = size
      /\ ElementSlot(id, size).next = 0
  BY DEF ElementSlot
<1>10. d2[base2 + top] = ElementSlot(id, size)
  BY <1>7, <1>8
<1>11. ElementAt(d2, base2, top, top2, id)
  <2>1. d2[base2 + top].size = size /\ d2[base2 + top].id = id
    BY <1>9, <1>10
  <2>2. \A i \in top .. top + TagSlots + m - 1 : base2 + i \in DOMAIN d2 /\ d2[base2 + i].id = id
    BY <1>7, <1>9
  <2>3. top + TagSlots + m <= top2
    OBVIOUS
  <2> HIDE DEF base2, top
  <2> QED BY <2>1, <2>2, <2>3 DEF ElementAt
<1>12. d2[base2 + top].next \in Int
  BY <1>9, <1>10
<1>13. n > 0 => top = places[n] + d2[base2 + places[n]].next
  <2> HIDE DEF base2
  <2> QED BY <1>1, <1>4, <1>6
<1>14. top <= top2
  BY <1>1, <1>2, SMTT(30) DEF TagSlots
<1>15. LastLeadsTo(d2, base2, places, Len(ids), top)
  BY <1>13 DEF LastLeadsTo
<1> HIDE DEF base, base2, ids, top
<1>16. IsList(d2, base2, top2, Append(ids, id), OneMore(places, Len(ids), top))
  BY <1>1, <1>2, <1>3, <1>4, <1>5, <1>11, <1>12, <1>14, <1>15, ListGrows
<1> QED BY <1>16 DEF base2, ids, top

(* What the index and the logs become. *)
LEMMA IndexAfterPush ==
  ASSUME Shape, NEW p \in Column, NEW t \in Types, NEW size \in Sizes, Push(p, t, size)
  PROVE  /\ pushes' = pushes + 1 /\ pushes < MaxPush
         /\ log' \in [Column -> [Types -> Seq(Nat)]]
         /\ log'[p][t] = Append(log[p][t], pushes + 1)
         /\ count'[p][t] = count[p][t] + 1 /\ end'[p][t] = used[p]
         /\ start'[p][t] = (IF count[p][t] = 0 THEN used[p] ELSE start[p][t])
         /\ \A q \in Column : q # p => used'[q] = used[q]
         /\ \A q \in Column, u \in Types : q # p \/ u # t =>
              /\ log'[q][u] = log[q][u] /\ count'[q][u] = count[q][u]
              /\ start'[q][u] = start[q][u] /\ end'[q][u] = end[q][u]
<1>1. /\ pushes' = pushes + 1 /\ pushes < MaxPush /\ pushes \in Nat
      /\ log' = [log EXCEPT ![p][t] = Append(@, pushes + 1)]
      /\ count' = [count EXCEPT ![p][t] = @ + 1]
      /\ end' = [end EXCEPT ![p][t] = used[p]]
      /\ start' = (IF count[p][t] = 0 THEN [start EXCEPT ![p][t] = used[p]] ELSE start)
      /\ used' = [used EXCEPT ![p] = @ + (TagSlots + no_slots(size))]
  BY Shapes DEF Push
<1>2. /\ log \in [Column -> [Types -> Seq(Nat)]] /\ used \in [Column -> IndexSlots .. rows]
      /\ start \in [Column -> [Types -> 0 .. rows]] /\ end \in [Column -> [Types -> 0 .. rows]]
      /\ count \in [Column -> [Types -> 0 .. MaxPush]]
  BY DEF Shape, TypeOK
<1>3. log' \in [Column -> [Types -> Seq(Nat)]]
  <2>1. Append(log[p][t], pushes + 1) \in Seq(Nat)
    BY <1>1, <1>2
  <2> QED BY <1>1, <1>2, <2>1
<1>4. /\ log'[p][t] = Append(log[p][t], pushes + 1)
      /\ \A q \in Column, u \in Types : q # p \/ u # t => log'[q][u] = log[q][u]
  BY <1>1, <1>2
<1>5. /\ count'[p][t] = count[p][t] + 1
      /\ \A q \in Column, u \in Types : q # p \/ u # t => count'[q][u] = count[q][u]
  BY <1>1, <1>2
<1>6. /\ end'[p][t] = used[p]
      /\ \A q \in Column, u \in Types : q # p \/ u # t => end'[q][u] = end[q][u]
  BY <1>1, <1>2
<1>7. /\ start'[p][t] = (IF count[p][t] = 0 THEN used[p] ELSE start[p][t])
      /\ \A q \in Column, u \in Types : q # p \/ u # t => start'[q][u] = start[q][u]
  BY <1>1, <1>2
<1>8. \A q \in Column : q # p => used'[q] = used[q]
  BY <1>1, <1>2
<1> QED BY <1>1, <1>3, <1>4, <1>5, <1>6, <1>7, <1>8

LEMMA ShapeAfterPush ==
  ASSUME TableInv, NEW p \in Column, NEW t \in Types, NEW size \in Sizes, Push(p, t, size)
  PROVE  Shape'
<1>1. Shape /\ (count[p][t] > 0 => end[p][t] < used[p])
  BY EndInColumn DEF TableInv
<1>2. /\ rows' \in Nat /\ rows <= rows'
      /\ used'[p] = used[p] + TagSlots + no_slots(size) /\ used'[p] <= rows'
      /\ data' \in [0 .. NProcs * rows' - 1 -> Slot]
  BY <1>1, Pushed
<1>3. /\ used \in [Column -> IndexSlots .. rows] /\ rows \in Nat /\ MaxPush \in Nat
      /\ start \in [Column -> [Types -> 0 .. rows]] /\ end \in [Column -> [Types -> 0 .. rows]]
      /\ count \in [Column -> [Types -> 0 .. MaxPush]] /\ pushes \in 0 .. MaxPush
  BY <1>1, SizesAssumption DEF Shape, TypeOK
<1>4. used[p] \in Nat /\ used[p] >= IndexSlots /\ used[p] <= rows
  BY <1>1, Shapes
<1>5. 0 .. rows \subseteq 0 .. rows' /\ IndexSlots .. rows \subseteq IndexSlots .. rows'
  BY <1>2, <1>3
<1>6. used' \in [Column -> IndexSlots .. rows']
  <2>1. used'[p] \in IndexSlots .. rows'
    <3>1. no_slots(size) \in Nat
      BY SizesAssumption, SlotsOfData
    <3> QED BY <1>2, <1>4, <3>1 DEF IndexSlots, TagSlots
  <2>2. used' = [used EXCEPT ![p] = used'[p]]
    BY <1>3 DEF Push
  <2>3. used \in [Column -> IndexSlots .. rows']
    BY <1>3, <1>5
  <2> DEFINE v == used'[p]
  <2> HIDE DEF v
  <2>4. used' = [used EXCEPT ![p] = v] /\ v \in IndexSlots .. rows'
    BY <2>1, <2>2 DEF v
  <2> QED BY <2>3, <2>4
<1>7. used[p] \in 0 .. rows'
  BY <1>2, <1>3, <1>4
<1>8. start' \in [Column -> [Types -> 0 .. rows']] /\ end' \in [Column -> [Types -> 0 .. rows']]
  <2>1. start \in [Column -> [Types -> 0 .. rows']] /\ end \in [Column -> [Types -> 0 .. rows']]
    BY <1>3, <1>5
  <2>2. /\ end' = [end EXCEPT ![p][t] = used[p]]
        /\ start' = (IF count[p][t] = 0 THEN [start EXCEPT ![p][t] = used[p]] ELSE start)
    BY DEF Push
  <2> DEFINE S == 0 .. rows'
             v == used[p]
  <2> HIDE DEF S, v
  <2>3. v \in S
    BY <1>7 DEF S, v
  <2>4. [end EXCEPT ![p][t] = v] \in [Column -> [Types -> S]]
    BY <2>1, <2>3 DEF S
  <2>5. [start EXCEPT ![p][t] = v] \in [Column -> [Types -> S]]
    BY <2>1, <2>3 DEF S
  <2> QED BY <2>1, <2>2, <2>4, <2>5 DEF S, v
<1>9. /\ log' \in [Column -> [Types -> Seq(Nat)]] /\ pushes' \in 0 .. MaxPush
      /\ \A q \in Column, u \in Types : count'[q][u] = Len(log'[q][u])
  <2>1. pushes' \in 0 .. MaxPush
    BY <1>1, <1>3, IndexAfterPush
  <2>2. log' \in [Column -> [Types -> Seq(Nat)]]
    BY <1>1, IndexAfterPush
  <2>3. ASSUME NEW q \in Column, NEW u \in Types PROVE count'[q][u] = Len(log'[q][u])
    <3>1. log[q][u] \in Seq(Nat) /\ count[q][u] = Len(log[q][u])
      BY <1>1, Shapes
    <3>2. CASE q # p \/ u # t
      BY <1>1, <3>1, <3>2, IndexAfterPush
    <3>3. CASE q = p /\ u = t
      <4>1. log'[p][t] = Append(log[p][t], pushes + 1) /\ count'[p][t] = count[p][t] + 1
        BY <1>1, IndexAfterPush
      <4> QED BY <3>1, <3>3, <4>1
    <3> QED BY <3>2, <3>3
  <2> QED BY <2>1, <2>2, <2>3
<1>10. count' \in [Column -> [Types -> 0 .. MaxPush]]
  <2>1. count[p][t] + 1 \in 0 .. MaxPush
    <3> DEFINE n == Len(log[p][t])
    <3>1. n \in Nat /\ count[p][t] = n /\ pushes \in Nat /\ pushes + 1 <= MaxPush
      BY <1>1, <1>3, Shapes, IndexAfterPush
    <3>2. n > 0 => n <= pushes
      <4>1. n > 0 => n \in DOMAIN log[p][t] /\ log[p][t][n] \in Nat
        BY <1>1, <3>1, Shapes, SMTT(30)
      <4>2. n > 0 => n <= log[p][t][n] /\ log[p][t][n] <= pushes
        BY <4>1 DEF TableInv, Numbered
      <4> HIDE DEF n
      <4> QED BY <3>1, <4>1, <4>2
    <3> HIDE DEF n
    <3> QED BY <1>3, <3>1, <3>2
  <2>2. count' = [count EXCEPT ![p][t] = count[p][t] + 1]
    BY DEF Push
  <2> DEFINE v == count[p][t] + 1
             S == 0 .. MaxPush
  <2> HIDE DEF v, S
  <2>3. v \in S /\ count' = [count EXCEPT ![p][t] = v] /\ count \in [Column -> [Types -> S]]
    BY <1>3, <2>1, <2>2 DEF v, S
  <2>4. count' \in [Column -> [Types -> S]]
    BY <2>3
  <2> QED BY <2>4 DEF S
<1>11. DOMAIN data' = 0 .. NProcs * rows' - 1
  BY <1>2
<1> QED BY <1>2, <1>6, <1>8, <1>9, <1>10, <1>11 DEF Shape, TypeOK, Slot

LEMMA NumberedAfterPush ==
  ASSUME TableInv, NEW p \in Column, NEW t \in Types, NEW size \in Sizes, Push(p, t, size)
  PROVE  Numbered'
<1>1. Shape /\ Numbered
  BY DEF TableInv
<1>2. pushes' = pushes + 1 /\ pushes \in Nat
  BY <1>1, IndexAfterPush, Shapes
<1> DEFINE n == Len(log[p][t])
           Own(q, u, k) == q = p /\ u = t /\ k = n + 1
<1>3. n \in Nat
  BY <1>1, Shapes
<1>4. n > 0 => n <= pushes
  <2>1. n > 0 => n \in DOMAIN log[p][t] /\ log[p][t][n] \in Nat
    BY <1>1, <1>3, Shapes, SMTT(30)
  <2>2. n > 0 => n <= log[p][t][n] /\ log[p][t][n] <= pushes
    BY <1>1, <2>1 DEF Numbered
  <2> HIDE DEF n
  <2> QED BY <1>2, <1>3, <2>1, <2>2
(* An element is the new one, or it was in the list already. *)
<1>5. ASSUME NEW q \in Column, NEW u \in Types, NEW k \in DOMAIN log'[q][u]
      PROVE  \/ Own(q, u, k) /\ log'[q][u][k] = pushes + 1
             \/ /\ ~Own(q, u, k) /\ k \in DOMAIN log[q][u]
                /\ log'[q][u][k] = log[q][u][k] /\ log[q][u][k] \in Nat /\ k \in Nat
  <2>1. log[q][u] \in Seq(Nat)
    BY <1>1, Shapes
  <2>2. CASE q # p \/ u # t
    <3>1. log'[q][u] = log[q][u]
      BY <1>1, <2>2, IndexAfterPush
    <3> QED BY <2>1, <2>2, <3>1
  <2>3. CASE q = p /\ u = t
    <3>1. log'[q][u] = Append(log[p][t], pushes + 1)
      BY <1>1, <2>3, IndexAfterPush
    <3>2. k \in 1 .. n + 1
      BY <2>1, <2>3, <3>1
    <3>3. CASE k = n + 1
      BY <1>3, <2>1, <2>3, <3>1, <3>3
    <3>4. CASE k # n + 1
      <4>1. k \in 1 .. n
        BY <1>3, <3>2, <3>4
      <4> QED BY <2>1, <2>3, <3>1, <3>4, <4>1
    <3> QED BY <3>3, <3>4
  <2> QED BY <2>2, <2>3
<1> HIDE DEF n
<1>6. ASSUME NEW q \in Column, NEW u \in Types, NEW k \in DOMAIN log'[q][u]
      PROVE  k <= log'[q][u][k] /\ log'[q][u][k] <= pushes'
  <2>1. CASE Own(q, u, k) /\ log'[q][u][k] = pushes + 1
    BY <1>2, <1>3, <1>4, <2>1
  <2>2. CASE k \in DOMAIN log[q][u] /\ log'[q][u][k] = log[q][u][k] /\ log[q][u][k] \in Nat
    <3>1. k <= log[q][u][k] /\ log[q][u][k] <= pushes
      BY <1>1, <2>2 DEF Numbered
    <3> QED BY <1>2, <2>2, <3>1
  <2> QED BY <1>5, <2>1, <2>2
<1>7. ASSUME NEW q \in Column, NEW u \in Types, NEW k \in DOMAIN log'[q][u],
             NEW r \in Column, NEW w \in Types, NEW l \in DOMAIN log'[r][w],
             log'[q][u][k] = log'[r][w][l]
      PROVE  q = r /\ u = w /\ k = l
  <2>1. CASE Own(q, u, k) /\ Own(r, w, l)
    BY <2>1
  <2>2. CASE Own(q, u, k) /\ ~Own(r, w, l)
    <3>1. log'[q][u][k] = pushes + 1
      BY <1>5, <2>2
    <3>2. l \in DOMAIN log[r][w] /\ log'[r][w][l] = log[r][w][l] /\ log[r][w][l] \in Nat
      BY <1>5, <2>2
    <3>3. log[r][w][l] <= pushes
      BY <1>1, <3>2 DEF Numbered
    <3>4. log[r][w][l] = pushes + 1
      BY <1>7, <3>1, <3>2
    <3> QED BY <1>2, <3>2, <3>3, <3>4
  <2>3. CASE ~Own(q, u, k) /\ Own(r, w, l)
    <3>1. log'[r][w][l] = pushes + 1
      BY <1>5, <2>3
    <3>2. k \in DOMAIN log[q][u] /\ log'[q][u][k] = log[q][u][k] /\ log[q][u][k] \in Nat
      BY <1>5, <2>3
    <3>3. log[q][u][k] <= pushes
      BY <1>1, <3>2 DEF Numbered
    <3>4. log[q][u][k] = pushes + 1
      BY <1>7, <3>1, <3>2
    <3> QED BY <1>2, <3>2, <3>3, <3>4
  <2>4. CASE ~Own(q, u, k) /\ ~Own(r, w, l)
    <3>1. k \in DOMAIN log[q][u] /\ log'[q][u][k] = log[q][u][k]
      BY <1>5, <2>4
    <3>2. l \in DOMAIN log[r][w] /\ log'[r][w][l] = log[r][w][l]
      BY <1>5, <2>4
    <3>3. log[q][u][k] = log[r][w][l]
      BY <1>7, <3>1, <3>2
    <3> QED BY <1>1, <3>1, <3>2, <3>3 DEF Numbered
  <2> QED BY <2>1, <2>2, <2>3, <2>4
<1> HIDE DEF Own
<1> QED BY <1>6, <1>7 DEF Numbered

LEMMA PushKeeps ==
  ASSUME TableInv, NEW p \in Column, NEW t \in Types, NEW size \in Sizes, Push(p, t, size)
  PROVE  TableInv'
<1> DEFINE r2 == rows'
           d2 == data'
           id == pushes + 1
<1>1. Shape /\ (count[p][t] > 0 => end[p][t] < used[p]) /\ size \in Nat
  BY EndInColumn, SizesAssumption DEF TableInv
<1>2. /\ r2 \in Nat /\ rows <= r2
      /\ used'[p] = used[p] + TagSlots + no_slots(size) /\ used'[p] <= r2
      /\ Block(d2, r2) /\ AfterPush(p, t, d2, r2)
      /\ NewSlots(p, d2, r2, TagSlots + no_slots(size), ElementSlot(id, size))
  BY <1>1, Pushed DEF Block
<1>3. Shape' /\ Numbered'
  BY ShapeAfterPush, NumberedAfterPush
<1>4. pushes \in Nat /\ id \in Nat
  BY <1>1, Shapes
<1>5. /\ log'[p][t] = Append(log[p][t], id)
      /\ count'[p][t] = count[p][t] + 1 /\ end'[p][t] = used[p]
      /\ start'[p][t] = (IF count[p][t] = 0 THEN used[p] ELSE start[p][t])
  BY <1>1, IndexAfterPush
<1>6. ASSUME NEW q \in Column, NEW u \in Types, q # p \/ u # t
      PROVE  \E places : HasList(q, u, places)'
  <2>1. /\ log'[q][u] = log[q][u] /\ count'[q][u] = count[q][u]
        /\ start'[q][u] = start[q][u] /\ end'[q][u] = end[q][u]
    BY <1>1, <1>6, IndexAfterPush
  <2> DEFINE places == Places(data, q * rows, start[q][u], count[q][u])
             top2 == used'[q]
  <2>2. HasList(q, u, places)
    BY DEF TableInv, Lists
  <2>3. top2 \in Nat /\ used[q] <= top2
    <3>1. used[q] \in Nat
      BY <1>1, Shapes
    <3>2. CASE q = p
      BY <1>1, <1>2, <3>1, <3>2, SlotsOfData DEF TagSlots
    <3>3. CASE q # p
      BY <1>1, <3>1, <3>3, IndexAfterPush
    <3> QED BY <3>2, <3>3
  <2> HIDE DEF places, top2, r2, d2
  <2>4. IsList(d2, q * r2, top2, log[q][u], places)
    BY <1>2, <1>6, <2>2, <2>3, OtherListKept
  <2>5. count[q][u] > 0 => places[1] = start[q][u] /\ places[count[q][u]] = end[q][u]
    BY <2>2 DEF HasList
  <2> QED BY <2>1, <2>4, <2>5 DEF HasList, d2, r2, top2
<1>7. \E places : HasList(p, t, places)'
  <2> DEFINE places == Places(data, p * rows, start[p][t], count[p][t])
             n == Len(log[p][t])
             all == OneMore(places, n, used[p])
             top2 == used'[p]
  <2>1. HasList(p, t, places)
    BY DEF TableInv, Lists
  <2>2. top2 \in Nat /\ top2 = used[p] + TagSlots + no_slots(size) /\ top2 <= r2 /\ used[p] \in Nat
    <3>1. used[p] \in Nat
      BY <1>1, Shapes
    <3> QED BY <1>1, <1>2, <3>1, SlotsOfData DEF TagSlots
  <2>3. n \in Nat /\ n = count[p][t] /\ start[p][t] \in Nat
    BY <1>1, Shapes
  <2> HIDE DEF places, top2, r2, d2, id
  <2>4. IsList(d2, p * r2, top2, Append(log[p][t], id), all)
    BY <1>1, <1>2, <1>4, <2>1, <2>2, ThisListGrows DEF id
  <2>5. n > 0 => places[1] = start[p][t]
    BY <2>1, <2>3 DEF HasList
  <2>6. all[n+1] = used[p] /\ all[1] = (IF n = 0 THEN used[p] ELSE places[1])
    <3> HIDE DEF n
    <3> QED BY <2>3 DEF OneMore
  <2> HIDE DEF n, all
  <2>7. all[1] = start'[p][t] /\ all[count'[p][t]] = end'[p][t]
    BY <1>5, <2>3, <2>5, <2>6
  <2> QED BY <1>5, <2>4, <2>7 DEF HasList, d2, r2, top2, id
<1>8. Shape' /\ EachHasList' => Lists'
  BY ListsByPlacesAsFact, PTL
<1>9. \A q \in Column, u \in Types : \E places : HasList(q, u, places)'
  BY <1>6, <1>7
<1>10. Lists'
  BY <1>3, <1>8, <1>9 DEF EachHasList
<1> QED BY <1>3, <1>10 DEF TableInv

-----------------------------------------------------------------------------
(* The other steps leave a table with empty lists. *)

LEMMA EmptyTable == Shape /\ log = PerList(<<>>) => TableInv
<1> SUFFICES ASSUME Shape, log = PerList(<<>>) PROVE TableInv
  OBVIOUS
<1>1. Numbered
  BY DEF Numbered, PerList
<1>2. ASSUME NEW p \in Column, NEW t \in Types PROVE HasList(p, t, <<>>)
  <2>1. log[p][t] = <<>> /\ count[p][t] = 0
    <3>1. log[p][t] = <<>>
      BY DEF PerList
    <3> QED BY <3>1, Shapes
  <2>2. p * rows \in Nat /\ used[p] \in Nat
    BY Shapes
  <2> QED BY <2>1, <2>2, NoElements DEF HasList
<1>3. Lists
  BY <1>2, ListsByPlaces
<1> QED BY <1>1, <1>3 DEF TableInv

LEMMA InitTable == Init => TableInv
<1> SUFFICES ASSUME Init PROVE TableInv
  OBVIOUS
<1>1. /\ rows = MinRows + IndexSlots /\ rows \in Nat /\ rows >= IndexSlots
      /\ data = Memory(rows) /\ used = EmptyUsed /\ pushes = 0
      /\ start = PerList(0) /\ end = PerList(0) /\ count = PerList(0) /\ log = PerList(<<>>)
  BY MinRowsAssumption DEF Init, IndexSlots
<1>2. Shape
  <2>1. data \in [0 .. NProcs * rows - 1 -> Slot]
    <3>1. Junk \in Slot
      BY DEF Junk, Slot
    <3> QED BY <1>1, <3>1 DEF Memory
  <2>2. used \in [Column -> IndexSlots .. rows]
    BY <1>1 DEF EmptyUsed, IndexSlots
  <2>3. 0 \in 0 .. rows /\ 0 \in 0 .. MaxPush
    BY <1>1, SizesAssumption
  <2>4. /\ start \in [Column -> [Types -> 0 .. rows]] /\ end \in [Column -> [Types -> 0 .. rows]]
        /\ count \in [Column -> [Types -> 0 .. MaxPush]] /\ pushes \in 0 .. MaxPush
    BY <1>1, <2>3 DEF PerList
  <2>5. log \in [Column -> [Types -> Seq(Nat)]]
    BY <1>1 DEF PerList
  <2>6. \A p \in Column, t \in Types : count[p][t] = Len(log[p][t])
    BY <1>1 DEF PerList
  <2>7. DOMAIN data = 0 .. NProcs * rows - 1
    BY <2>1
  <2> QED BY <1>1, <2>1, <2>2, <2>4, <2>5, <2>6, <2>7 DEF Shape, TypeOK, Slot
<1> QED BY <1>1, <1>2, EmptyTable

LEMMA ShapeAfterReset ==
  ASSUME Reset, rows' \in Nat, rows' >= IndexSlots, Block(data', rows'), pushes' \in 0 .. MaxPush
  PROVE  Shape'
<1>1. /\ used' = EmptyUsed /\ log' = PerList(<<>>)
      /\ start' = PerList(0) /\ end' = PerList(0) /\ count' = PerList(0)
  BY DEF Reset
<1>2. IndexSlots \in IndexSlots .. rows' /\ 0 \in 0 .. rows' /\ 0 \in 0 .. MaxPush
  BY SizesAssumption DEF IndexSlots
<1>3. used' \in [Column -> IndexSlots .. rows']
  BY <1>1, <1>2 DEF EmptyUsed
<1>4. /\ start' \in [Column -> [Types -> 0 .. rows']] /\ end' \in [Column -> [Types -> 0 .. rows']]
      /\ count' \in [Column -> [Types -> 0 .. MaxPush]]
  BY <1>1, <1>2 DEF PerList
<1>5. log' \in [Column -> [Types -> Seq(Nat)]]
  BY <1>1 DEF PerList
<1>6. \A p \in Column, t \in Types : count'[p][t] = Len(log'[p][t])
  BY <1>1 DEF PerList
<1>7. data' \in [0 .. NProcs * rows' - 1 -> Slot]
  BY DEF Block
<1>8. DOMAIN data' = 0 .. NProcs * rows' - 1
  BY <1>7
<1> QED BY <1>3, <1>4, <1>5, <1>6, <1>7, <1>8 DEF Shape, TypeOK, Slot

LEMMA EmptyMemory == ASSUME NEW r \in Nat PROVE Block(Memory(r), r)
<1>1. Junk \in Slot
  BY DEF Junk, Slot
<1> QED BY <1>1 DEF Memory, Block

LEMMA ResetKeeps ==
  ASSUME TableInv,
         ResetRowCount \/ \E extra \in Extra : Exchange(extra)
  PROVE  TableInv'
<1>1. Shape /\ Reset /\ log' = PerList(<<>>) /\ pushes' = pushes
  BY DEF TableInv, ResetRowCount, Exchange, Reset
<1>2. pushes' \in 0 .. MaxPush
  BY <1>1 DEF Shape, TypeOK
<1>3. rows' \in Nat /\ rows' >= IndexSlots /\ Block(data', rows')
  <2>1. CASE ResetRowCount
    <3>1. rows' = MinRows /\ data' = Memory(MinRows)
      BY <2>1 DEF ResetRowCount
    <3> QED BY <3>1, EmptyMemory, MinRowsAssumption
  <2>2. CASE \E extra \in Extra : Exchange(extra)
    <3>1. rows' = rows /\ data' = data
      BY <2>2 DEF Exchange
    <3>2. rows \in Nat /\ Block(data, rows)
      BY <1>1 DEF Shape, TypeOK, Block, Slot
    <3>3. rows >= IndexSlots
      <4>1. 0 \in Column
        BY NProcsAssumption DEF Column
      <4>2. used[0] \in Nat /\ used[0] >= IndexSlots /\ used[0] <= rows
        BY <1>1, <4>1, Shapes
      <4> QED BY <3>2, <4>2 DEF IndexSlots
    <3> QED BY <3>1, <3>2, <3>3
  <2> QED BY <2>1, <2>2
<1>4. Shape'
  BY <1>1, <1>2, <1>3, ShapeAfterReset
<1>5. Shape' /\ (log = PerList(<<>>))' => TableInv'
  BY EmptyTable, PTL
<1> QED BY <1>1, <1>4, <1>5 DEF PerList

LEMMA NextKeepsTable == TableInv /\ [Next]_vars => TableInv'
<1> SUFFICES ASSUME TableInv, [Next]_vars PROVE TableInv'
  OBVIOUS
<1>1. ASSUME NEW p \in Column, NEW t \in Types, NEW size \in Sizes, Push(p, t, size)
      PROVE  TableInv'
  BY <1>1, PushKeeps
<1>2. CASE ResetRowCount
  BY <1>2, ResetKeeps
<1>3. CASE \E extra \in Extra : Exchange(extra)
  BY <1>3, ResetKeeps
<1>4. CASE UNCHANGED vars
  BY <1>4 DEF vars, TableInv, Shape, TypeOK, Numbered, Lists, HasList
<1> QED BY <1>1, <1>2, <1>3, <1>4 DEF Next

(* Every list of every column keeps its places, and no element is in two   *)
(* lists: the inductive invariant of deliveryTable_push and of the growth  *)
(* in expandableTable_expand.                                              *)
THEOREM TableInvariant == Spec => []TableInv
<1>1. Init => TableInv
  BY InitTable
<1>2. TableInv /\ [Next]_vars => TableInv'
  BY NextKeepsTable
<1> QED BY <1>1, <1>2, PTL DEF Spec

(* The index and the used part of every column stay within its rows, in    *)
(* every table that the calls can make (expandableTable_expand,            *)
(* deliveryTable_push, deliveryTable_reset).                               *)
THEOREM TypesCorrect == Spec => []TypeOK
<1>1. TableInv => TypeOK
  BY DEF TableInv, Shape
<1> QED BY <1>1, TableInvariant, PTL

-----------------------------------------------------------------------------
(* What the lists hold. *)

LEMMA ListHolds ==
  ASSUME NEW d, NEW base, NEW top, NEW ids, NEW places, NEW first,
         base \in Nat, top \in Nat, ids \in Seq(Nat), first \in Nat,
         IsList(d, base, top, ids, places), BeginsAt(ids, places, first)
  PROVE  Holds(d, Visited(d, base + first, Len(ids)), ids)
<1> DEFINE n == Len(ids)
           slots == SlotsFrom(base, places, n)
<1>1. n \in Nat /\ DOMAIN ids = 1 .. n
  OBVIOUS
<1>2. Visited(d, base + first, n) = slots
  <2>1. LinksLead(d, base, first, Len(ids), places)
    BY PlacesAre
  <2> QED BY <2>1 DEF LinksLead
<1>3. /\ DOMAIN slots = 1 .. n /\ Len(slots) = n
      /\ \A k \in 1 .. n : slots[k] = base + places[k]
  <2> HIDE DEF n
  <2> QED BY <1>1 DEF SlotsFrom
<1>4. \A k \in 1 .. n : IsElement(d, base + places[k], ids[k])
  BY DEF IsList
<1> HIDE DEF slots
<1> QED BY <1>1, <1>2, <1>3, <1>4 DEF Holds

LEMMA TableHoldsLists == TableInv => ListsIntact
<1> SUFFICES ASSUME TableInv, NEW p \in Column, NEW t \in Types
             PROVE  Holds(data, Visited(data, p * rows + start[p][t], count[p][t]), log[p][t])
  BY DEF ListsIntact
<1> DEFINE places == Places(data, p * rows, start[p][t], count[p][t])
           base == p * rows
           ids == log[p][t]
           first == start[p][t]
           top == used[p]
<1>1. HasList(p, t, places) /\ Shape
  BY DEF TableInv, Lists
<1>2. base \in Nat /\ top \in Nat /\ ids \in Seq(Nat) /\ first \in Nat /\ count[p][t] = Len(ids)
  BY <1>1, Shapes
<1>3. IsList(data, base, top, ids, places) /\ BeginsAt(ids, places, first)
  BY <1>1, <1>2 DEF HasList, BeginsAt
<1> HIDE DEF base, ids, first, top, places
<1>4. Holds(data, Visited(data, base + first, Len(ids)), ids)
  BY <1>2, <1>3, ListHolds
<1> QED BY <1>2, <1>4 DEF base, ids, first

(* However often a table has grown, each list of each column is the        *)
(* elements of its type pushed since the last reset, in order, and no      *)
(* element has lost a slot to another one (deliveryTable_push,             *)
(* expandableTable_expand).                                                *)
THEOREM ListsAlwaysIntact == Spec => []ListsIntact
<1>1. TableInv => ListsIntact
  BY TableHoldsLists
<1> QED BY <1>1, TableInvariant, PTL

-----------------------------------------------------------------------------
(* The exchange. *)

LEMMA LeastColumn ==
  ASSUME NEW T \in SUBSET Column, T # {}
  PROVE  Min(T) \in T /\ \A q \in T : Min(T) <= q
<1>1. T \in SUBSET Nat
  BY DEF Column
<1>2. \E n \in T : \A m \in T : n <= m
  BY <1>1, LeastNumber
<1> QED BY <1>2 DEF Min

LEMMA NextColumnIs ==
  ASSUME NEW p \in Column
  PROVE  /\ NextColumn(p, count) \in Column
         /\ \A q \in WithMessages(count) : q > p =>
              /\ NextColumn(p, count) \in WithMessages(count) /\ NextColumn(p, count) > p
              /\ NextColumn(p, count) <= q
<1> DEFINE T == {q \in WithMessages(count) : q > p}
<1>1. T \in SUBSET Column /\ NextColumn(p, count) = IF T = {} THEN NProcs - 1 ELSE Min(T)
  BY DEF NextColumn, WithMessages
<1>2. CASE T = {}
  <2>1. NProcs - 1 \in Column
    BY NProcsAssumption DEF Column
  <2> QED BY <1>1, <1>2, <2>1
<1>3. CASE T # {}
  <2> HIDE DEF T
  <2>1. Min(T) \in T /\ \A q \in T : Min(T) <= q
    BY <1>1, <1>3, LeastColumn
  <2> QED BY <1>1, <1>3, <2>1 DEF T
<1> QED BY <1>2, <1>3

(* What deliveryTable_execute leaves behind each row in use. *)
LastSend(q, i) == count[q]["send"] > 0 /\ q # NProcs - 1 /\ i = end[q]["send"]
ToColumn(q, i, r2) ==
  LET n == NextColumn(q, count) IN n * r2 + start[n]["send"] - (q * r2 + i)
AfterChain(d2, r2) ==
  \A q \in Column : \A i \in 0 .. used[q]-1 :
    /\ d2[q * r2 + i].id = data[q * rows + i].id
    /\ d2[q * r2 + i].size = data[q * rows + i].size
    /\ d2[q * r2 + i].next = IF LastSend(q, i) THEN ToColumn(q, i, r2) ELSE data[q * rows + i].next

Received(r2) == Chained(Copy(r2), r2, start, end, count)

(* The slots whose link is set, and the links that are set. *)
EndsColumn(s, r2) == \E p \in WithMessages(count) : p # NProcs - 1 /\ s = p * r2 + end[p]["send"]
LinkOf(s, r2) ==
  LET n == NextColumn(s \div r2, count) IN n * r2 + start[n]["send"] - s

LEMMA EndsColumnIs ==
  ASSUME TableInv, NEW r2 \in Nat, \A q \in Column : used[q] <= r2,
         NEW q \in Column, NEW i \in 0 .. r2-1
  PROVE  EndsColumn(q * r2 + i, r2) <=> LastSend(q, i)
<1>1. Shape /\ "send" \in Types
  BY TypesAssumption DEF TableInv
<1>2. ASSUME NEW p \in WithMessages(count), q * r2 + i = p * r2 + end[p]["send"]
      PROVE  p = q /\ i = end[q]["send"]
  <2> DEFINE e == end[p]["send"]
  <2>1. p \in Column /\ count[p]["send"] > 0
    BY DEF WithMessages
  <2>2. e < used[p] /\ e \in Nat /\ used[p] \in Nat /\ used[p] <= r2
    BY <1>1, <2>1, EndInColumn, Shapes
  <2> HIDE DEF e
  <2>3. e \in 0 .. r2-1
    BY <2>2
  <2>4. q * r2 + i = p * r2 + e
    BY <1>2 DEF e
  <2>5. q = p /\ i = e
    BY <2>1, <2>3, <2>4, SlotsApart
  <2> QED BY <2>5 DEF e
<1> QED BY <1>2 DEF EndsColumn, LastSend, WithMessages

LEMMA ReceivedIs ==
  ASSUME Shape, NEW r2 \in Nat, \A q \in Column : used[q] <= r2
  PROVE  /\ Block(Received(r2), r2)
         /\ \A s \in 0 .. NProcs * r2 - 1 :
              LET a == Copy(r2)[s]
                  b == Received(r2)[s]
              IN  b.id = a.id /\ b.size = a.size
                  /\ b.next = IF EndsColumn(s, r2) THEN LinkOf(s, r2) ELSE a.next
<1> DEFINE D == 0 .. NProcs * r2 - 1
           c == Copy(r2)
           linked(s) == [c[s] EXCEPT !.next = LinkOf(s, r2)]
           d2 == Received(r2)
<1>1. c \in [D -> Slot]
  BY CopyKeeps DEF Block
<1>2. d2 = [s \in D |-> IF EndsColumn(s, r2) THEN linked(s) ELSE c[s]]
  <2>1. DOMAIN c = D
    BY <1>1
  <2> HIDE DEF c, D
  <2> QED BY <2>1 DEF Received, Chained, EndsColumn, LinkOf, c
<1>3. ASSUME NEW s \in D PROVE LinkOf(s, r2) \in Int
  <2> DEFINE n == NextColumn(s \div r2, count)
             first == start[n]["send"]
  <2>1. s \div r2 \in Column
    BY RowOfSlot
  <2>2. n \in Column
    BY <2>1, NextColumnIs
  <2>3. first \in Nat /\ n \in Nat
    BY <2>2, Shapes, TypesAssumption
  <2>4. LinkOf(s, r2) = n * r2 + first - s
    BY DEF LinkOf
  <2>5. s \in Int
    OBVIOUS
  <2> HIDE DEF n, first, D
  <2>6. n * r2 \in Int
    BY <2>3
  <2> QED BY <2>3, <2>4, <2>5, <2>6
<1>4. ASSUME NEW s \in D
      PROVE  /\ linked(s) \in Slot /\ linked(s).id = c[s].id /\ linked(s).size = c[s].size
             /\ linked(s).next = LinkOf(s, r2)
  <2> DEFINE e == c[s]
             v == LinkOf(s, r2)
  <2>1. e \in Slot /\ v \in Int
    BY <1>1, <1>3
  <2>2. linked(s) = [e EXCEPT !.next = v]
    OBVIOUS
  <2> HIDE DEF e, v, c, linked
  <2> QED BY <2>1, <2>2 DEF Slot, e, v
<1> HIDE DEF linked
<1>5. ASSUME NEW s \in D
      PROVE  /\ d2[s] \in Slot /\ d2[s].id = c[s].id /\ d2[s].size = c[s].size
             /\ d2[s].next = IF EndsColumn(s, r2) THEN LinkOf(s, r2) ELSE c[s].next
  <2>1. c[s] \in Slot
    BY <1>1
  <2>2. d2[s] = IF EndsColumn(s, r2) THEN linked(s) ELSE c[s]
    BY <1>2
  <2> HIDE DEF c, d2
  <2> QED BY <1>4, <2>1, <2>2
<1>6. d2 \in [D -> Slot]
  <2>1. d2 = [s \in D |-> d2[s]]
    BY <1>2
  <2> HIDE DEF d2
  <2> QED BY <1>5, <2>1
<1> QED BY <1>5, <1>6 DEF Block

LEMMA ChainedRows ==
  ASSUME TableInv, NEW r2 \in Nat, \A q \in Column : used[q] <= r2
  PROVE  AfterChain(Received(r2), r2)
<1>1. Shape
  BY DEF TableInv
<1> SUFFICES ASSUME NEW q \in Column, NEW i \in 0 .. used[q]-1
             PROVE  LET a == data[q * rows + i]
                        b == Received(r2)[q * r2 + i]
                    IN  b.id = a.id /\ b.size = a.size
                        /\ b.next = IF LastSend(q, i) THEN ToColumn(q, i, r2) ELSE a.next
  BY DEF AfterChain
<1> DEFINE s == q * r2 + i
<1>2. used[q] \in Nat /\ used[q] <= r2 /\ q \in Nat
  BY <1>1, Shapes
<1>3. i \in 0 .. r2-1
  BY <1>2
<1>4. s \in 0 .. NProcs * r2 - 1 /\ s \div r2 = q
  BY <1>2, <1>3, SlotInTable, SlotOfRow
<1>5. Copy(r2)[s] = data[q * rows + i]
  <2>1. SameRows(Copy(r2), r2)
    BY <1>1, CopyKeeps
  <2> QED BY <2>1 DEF SameRows
<1>6. EndsColumn(s, r2) <=> LastSend(q, i)
  BY <1>3, EndsColumnIs
<1>7. LinkOf(s, r2) = ToColumn(q, i, r2)
  BY <1>4 DEF LinkOf, ToColumn
<1> HIDE DEF s
<1>8. LET a == Copy(r2)[s]
          b == Received(r2)[s]
      IN  b.id = a.id /\ b.size = a.size
          /\ b.next = IF EndsColumn(s, r2) THEN LinkOf(s, r2) ELSE a.next
  BY <1>1, <1>4, ReceivedIs
<1> QED BY <1>5, <1>6, <1>7, <1>8 DEF s

(* Only the last link of the messages of a column is set. *)
LEMMA NotLastSend ==
  ASSUME TableInv, NEW p \in Column, NEW t \in Types, NEW places, HasList(p, t, places),
         NEW k \in 1 .. Len(log[p][t]) - 1
  PROVE  ~LastSend(p, places[k])
<1> SUFFICES ASSUME LastSend(p, places[k]) PROVE FALSE
  OBVIOUS
<1> DEFINE n == Len(log[p][t])
           u == "send"
           m == Len(log[p][u])
           places2 == Places(data, p * rows, start[p][u], count[p][u])
<1>1. Shape /\ u \in Types
  BY TypesAssumption DEF TableInv
<1>2. n \in Nat /\ m \in Nat /\ m = count[p][u] /\ m > 0 /\ places[k] = end[p][u]
  <2>1. count[p][u] > 0 /\ places[k] = end[p][u]
    BY DEF LastSend
  <2>2. log[p][u] \in Seq(Nat) /\ m = count[p][u] /\ log[p][t] \in Seq(Nat)
    BY <1>1, Shapes
  <2>3. n \in Nat /\ m \in Nat
    BY <2>2, SMTT(30)
  <2> QED BY <2>1, <2>2, <2>3
<1>3. HasList(p, u, places2)
  BY <1>1 DEF TableInv, Lists
<1>4. m \in 1 .. Len(log[p][u]) /\ k \in 1 .. Len(log[p][t]) /\ k < n
  BY <1>2
<1> HIDE DEF u, places2
<1>5. places2[m] = end[p][u]
  BY <1>1, <1>2, <1>3, ListFacts
<1>6. t = u /\ k = m
  BY <1>1, <1>2, <1>3, <1>4, <1>5, BeginApart
<1> QED BY <1>4, <1>6

LEMMA ReceivedList ==
  ASSUME TableInv, NEW r2 \in Nat, \A q \in Column : used[q] <= r2,
         NEW p \in Column, NEW t \in Types, NEW places, HasList(p, t, places)
  PROVE  IsList(Received(r2), p * r2, used[p], log[p][t], places)
<1> DEFINE d2 == Received(r2)
           base == p * rows
           base2 == p * r2
           ids == log[p][t]
           top == used[p]
           n == Len(ids)
<1>1. /\ Shape /\ base \in Nat /\ top \in Nat /\ top <= r2 /\ ids \in Seq(Nat) /\ p \in Nat
      /\ n \in Nat
  BY Shapes DEF TableInv
<1>2. base2 \in Nat
  BY <1>1
<1>3. Block(d2, r2) /\ AfterChain(d2, r2)
  BY <1>1, ReceivedIs, ChainedRows
<1>4. /\ places \in [1 .. n -> Nat]
      /\ \A k \in 1 .. n : places[k] < top
  BY <1>1, ListFacts
<1>5. IsList(data, base, top, ids, places)
  BY DEF HasList
<1> HIDE DEF d2
<1>6. SameElements(data, base, d2, base2, top)
  <2> HIDE DEF top
  <2>1. ASSUME NEW i \in 0 .. top-1 PROVE p * r2 + i \in DOMAIN d2
    <3>1. i \in 0 .. r2-1
      BY <1>1
    <3>2. p * r2 + i \in 0 .. NProcs * r2 - 1
      BY <3>1, SlotInTable
    <3> QED BY <1>3, <3>2 DEF Block
  <2> QED BY <1>3, <2>1 DEF SameElements, AfterChain, top
<1>7. ASSUME NEW k \in 1 .. n
      PROVE  /\ d2[base2 + places[k]].next \in Int
             /\ k \in 1 .. n-1 => d2[base2 + places[k]].next = data[base + places[k]].next
  <2> DEFINE i == places[k]
  <2>1. i \in Nat /\ i < top
    BY <1>4
  <2>2. k \in 1 .. n-1 => ~LastSend(p, i)
    BY NotLastSend
  <2> HIDE DEF i
  <2>3. i \in 0 .. top-1 /\ i \in 0 .. r2-1
    <3> HIDE DEF top
    <3> QED BY <1>1, <2>1
  <2>4. p * r2 + i \in 0 .. NProcs * r2 - 1
    BY <2>3, SlotInTable
  <2>5. d2[p * r2 + i] \in Slot
    BY <1>3, <2>4 DEF Block
  <2>6. d2[p * r2 + i].next \in Int
    BY <2>5 DEF Slot
  <2>7. k \in 1 .. n-1 => d2[p * r2 + i].next = data[p * rows + i].next
    BY <1>3, <2>2, <2>3 DEF AfterChain
  <2> QED BY <2>6, <2>7 DEF i
<1>8. SameLinks(data, base, d2, base2, ids, places)
  <2>1. \A k \in 1 .. n-1 : k \in 1 .. n
    BY <1>1
  <2> QED BY <1>7, <2>1 DEF SameLinks
<1> HIDE DEF base, base2, ids, top
<1>9. top <= top
  BY <1>1
<1>10. IsList(d2, base2, top, ids, places)
  BY <1>1, <1>2, <1>5, <1>6, <1>8, <1>9, ListKept
<1> QED BY <1>10 DEF d2, base2, ids, top

(* The last message of a column leads to the next column with messages. *)
LEMMA LastLeadsOn ==
  ASSUME TableInv, NEW r2 \in Nat, \A q \in Column : used[q] <= r2,
         NEW p \in Column, NEW places, HasList(p, "send", places), Len(log[p]["send"]) > 0,
         NEW q \in WithMessages(count), q > p, \A r \in WithMessages(count) : r > p => q <= r
  PROVE  LET s == p * r2 + places[Len(log[p]["send"])]
         IN  s + Received(r2)[s].next = q * r2 + start[q]["send"]
<1> DEFINE n == Len(log[p]["send"])
           i == places[n]
           s == p * r2 + i
           first == start[q]["send"]
<1>1. Shape /\ "send" \in Types /\ q \in Column
  BY TypesAssumption DEF TableInv, WithMessages
<1>2. /\ used[p] \in Nat /\ used[p] <= r2 /\ p \in Nat /\ n \in Nat /\ n = count[p]["send"]
      /\ first \in Nat /\ q \in Nat
  BY <1>1, Shapes, SMTT(30)
<1>3. n \in 1 .. n
  BY <1>2
<1>4. i \in Nat /\ i < used[p] /\ i = end[p]["send"]
  BY <1>1, <1>2, <1>3, ListFacts
<1>5. p # NProcs - 1
  BY <1>1, NProcsAssumption DEF Column
<1>6. LastSend(p, i)
  BY <1>2, <1>4, <1>5 DEF LastSend
<1>7. NextColumn(p, count) = q
  <2>1. /\ NextColumn(p, count) \in WithMessages(count) /\ NextColumn(p, count) > p
        /\ NextColumn(p, count) <= q
    BY NextColumnIs
  <2>2. q <= NextColumn(p, count)
    BY <2>1
  <2>3. NextColumn(p, count) \in Nat
    BY <2>1 DEF WithMessages, Column
  <2> QED BY <1>2, <2>1, <2>2, <2>3
<1>8. AfterChain(Received(r2), r2)
  BY ChainedRows
<1> HIDE DEF i, n
<1>9. i \in 0 .. used[p]-1
  BY <1>2, <1>4
<1>10. Received(r2)[p * r2 + i].next = q * r2 + first - (p * r2 + i)
  BY <1>6, <1>7, <1>8, <1>9 DEF AfterChain, ToColumn
<1>11. p * r2 \in Nat /\ q * r2 \in Nat
  BY <1>2
<1>12. s + (q * r2 + first - s) = q * r2 + first
  <2> DEFINE a == p * r2
             b == q * r2
  <2> HIDE DEF a, b, first
  <2>1. (a + i) + (b + first - (a + i)) = b + first
    BY <1>2, <1>4, <1>11 DEF a, b
  <2> QED BY <2>1 DEF a, b
<1> QED BY <1>10, <1>12 DEF i, n

-----------------------------------------------------------------------------
(* Chains of elements, in slots of any columns. *)

IsChain(d, slots, ids) ==
  /\ slots \in Seq(Nat) /\ Len(slots) = Len(ids)
  /\ \A k \in 1 .. Len(ids) : IsElement(d, slots[k], ids[k]) /\ d[slots[k]].next \in Int
  /\ \A k \in 1 .. Len(ids) - 1 : slots[k+1] = slots[k] + d[slots[k]].next

LEMMA ListIsChain ==
  ASSUME NEW d, NEW base, NEW top, NEW ids, NEW places,
         base \in Nat, ids \in Seq(Nat), IsList(d, base, top, ids, places)
  PROVE  IsChain(d, SlotsFrom(base, places, Len(ids)), ids)
<1> DEFINE n == Len(ids)
           slots == SlotsFrom(base, places, n)
<1>0. n \in Nat
  OBVIOUS
<1>1. places \in [1 .. n -> Nat]
  BY DEF IsList
<1>2. \A k \in 1 .. n : IsElement(d, base + places[k], ids[k]) /\ d[base + places[k]].next \in Int
  BY DEF IsList
<1>3. \A k \in 1 .. n-1 : places[k+1] = places[k] + d[base + places[k]].next
  BY DEF IsList
<1> HIDE DEF n
<1>4. slots = [k \in 1 .. n |-> base + places[k]]
  BY DEF SlotsFrom
<1>5. \A k \in 1 .. n : slots[k] = base + places[k] /\ slots[k] \in Nat
  BY <1>1, <1>4
<1>6. slots \in Seq(Nat) /\ Len(slots) = n
  BY <1>0, <1>1, <1>4
<1> HIDE DEF slots
<1>7. ASSUME NEW k \in 1 .. n-1 PROVE slots[k+1] = slots[k] + d[slots[k]].next
  <2> DEFINE x == d[slots[k]].next
             a == places[k]
             b == places[k+1]
  <2>1. k \in 1 .. n /\ k + 1 \in 1 .. n
    BY <1>0
  <2>2. a \in Nat /\ b \in Nat /\ slots[k] = base + a /\ slots[k+1] = base + b
    BY <1>1, <1>5, <2>1
  <2>3. x \in Int /\ b = a + x
    BY <1>2, <1>3, <2>1, <2>2
  <2> HIDE DEF x, a, b
  <2>4. base + b = (base + a) + x
    BY <2>2, <2>3
  <2> QED BY <2>2, <2>4 DEF x
<1>8. \A k \in 1 .. n : IsElement(d, slots[k], ids[k]) /\ d[slots[k]].next \in Int
  BY <1>2, <1>5
<1>9. IsChain(d, slots, ids)
  BY <1>6, <1>7, <1>8 DEF IsChain, n
<1> QED BY <1>9 DEF slots, n

LEMMA ChainHolds ==
  ASSUME NEW d, NEW s, NEW slots, NEW ids, ids \in Seq(Nat), IsChain(d, slots, ids),
         Len(ids) > 0 => slots[1] = s
  PROVE  Holds(d, Visited(d, s, Len(ids)), ids)
<1> DEFINE n == Len(ids)
<1>1. n \in Nat /\ DOMAIN ids = 1 .. n
  OBVIOUS
<1>2. /\ slots \in Seq(Nat) /\ Len(slots) = n
      /\ \A k \in 1 .. n : IsElement(d, slots[k], ids[k])
      /\ \A k \in 1 .. n-1 : slots[k+1] = slots[k] + d[slots[k]].next
  BY DEF IsChain
<1>3. n > 0 => slots[1] = s
  OBVIOUS
<1> HIDE DEF n
<1>4. slots \in [1 .. n -> Int] /\ DOMAIN slots = 1 .. n
  BY <1>2
<1>5. Visited(d, s, n) = slots
  BY <1>1, <1>2, <1>3, <1>4, VisitedIs, SMTT(30)
<1> QED BY <1>1, <1>2, <1>4, <1>5 DEF Holds, n

LEMMA ChainsJoin ==
  ASSUME NEW d, NEW a, NEW b, NEW ids, NEW jds,
         ids \in Seq(Nat), jds \in Seq(Nat), IsChain(d, a, ids), IsChain(d, b, jds),
         Len(ids) > 0 /\ Len(jds) > 0 => b[1] = a[Len(ids)] + d[a[Len(ids)]].next
  PROVE  IsChain(d, a \o b, ids \o jds)
<1> DEFINE n == Len(ids)
           m == Len(jds)
           c == a \o b
           kds == ids \o jds
<1>1. n \in Nat /\ m \in Nat
  OBVIOUS
<1>2. /\ a \in Seq(Nat) /\ Len(a) = n /\ b \in Seq(Nat) /\ Len(b) = m
      /\ \A k \in 1 .. n : IsElement(d, a[k], ids[k]) /\ d[a[k]].next \in Int
      /\ \A k \in 1 .. m : IsElement(d, b[k], jds[k]) /\ d[b[k]].next \in Int
      /\ \A k \in 1 .. n-1 : a[k+1] = a[k] + d[a[k]].next
      /\ \A k \in 1 .. m-1 : b[k+1] = b[k] + d[b[k]].next
  BY DEF IsChain
<1>3. /\ kds \in Seq(Nat) /\ Len(kds) = n + m
      /\ \A k \in 1 .. n : kds[k] = ids[k]
      /\ \A k \in 1 .. m : kds[n + k] = jds[k]
  OBVIOUS
<1>0. n > 0 /\ m > 0 => b[1] = a[n] + d[a[n]].next
  OBVIOUS
<1> HIDE DEF n, m
<1>4. /\ c \in Seq(Nat) /\ Len(c) = n + m
      /\ \A k \in 1 .. n : c[k] = a[k]
      /\ \A k \in 1 .. m : c[n + k] = b[k]
  <2>1. a \in Seq(Nat) /\ b \in Seq(Nat)
    BY <1>2
  <2>2. /\ c \in Seq(Nat) /\ Len(c) = Len(a) + Len(b)
        /\ \A k \in 1 .. Len(a) : c[k] = a[k]
        /\ \A k \in 1 .. Len(b) : c[Len(a) + k] = b[k]
    BY <2>1
  <2> HIDE DEF c
  <2> QED BY <1>2, <2>2
<1> HIDE DEF c, kds
<1>5. ASSUME NEW k \in 1 .. n + m
      PROVE  IsElement(d, c[k], kds[k]) /\ d[c[k]].next \in Int
  <2>1. CASE k <= n
    <3>1. k \in 1 .. n
      BY <1>1, <2>1
    <3> QED BY <1>2, <1>3, <1>4, <3>1
  <2>2. CASE k > n
    <3> DEFINE l == k - n
    <3>1. l \in 1 .. m /\ k = n + l
      BY <1>1, <2>2
    <3> HIDE DEF l
    <3>2. c[k] = b[l] /\ kds[k] = jds[l]
      BY <1>3, <1>4, <3>1
    <3> QED BY <1>2, <3>1, <3>2
  <2> QED BY <1>1, <2>1, <2>2
<1>6. ASSUME NEW k \in 1 .. n + m - 1
      PROVE  c[k+1] = c[k] + d[c[k]].next
  <2>1. CASE k < n
    <3>1. k \in 1 .. n-1 /\ k \in 1 .. n /\ k + 1 \in 1 .. n
      BY <1>1, <2>1
    <3> QED BY <1>2, <1>4, <3>1
  <2>2. CASE k = n
    <3>1. n \in 1 .. n /\ 1 \in 1 .. m /\ n > 0 /\ m > 0
      BY <1>1, <2>2
    <3>2. c[n] = a[n] /\ c[n + 1] = b[1]
      BY <1>4, <3>1
    <3> QED BY <1>0, <2>2, <3>1, <3>2
  <2>3. CASE k > n
    <3> DEFINE l == k - n
    <3>1. l \in 1 .. m-1 /\ l \in 1 .. m /\ l + 1 \in 1 .. m /\ k = n + l /\ k + 1 = n + (l + 1)
      BY <1>1, <2>3
    <3> HIDE DEF l
    <3>2. c[k] = b[l] /\ c[k+1] = b[l+1]
      BY <1>4, <3>1
    <3> QED BY <1>2, <3>1, <3>2
  <2> QED BY <1>1, <2>1, <2>2, <2>3
<1>7. Len(kds) = n + m /\ Len(c) = Len(kds) /\ c \in Seq(Nat)
  BY <1>3, <1>4
<1>8. \A k \in 1 .. Len(kds) : IsElement(d, c[k], kds[k]) /\ d[c[k]].next \in Int
  BY <1>5, <1>7
<1>9. ASSUME NEW k \in 1 .. Len(kds) - 1 PROVE c[k+1] = c[k] + d[c[k]].next
  <2>1. k \in 1 .. n + m - 1
    BY <1>1, <1>7
  <2> QED BY <1>6, <2>1
<1>10. IsChain(d, c, kds)
  BY <1>7, <1>8, <1>9 DEF IsChain
<1> QED BY <1>10 DEF c, kds

(* The sequences that FlattenSeq joins, one after the other. *)
Joins(f, n, seqs) ==
  /\ f \in [0 .. n -> Seq(Nat)] /\ f[0] = <<>>
  /\ \A k \in 1 .. n : f[k] = f[k-1] \o seqs[k]

LEMMA JoinsExist ==
  ASSUME NEW n \in Nat, NEW seqs \in [1 .. n -> Seq(Nat)]
  PROVE  \E f : Joins(f, n, seqs)
<1> DEFINE W == Seq(Nat)
           step == [k \in 1 .. n |-> [x \in W |-> x \o seqs[k]]]
<1>1. <<>> \in W /\ step \in StepOfEach(n, W)
  <2>1. ASSUME NEW k \in 1 .. n, NEW x \in W PROVE x \o seqs[k] \in W
    OBVIOUS
  <2> HIDE DEF W
  <2>2. ASSUME NEW k \in 1 .. n PROVE [x \in W |-> x \o seqs[k]] \in [W -> W]
    BY <2>1
  <2> QED BY <2>2 DEF StepOfEach, W
<1>2. PICK f : Iterates(f, n, W, <<>>, step)
  <2> HIDE DEF W, step
  <2> QED BY <1>1, RecursiveFunction
<1>3. ASSUME NEW k \in 1 .. n PROVE f[k] = f[k-1] \o seqs[k]
  <2>1. f[k] = step[k][f[k-1]] /\ f[k-1] \in W
    <3>1. k - 1 \in 0 .. n
      OBVIOUS
    <3> HIDE DEF step, W
    <3> QED BY <1>2, <3>1 DEF Iterates
  <2> HIDE DEF W
  <2>2. step[k] = [x \in W |-> x \o seqs[k]]
    OBVIOUS
  <2> HIDE DEF step
  <2> QED BY <2>1, <2>2
<1>4. f \in [0 .. n -> Seq(Nat)] /\ f[0] = <<>>
  BY <1>2 DEF Iterates
<1> QED BY <1>3, <1>4 DEF Joins

LEMMA FlattenIs ==
  ASSUME NEW n \in Nat \ {0}, NEW seqs \in [1 .. n -> Seq(Nat)], NEW f, Joins(f, n, seqs)
  PROVE  FlattenSeq(seqs) = f[n]
<1> DEFINE G(k, x) == x \o seqs[k]
           Rec(g) == g = [k \in 1 .. n |-> IF k = 1 THEN seqs[k] ELSE G(k, g[k-1])]
           g == CHOOSE g : Rec(g)
           h == [k \in 1 .. n |-> f[k]]
<1>1. /\ f \in [0 .. n -> Seq(Nat)] /\ f[0] = <<>>
      /\ \A k \in 1 .. n : f[k] = f[k-1] \o seqs[k]
  BY DEF Joins
<1>2. Rec(h)
  <2>1. ASSUME NEW k \in 1 .. n PROVE f[k] = IF k = 1 THEN seqs[k] ELSE G(k, h[k-1])
    <3>1. CASE k = 1
      <4>0. 1 \in 1 .. n /\ 1 - 1 = 0
        OBVIOUS
      <4>1. f[1] = f[0] \o seqs[1] /\ seqs[1] \in Seq(Nat)
        BY <1>1, <4>0
      <4>2. <<>> \o seqs[1] = seqs[1]
        BY <4>1
      <4> QED BY <1>1, <3>1, <4>1, <4>2
    <3>2. CASE k # 1
      <4>1. k - 1 \in 1 .. n
        BY <3>2
      <4>2. h[k-1] = f[k-1]
        BY <4>1
      <4> QED BY <1>1, <3>2, <4>2
    <3> QED BY <3>1, <3>2
  <2> HIDE DEF G
  <2> QED BY <2>1
<1>3. Rec(g)
  <2> HIDE DEF Rec, h
  <2> QED BY <1>2
<1>4. FlattenSeq(seqs) = g[n]
  <2>1. Len(seqs) = n /\ n # 0
    OBVIOUS
  <2> QED BY <2>1 DEF FlattenSeq
<1> HIDE DEF g
<1>5. \A k \in 1 .. n : g[k] = f[k]
  <2> DEFINE T == {k \in 0 .. n : k > 0 => g[k] = f[k]}
  <2>1. ASSUME NEW k \in 0 .. n-1, k \in T PROVE k + 1 \in T
    <3>1. /\ h[k+1] = IF k + 1 = 1 THEN seqs[k+1] ELSE G(k+1, h[(k+1)-1])
          /\ g[k+1] = IF k + 1 = 1 THEN seqs[k+1] ELSE G(k+1, g[(k+1)-1])
      <4>1. k + 1 \in 1 .. n
        OBVIOUS
      <4> HIDE DEF G, h
      <4> QED BY <1>2, <1>3, <4>1
    <3>2. k # 0 => h[k] = g[k]
      BY <2>1
    <3>3. (k + 1) - 1 = k /\ (k + 1 = 1 <=> k = 0) /\ k + 1 \in 1 .. n
      OBVIOUS
    <3>4. h[k+1] = g[k+1]
      <4> HIDE DEF G, h
      <4> QED BY <3>1, <3>2, <3>3
    <3>5. h[k+1] = f[k+1]
      BY <3>3
    <3> QED BY <3>4, <3>5
  <2>2. 0 \in T
    OBVIOUS
  <2>3. 0 .. n \subseteq T
    <3> HIDE DEF T
    <3> QED BY <2>1, <2>2, BoundedInduction
  <2> QED BY <2>3
<1>6. n \in 1 .. n
  OBVIOUS
<1> QED BY <1>4, <1>5, <1>6

-----------------------------------------------------------------------------
(* The chain of the messages goes through all columns. *)

Sent == [k \in 1 .. NProcs |-> log[k-1]["send"]]
FirstSlot(p, r2) == p * r2 + start[p]["send"]

(* The first column, from m on, that has messages. *)
FirstFrom(m, q) == q \in WithMessages(count) /\ q >= m /\ \A r \in WithMessages(count) : r >= m => q <= r

(* Where the last of these slots leads, and where the first one is. *)
LeadsOn(d, slots, m, r2) ==
  Len(slots) > 0 => \A q \in Column : FirstFrom(m, q) =>
    slots[Len(slots)] + d[slots[Len(slots)]].next = FirstSlot(q, r2)
Starts(slots, m, r2) ==
  Len(slots) > 0 => \A q \in Column : FirstFrom(m, q) => slots[1] = FirstSlot(q, r2)

(* The slots of the messages of columns 0 to m-1. *)
ChainTo(m, slots, ids, d, r2) ==
  /\ IsChain(d, slots, ids)
  /\ Starts(slots, 0, r2)
  /\ LeadsOn(d, slots, m, r2)
  /\ Len(slots) = 0 => \A q \in WithMessages(count) : q >= m

LEMMA OneColumn ==
  ASSUME TableInv, NEW r2 \in Nat, \A q \in Column : used[q] <= r2, NEW p \in Column
  PROVE  \E slots : /\ IsChain(Received(r2), slots, log[p]["send"])
                    /\ Len(slots) > 0 => slots[1] = FirstSlot(p, r2)
                    /\ LeadsOn(Received(r2), slots, p + 1, r2)
<1> DEFINE t == "send"
           ids == log[p][t]
           n == Len(ids)
           base == p * r2
           d == Received(r2)
           places == Places(data, p * rows, start[p][t], count[p][t])
           slots == SlotsFrom(base, places, n)
<1>1. Shape /\ t \in Types /\ HasList(p, t, places)
  BY TypesAssumption DEF TableInv, Lists
<1>2. p \in Nat /\ ids \in Seq(Nat) /\ n \in Nat /\ n = count[p][t] /\ base \in Nat
  <2>1. p \in Nat /\ ids \in Seq(Nat) /\ n = count[p][t]
    BY <1>1, Shapes
  <2> QED BY <2>1
<1>3. IsList(d, base, used[p], ids, places)
  <2> HIDE DEF places
  <2> QED BY <1>1, ReceivedList
<1>4. IsChain(d, slots, ids)
  <2> HIDE DEF places, base, ids, d
  <2> QED BY <1>2, <1>3, ListIsChain
<1>5. Len(slots) = n
  BY <1>4 DEF IsChain
<1>6. \A k \in 1 .. n : slots[k] = base + places[k]
  <2> HIDE DEF n, base, places
  <2> QED BY DEF SlotsFrom
<1>7. n > 0 => slots[1] = FirstSlot(p, r2)
  <2>1. n > 0 => places[1] = start[p][t]
    BY <1>1, <1>2 DEF HasList
  <2>2. n > 0 => 1 \in 1 .. n
    BY <1>2
  <2> QED BY <1>6, <2>1, <2>2 DEF FirstSlot
<1>8. ASSUME n > 0, NEW q \in Column, FirstFrom(p + 1, q)
      PROVE  slots[n] + d[slots[n]].next = FirstSlot(q, r2)
  <2>1. q \in WithMessages(count) /\ q > p
    BY <1>2, <1>8 DEF FirstFrom, Column
  <2>2. ASSUME NEW r \in WithMessages(count), r > p PROVE q <= r
    <3>1. r \in Nat
      BY DEF WithMessages, Column
    <3>2. r >= p + 1
      BY <1>2, <2>2, <3>1
    <3> QED BY <1>8, <3>2 DEF FirstFrom
  <2>3. slots[n] = base + places[n]
    BY <1>2, <1>6, <1>8
  <2> HIDE DEF places, slots
  <2>4. LET s == p * r2 + places[Len(log[p]["send"])]
        IN  s + Received(r2)[s].next = q * r2 + start[q]["send"]
    BY <1>1, <1>8, <2>1, <2>2, LastLeadsOn
  <2> QED BY <2>3, <2>4 DEF FirstSlot
<1> HIDE DEF slots
<1>9. LeadsOn(d, slots, p + 1, r2)
  BY <1>5, <1>8 DEF LeadsOn
<1> QED BY <1>4, <1>5, <1>7, <1>9

LEMMA ChainExtended ==
  ASSUME TableInv, NEW r2 \in Nat, \A q \in Column : used[q] <= r2, NEW p \in Column,
         NEW slots, NEW ids \in Seq(Nat), ChainTo(p, slots, ids, Received(r2), r2)
  PROVE  \E more : ChainTo(p + 1, more, ids \o log[p]["send"], Received(r2), r2)
<1> DEFINE d == Received(r2)
           jds == log[p]["send"]
           n == Len(ids)
           m == Len(jds)
<1>1. jds \in Seq(Nat) /\ n \in Nat /\ m \in Nat /\ m = count[p]["send"] /\ p \in Nat
  <2>1. jds \in Seq(Nat) /\ m = count[p]["send"] /\ p \in Nat
    BY Shapes, TypesAssumption DEF TableInv
  <2> QED BY <2>1
<1>2. p \in WithMessages(count) <=> m > 0
  BY <1>1 DEF WithMessages
<1>3. PICK next : /\ IsChain(d, next, jds)
                  /\ Len(next) > 0 => next[1] = FirstSlot(p, r2)
                  /\ LeadsOn(d, next, p + 1, r2)
  BY OneColumn
<1> DEFINE all == slots \o next
<1> HIDE DEF d, jds
<1>4. /\ slots \in Seq(Nat) /\ Len(slots) = n /\ next \in Seq(Nat) /\ Len(next) = m
      /\ IsChain(d, slots, ids)
  BY <1>3 DEF ChainTo, IsChain, d
<1>5. /\ all \in Seq(Nat) /\ Len(all) = n + m
      /\ n > 0 => all[1] = slots[1]
      /\ m > 0 => all[n + m] = next[m]
      /\ n = 0 /\ m > 0 => all[1] = next[1]
      /\ n > 0 /\ m = 0 => all[n + m] = slots[n]
  <2>1. slots \in Seq(Nat) /\ next \in Seq(Nat)
    BY <1>4
  <2>2. /\ all \in Seq(Nat) /\ Len(all) = Len(slots) + Len(next)
        /\ \A k \in 1 .. Len(slots) : all[k] = slots[k]
        /\ \A k \in 1 .. Len(next) : all[Len(slots) + k] = next[k]
    BY <2>1
  <2> HIDE DEF all, n, m
  <2>3. /\ \A k \in 1 .. n : all[k] = slots[k]
        /\ \A k \in 1 .. m : all[n + k] = next[k]
    BY <1>4, <2>2
  <2>4. n > 0 => 1 \in 1 .. n /\ n \in 1 .. n
    BY <1>1
  <2>5. m > 0 => 1 \in 1 .. m /\ m \in 1 .. m
    BY <1>1
  <2>6. n = 0 => n + 1 = 1
    BY <1>1
  <2>7. m = 0 => n + m = n
    BY <1>1
  <2>8. all \in Seq(Nat) /\ Len(all) = n + m
    BY <1>4, <2>2
  <2>9. m > 0 => all[n + m] = next[m]
    BY <2>3, <2>5
  <2>10. n = 0 /\ m > 0 => all[1] = next[1]
    BY <2>3, <2>5, <2>6
  <2> QED BY <2>3, <2>4, <2>7, <2>8, <2>9, <2>10
(* If column p has messages, it is the next one to come. *)
<1>6. m > 0 => FirstFrom(p, p)
  BY <1>1, <1>2 DEF FirstFrom
<1>7. IsChain(d, all, ids \o jds)
  <2>1. n > 0 /\ m > 0 => next[1] = slots[n] + d[slots[n]].next
    <3>1. LeadsOn(d, slots, p, r2)
      BY DEF ChainTo, d
    <3> HIDE DEF n, m
    <3> QED BY <1>3, <1>4, <1>6, <3>1 DEF LeadsOn
  <2> HIDE DEF all
  <2> QED BY <1>1, <1>3, <1>4, <2>1, ChainsJoin DEF all
<1> HIDE DEF n, m, all
<1>8. Len(all) = 0 => \A q \in WithMessages(count) : q >= p + 1
  <2> SUFFICES ASSUME Len(all) = 0, NEW q \in WithMessages(count) PROVE q >= p + 1
    OBVIOUS
  <2>1. n = 0 /\ m = 0
    <3>1. n \in Nat /\ m \in Nat /\ n + m = 0
      BY <1>1, <1>5
    <3> QED BY <3>1
  <2>2. q >= p
    BY <1>4, <2>1 DEF ChainTo
  <2>3. q # p
    BY <1>1, <1>2, <2>1
  <2>4. q \in Nat
    BY DEF WithMessages, Column
  <2> QED BY <1>1, <2>2, <2>3, <2>4
<1>9. Starts(all, 0, r2)
  <2>1. CASE n > 0
    <3>1. Starts(slots, 0, r2)
      BY DEF ChainTo
    <3> QED BY <1>4, <1>5, <2>1, <3>1 DEF Starts
  <2>2. CASE n = 0 /\ m > 0
    <3>1. all[1] = FirstSlot(p, r2)
      BY <1>3, <1>4, <1>5, <2>2
    <3>2. ASSUME NEW q \in Column, FirstFrom(0, q) PROVE q = p
      <4>1. q <= p
        BY <1>1, <1>2, <2>2, <3>2 DEF FirstFrom
      <4>2. q >= p
        BY <1>4, <2>2, <3>2 DEF ChainTo, FirstFrom
      <4> QED BY <1>1, <4>1, <4>2 DEF Column
    <3> QED BY <3>1, <3>2 DEF Starts
  <2>3. CASE n = 0 /\ m = 0
    BY <1>1, <1>5, <2>3 DEF Starts
  <2> QED BY <1>1, <2>1, <2>2, <2>3
<1>10. LeadsOn(d, all, p + 1, r2)
  <2>1. CASE m > 0
    <3>1. all[Len(all)] = next[Len(next)]
      BY <1>4, <1>5, <2>1
    <3> QED BY <1>3, <1>4, <2>1, <3>1 DEF LeadsOn
  <2>2. CASE m = 0 /\ n > 0
    <3>1. LeadsOn(d, slots, p, r2)
      BY DEF ChainTo, d
    <3>2. all[Len(all)] = slots[Len(slots)]
      BY <1>4, <1>5, <2>2
    <3>3. ASSUME NEW q \in Column, FirstFrom(p + 1, q) PROVE FirstFrom(p, q)
      <4>1. q \in WithMessages(count) /\ q >= p + 1 /\ q \in Nat
        BY <3>3 DEF FirstFrom, Column
      <4>2. ASSUME NEW r \in WithMessages(count), r >= p PROVE q <= r
        <5>1. r # p /\ r \in Nat
          BY <1>1, <1>2, <2>2 DEF WithMessages, Column
        <5>2. r >= p + 1
          BY <1>1, <4>2, <5>1
        <5> QED BY <3>3, <5>2 DEF FirstFrom
      <4>3. q >= p
        BY <1>1, <4>1
      <4> QED BY <4>1, <4>2, <4>3 DEF FirstFrom
    <3> QED BY <1>4, <2>2, <3>1, <3>2, <3>3 DEF LeadsOn
  <2>3. CASE m = 0 /\ n = 0
    BY <1>1, <1>5, <2>3 DEF LeadsOn
  <2> QED BY <1>1, <2>1, <2>2, <2>3
<1> QED BY <1>7, <1>8, <1>9, <1>10 DEF ChainTo, d, jds

LEMMA ReceivedHolds ==
  ASSUME TableInv, NEW r2 \in Nat, \A q \in Column : used[q] <= r2, NEW p \in Column, NEW t \in Types
  PROVE  Holds(Received(r2), Visited(Received(r2), p * r2 + start[p][t], count[p][t]), log[p][t])
<1> DEFINE d == Received(r2)
           places == Places(data, p * rows, start[p][t], count[p][t])
           base == p * r2
           ids == log[p][t]
           first == start[p][t]
           top == used[p]
<1>1. HasList(p, t, places) /\ Shape
  BY DEF TableInv, Lists
<1>2. /\ base \in Nat /\ top \in Nat /\ ids \in Seq(Nat) /\ first \in Nat
      /\ count[p][t] = Len(ids)
  <2>1. p \in Nat /\ top \in Nat /\ ids \in Seq(Nat) /\ first \in Nat /\ count[p][t] = Len(ids)
    BY <1>1, Shapes
  <2> QED BY <2>1
<1>3. IsList(d, base, top, ids, places)
  <2> HIDE DEF places
  <2> QED BY <1>1, ReceivedList
<1>4. BeginsAt(ids, places, first)
  BY <1>1, <1>2 DEF HasList, BeginsAt
<1> HIDE DEF d, base, ids, first, top, places
<1>5. Holds(d, Visited(d, base + first, Len(ids)), ids)
  BY <1>2, <1>3, <1>4, ListHolds
<1> QED BY <1>2, <1>5 DEF d, base, ids, first

LEMMA ChainThroughColumns ==
  ASSUME TableInv, NEW r2 \in Nat, \A q \in Column : used[q] <= r2,
         WithMessages(count) # {}
  PROVE  LET head == Min(WithMessages(count))
             all  == FlattenSeq(Sent)
         IN  Holds(Received(r2), Visited(Received(r2), FirstSlot(head, r2), Len(all)), all)
<1> DEFINE d == Received(r2)
           head == Min(WithMessages(count))
           W == WithMessages(count)
<1>1. NProcs \in Nat \ {0} /\ NProcs \in Nat
  BY NProcsAssumption
<1>2. Sent \in [1 .. NProcs -> Seq(Nat)] /\ \A p \in Column : Sent[p+1] = log[p]["send"]
  <2>1. ASSUME NEW k \in 1 .. NProcs PROVE log[k-1]["send"] \in Seq(Nat)
    <3>1. k - 1 \in Column
      BY <1>1 DEF Column
    <3> QED BY <3>1, Shapes, TypesAssumption DEF TableInv
  <2>2. ASSUME NEW p \in Column PROVE p + 1 \in 1 .. NProcs /\ (p + 1) - 1 = p
    BY <1>1 DEF Column
  <2> QED BY <2>1, <2>2 DEF Sent
<1>3. PICK f : Joins(f, NProcs, Sent)
  BY <1>1, <1>2, JoinsExist
<1>4. FlattenSeq(Sent) = f[NProcs]
  BY <1>1, <1>2, <1>3, FlattenIs
<1> DEFINE T == {m \in 0 .. NProcs : \E slots : ChainTo(m, slots, f[m], d, r2)}
<1>5. 0 \in T
  <2>1. f[0] = <<>>
    BY <1>3 DEF Joins
  <2>2. IsChain(d, <<>>, <<>>)
    <3>1. <<>> \in Seq(Nat) /\ Len(<<>>) = 0 /\ 1 .. 0 = {} /\ 1 .. 0 - 1 = {}
      OBVIOUS
    <3> QED BY <3>1 DEF IsChain
  <2>3. \A q \in W : q >= 0
    BY DEF WithMessages, Column
  <2>4. ChainTo(0, <<>>, <<>>, d, r2)
    <3>1. Len(<<>>) = 0
      OBVIOUS
    <3> HIDE DEF d
    <3> QED BY <2>2, <2>3, <3>1 DEF ChainTo, Starts, LeadsOn
  <2> QED BY <1>1, <2>1, <2>4
<1>6. ASSUME NEW m \in 0 .. NProcs-1, m \in T PROVE m + 1 \in T
  <2>1. PICK slots : ChainTo(m, slots, f[m], d, r2)
    BY <1>6
  <2>2. m \in Column /\ m + 1 \in 1 .. NProcs /\ m + 1 \in 0 .. NProcs /\ (m + 1) - 1 = m
    BY <1>1 DEF Column
  <2>3. f[m+1] = f[m] \o log[m]["send"] /\ f[m] \in Seq(Nat)
    <3>1. m \in 0 .. NProcs
      BY <1>1
    <3> QED BY <1>2, <1>3, <2>2, <3>1 DEF Joins
  <2>4. \E more : ChainTo(m + 1, more, f[m] \o log[m]["send"], d, r2)
    BY <2>1, <2>2, <2>3, ChainExtended
  <2> HIDE DEF d
  <2> QED BY <2>2, <2>3, <2>4
<1>7. 0 .. NProcs \subseteq T
  <2> HIDE DEF T
  <2> QED BY <1>1, <1>5, <1>6, BoundedInduction
<1>8. PICK slots : ChainTo(NProcs, slots, f[NProcs], d, r2)
  <2>1. NProcs \in T
    BY <1>1, <1>7
  <2> QED BY <2>1
<1>9. head \in W /\ head \in Column /\ \A q \in W : head <= q
  <2>1. W \in SUBSET Column /\ W # {}
    BY DEF WithMessages
  <2> QED BY <2>1, LeastColumn
<1>10. FirstFrom(0, head)
  BY <1>9 DEF FirstFrom, Column
<1>11. f[NProcs] \in Seq(Nat)
  <2>1. NProcs \in 0 .. NProcs
    BY <1>1
  <2> QED BY <1>3, <2>1 DEF Joins
<1>12. /\ IsChain(d, slots, f[NProcs])
       /\ Len(f[NProcs]) > 0 => slots[1] = FirstSlot(head, r2)
  <2>1. IsChain(d, slots, f[NProcs]) /\ Starts(slots, 0, r2)
    BY <1>8 DEF ChainTo
  <2>2. Len(slots) = Len(f[NProcs])
    BY <2>1 DEF IsChain
  <2> HIDE DEF d, head
  <2> QED BY <1>9, <1>10, <2>1, <2>2 DEF Starts
<1> DEFINE s == FirstSlot(head, r2)
           ids == f[NProcs]
<1> HIDE DEF d, s, ids
<1>13. Holds(d, Visited(d, s, Len(ids)), ids)
  BY <1>11, <1>12, ChainHolds DEF ids, s
<1> QED BY <1>4, <1>13 DEF d, s, ids

(* bspx_sync makes the received table large enough for every column. *)
ReceivedRows(extra) ==
  LET needed == Max({used[p] + extra : p \in Column})
  IN  IF recv.rows < needed THEN recv.rows + Max({recv.rows, needed}) ELSE recv.rows

LEMMA RoomToReceive ==
  ASSUME Shape, recv.rows \in Nat, NEW extra \in Nat
  PROVE  ReceivedRows(extra) \in Nat /\ \A q \in Column : used[q] <= ReceivedRows(extra)
<1> DEFINE f == [p \in Column |-> used[p] + extra]
           needed == Max({used[p] + extra : p \in Column})
           old == recv.rows
<1>1. \A p \in Column : used[p] \in Nat
  BY Shapes
<1>2. f \in [Column -> Nat] /\ \A p \in Column : f[p] = used[p] + extra
  BY <1>1
<1>3. needed = Max({f[p] : p \in 0 .. NProcs-1})
  BY DEF Column
<1>4. IsLargest(needed, f, 0 .. NProcs-1)
  <2> HIDE DEF f, needed
  <2> QED BY <1>2, <1>3, NProcsAssumption, LargestOfFamily DEF Column
<1>5. needed \in Nat /\ \A p \in Column : used[p] <= needed
  <2>1. needed \in Nat /\ \A p \in Column : f[p] <= needed
    BY <1>4 DEF IsLargest, Column
  <2> HIDE DEF needed, f
  <2> QED BY <1>1, <1>2, <2>1
<1>6. ReceivedRows(extra) = IF old < needed THEN old + Max({old, needed}) ELSE old
  BY DEF ReceivedRows
<1> HIDE DEF needed, old
<1>7. old \in Nat
  BY DEF old
<1>8. Max({old, needed}) = IF old >= needed THEN old ELSE needed
  BY <1>5, <1>7, MaxOfTwo
<1> DEFINE r == ReceivedRows(extra)
<1>9. r \in Nat /\ needed <= r
  <2>1. CASE old < needed
    BY <1>5, <1>6, <1>7, <1>8, <2>1
  <2>2. CASE ~(old < needed)
    BY <1>5, <1>6, <1>7, <2>2
  <2> QED BY <2>1, <2>2
<1> HIDE DEF r
<1>10. ASSUME NEW q \in Column PROVE used[q] <= r
  BY <1>1, <1>5, <1>9
<1> QED BY <1>9, <1>10 DEF r

RecvInv == recv.rows \in Nat /\ ReceivedIntact /\ ChainIsQueue

(* A table received with nothing in it. *)
NoElementReceived ==
  recv.rows \in Nat /\ recv.count = PerList(0) /\ recv.log = PerList(<<>>)

LEMMA NothingReceived == NoElementReceived => RecvInv
<1> SUFFICES ASSUME recv.rows \in Nat, recv.count = PerList(0), recv.log = PerList(<<>>)
             PROVE  RecvInv
  BY DEF NoElementReceived
<1>1. ASSUME NEW p \in Column, NEW t \in Types
      PROVE  Holds(recv.data, Visited(recv.data, p * recv.rows + recv.start[p][t], recv.count[p][t]),
                   recv.log[p][t])
  <2> DEFINE d == recv.data
             s == p * recv.rows + recv.start[p][t]
  <2>1. recv.count[p][t] = 0 /\ recv.log[p][t] = <<>>
    BY DEF PerList
  <2> DEFINE none == <<>>
  <2>2. none \in Seq(Nat) /\ Len(none) = 0
    OBVIOUS
  <2> HIDE DEF d, s
  <2>3. IsChain(d, none, none)
    <3>1. 1 .. 0 = {} /\ 1 .. 0 - 1 = {}
      OBVIOUS
    <3> QED BY <2>2, <3>1 DEF IsChain
  <2> HIDE DEF none
  <2>4. Len(none) > 0 => none[1] = s
    BY <2>2
  <2>5. Holds(d, Visited(d, s, Len(none)), none)
    BY <2>2, <2>3, <2>4, ChainHolds
  <2> QED BY <2>1, <2>2, <2>5 DEF d, s, none
<1>2. WithMessages(recv.count) = {}
  BY TypesAssumption DEF WithMessages, PerList
<1> QED BY <1>1, <1>2 DEF RecvInv, ReceivedIntact, ChainIsQueue

LEMMA ExchangeReceives ==
  ASSUME TableInv, RecvInv, NEW extra \in Extra, Exchange(extra)
  PROVE  RecvInv'
<1> DEFINE r2 == ReceivedRows(extra)
<1>1. r2 \in Nat /\ \A q \in Column : used[q] <= r2
  BY RoomToReceive, SizesAssumption DEF TableInv, RecvInv
<1>2. recv' = [rows |-> r2, data |-> Received(r2), start |-> start, count |-> count, log |-> log]
  <2>1. Arrived(r2) = Copy(r2)
    BY DEF Arrived, Copy
  <2>2. recv' = [rows |-> r2, data |-> Chained(Arrived(r2), r2, start, end, count),
                 start |-> start, count |-> count, log |-> log]
    BY DEF Exchange, ReceivedRows
  <2> HIDE DEF r2
  <2> QED BY <2>1, <2>2 DEF Received
<1> HIDE DEF r2
<1>3. /\ recv'.rows = r2 /\ recv'.data = Received(r2) /\ recv'.start = start
      /\ recv'.count = count /\ recv'.log = log
  BY <1>2
<1>4. ReceivedIntact'
  <2>1. \A p \in Column, t \in Types :
          Holds(Received(r2), Visited(Received(r2), p * r2 + start[p][t], count[p][t]), log[p][t])
    BY <1>1, ReceivedHolds
  <2> QED BY <1>3, <2>1 DEF ReceivedIntact
<1>5. ChainIsQueue'
  <2>1. WithMessages(count) # {} =>
          LET head == Min(WithMessages(count))
              all  == FlattenSeq(Sent)
          IN  Holds(Received(r2), Visited(Received(r2), FirstSlot(head, r2), Len(all)), all)
    BY <1>1, ChainThroughColumns
  <2>2. Sent = [k \in 1 .. NProcs |-> recv'.log[k-1]["send"]]
    BY <1>3 DEF Sent
  <2> QED BY <1>3, <2>1, <2>2 DEF ChainIsQueue, FirstSlot
<1> QED BY <1>1, <1>3, <1>4, <1>5 DEF RecvInv

LEMMA NextKeepsReceived == TableInv /\ RecvInv /\ [Next]_vars => RecvInv'
<1> SUFFICES ASSUME TableInv, RecvInv, [Next]_vars PROVE RecvInv'
  OBVIOUS
<1>1. CASE UNCHANGED recv
  BY <1>1 DEF RecvInv, ReceivedIntact, ChainIsQueue
<1>2. ASSUME NEW p \in Column, NEW t \in Types, NEW size \in Sizes, Push(p, t, size)
      PROVE  RecvInv'
  BY <1>1, <1>2 DEF Push
<1>3. CASE ResetRowCount
  <2>1. NoElementReceived'
    BY <1>3, MinRowsAssumption DEF ResetRowCount, NoElementReceived, PerList
  <2>2. NoElementReceived' => RecvInv'
    BY NothingReceived, PTL
  <2> QED BY <2>1, <2>2
<1>4. ASSUME NEW extra \in Extra, Exchange(extra) PROVE RecvInv'
  BY <1>4, ExchangeReceives
<1>5. CASE UNCHANGED vars
  BY <1>1, <1>5 DEF vars
<1> QED BY <1>2, <1>3, <1>4, <1>5 DEF Next

(* The table received has all lists of the senders, and the messages in it *)
(* are one chain: what deliveryTable_execute leaves behind.                *)
THEOREM ReceivedInvariant == Spec => []RecvInv
<1>1. Init => RecvInv
  BY NothingReceived, MinRowsAssumption DEF Init, IndexSlots, NoElementReceived
<1>2. TableInv /\ RecvInv /\ [Next]_vars => RecvInv'
  BY NextKeepsReceived
<1> QED BY <1>1, <1>2, TableInvariant, PTL DEF Spec

(* A table is received with all its lists: the elements of each type that  *)
(* a process sent are met there in order, whatever the rows of the two     *)
(* tables (expandableTable_comm, deliveryTable_execute).                   *)
THEOREM ReceivedAlwaysIntact == Spec => []ReceivedIntact
<1>1. RecvInv => ReceivedIntact
  BY DEF RecvInv
<1> QED BY <1>1, ReceivedInvariant, PTL

(* From the head of the message queue on, the links lead through all the   *)
(* messages received, by rank of the sender and then in the order sent,    *)
(* across columns without messages too (deliveryTable_execute).            *)
THEOREM ChainAlwaysQueue == Spec => []ChainIsQueue
<1>1. RecvInv => ChainIsQueue
  BY DEF RecvInv
<1> QED BY <1>1, ReceivedInvariant, PTL

=============================================================================
