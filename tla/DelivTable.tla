------------------------------ MODULE DelivTable ------------------------------
(***************************************************************************)
(* The delivery table in memory (bsp_delivtable.h, bsp_delivtable.c,       *)
(* bsp_exptable.h, bsp_exptable.c): one block of slots, cut into a column  *)
(* of "rows" slots per process.  At the top of a column an index says, for *)
(* each type of action, where its first and last element are and how many  *)
(* there are; an element is a header of TagSlots slots and its data, and   *)
(* its header says how far on the next element of the same type is.        *)
(*                                                                         *)
(* The module follows a table from the calls that fill it, through its     *)
(* growth and its reset, to the table in which it is received and the      *)
(* chain of messages that deliveryTable_execute makes there.  Elements     *)
(* have numbers, and the logs of numbers say what the lists should hold:   *)
(* they are the queues BspSync uses for the same tables.                   *)
(***************************************************************************)
EXTENDS Integers, Sequences, FiniteSets, SequencesExt

CONSTANTS
  NProcs,     \* columns of a table
  Types,      \* types of actions; "send" is one
  Sizes,      \* sizes of the data of an element, in bytes
  Extra,      \* slots a receiver keeps for answers to its gets
  MinRows,    \* BSP_DELIVTAB_MIN_SIZE
  MaxPush     \* bound: elements pushed in a run

SlotBytes  == 8     \* sizeof(ALIGNED_TYPE)
TagSlots   == 2     \* slots of a DelivElement
IndexSlots == 9     \* slots of 3 * 6 unsigned ints

Column == 0 .. NProcs-1

ASSUME NProcsAssumption == NProcs \in Nat \ {0}
ASSUME TypesAssumption == "send" \in Types
ASSUME SizesAssumption == Sizes \subseteq Nat /\ Extra \subseteq Nat /\ MaxPush \in Nat
(* deliveryTable_resetrowcount leaves no room for the index on top of the  *)
(* minimal size, so the size has to include it.                            *)
ASSUME MinRowsAssumption == MinRows \in Nat /\ MinRows >= IndexSlots

VARIABLES
  rows, data, used,      \* of the table: rows, the slots, used_slot_count
  start, end, count,     \* the index of each column, per type
  log,                   \* numbers of the elements of each list, in order
  pushes,                \* elements pushed so far
  recv                   \* the received table, and what it should hold

vars == <<rows, data, used, start, end, count, log, pushes, recv>>

no_slots(bytes) == (bytes + SlotBytes - 1) \div SlotBytes

(* A slot holds a header or data of element id, or what malloc left there. *)
Junk == [id |-> 0, next |-> 0, size |-> 0]
ElementSlot(id, size) == [id |-> id, next |-> 0, size |-> size]

PerList(v) == [p \in Column |-> [t \in Types |-> v]]
EmptyUsed == [p \in Column |-> IndexSlots]
Memory(r) == [s \in 0 .. NProcs * r - 1 |-> Junk]

Init ==
  /\ rows = MinRows + IndexSlots
  /\ data = Memory(rows)
  /\ used = EmptyUsed
  /\ start = PerList(0) /\ end = PerList(0) /\ count = PerList(0)
  /\ log = PerList(<<>>)
  /\ pushes = 0
  /\ recv = [rows |-> MinRows + IndexSlots, data |-> Memory(MinRows + IndexSlots),
             start |-> PerList(0), count |-> PerList(0), log |-> PerList(<<>>)]

-----------------------------------------------------------------------------
(* expandableTable_expand: the used slots of every column move to where    *)
(* the column is in the larger block.                                      *)
MovedFlat(d, old, new) ==               \* mutant: the block is copied as a whole
  [s \in 0 .. NProcs * new - 1 |-> IF s < NProcs * old THEN d[s] ELSE Junk]
Moved(d, old, new) ==
  [s \in 0 .. NProcs * new - 1 |->
     LET p == s \div new
         i == s % new
     IN  IF i < used[p] THEN d[p * old + i] ELSE Junk]

(* deliveryTable_push grows the table to twice its rows at least. *)
RowsForHeader(p, slots) ==              \* mutant: room is made for the header only
  LET free == rows - used[p]
  IN  IF TagSlots > free THEN rows + Max({rows, TagSlots - free}) ELSE rows
RowsFor(p, slots) ==
  LET free == rows - used[p]
  IN  IF slots > free THEN rows + Max({rows, slots - free}) ELSE rows

Link(p, t) == used[p] - end[p][t]

Push(p, t, size) ==
  LET slots   == TagSlots + no_slots(size)
      newrows == RowsFor(p, slots)
      moved   == IF newrows = rows THEN data ELSE Moved(data, rows, newrows)
      at      == p * newrows + used[p]
      linked  == IF count[p][t] = 0 THEN moved
                 ELSE [moved EXCEPT ![p * newrows + end[p][t]].next = Link(p, t)]
  IN
  /\ pushes < MaxPush
  /\ pushes' = pushes + 1
  /\ rows' = newrows
  /\ data' = [s \in DOMAIN linked |-> IF s \in at .. at + slots - 1
                                        THEN ElementSlot(pushes', size) ELSE linked[s]]
  /\ start' = IF count[p][t] = 0 THEN [start EXCEPT ![p][t] = used[p]] ELSE start
  /\ end' = [end EXCEPT ![p][t] = used[p]]
  /\ count' = [count EXCEPT ![p][t] = @ + 1]
  /\ used' = [used EXCEPT ![p] = @ + slots]
  /\ log' = [log EXCEPT ![p][t] = Append(@, pushes')]
  /\ UNCHANGED recv

(* deliveryTable_reset: the index of every column is cleared. *)
Reset ==
  /\ used' = EmptyUsed
  /\ start' = PerList(0) /\ end' = PerList(0) /\ count' = PerList(0)
  /\ log' = PerList(<<>>)

(* deliveryTable_resetrowcount, of both tables, as bspx_resetbuffers does; *)
(* the received messages are deleted with their table.                     *)
ResetRowCount ==
  /\ \A p \in Column : used[p] = IndexSlots
  /\ Reset
  /\ rows' = MinRows /\ data' = Memory(MinRows)
  /\ recv' = [rows |-> MinRows, data |-> Memory(MinRows),
              start |-> PerList(0), count |-> PerList(0), log |-> PerList(<<>>)]
  /\ UNCHANGED pushes

(***************************************************************************)
(* deliveryTable_execute chains the messages of all columns: the last one  *)
(* of a column gets the distance to the first one of the next column, or,  *)
(* while columns without messages follow, to a place that the next column  *)
(* with messages corrects.                                                 *)
(***************************************************************************)
WithMessages(n) == {p \in Column : n[p]["send"] > 0}
NextColumn(p, n) ==
  LET after == {q \in WithMessages(n) : q > p}
  IN  IF after = {} THEN NProcs - 1 ELSE Min(after)

ChainNeighbour(d, r, st, en, n) ==      \* mutant: only direct neighbours are linked
  [s \in DOMAIN d |->
     IF \E p \in WithMessages(n) : p + 1 \in Column /\ s = p * r + en[p]["send"]
       THEN LET p == s \div r IN [d[s] EXCEPT !.next = (p+1) * r + st[p+1]["send"] - s]
       ELSE d[s]]
Chained(d, r, st, en, n) ==
  [s \in DOMAIN d |->
     IF \E p \in WithMessages(n) : p # NProcs - 1 /\ s = p * r + en[p]["send"]
       THEN LET q == NextColumn(s \div r, n)
            IN  [d[s] EXCEPT !.next = q * r + st[q]["send"] - s]
       ELSE d[s]]

(***************************************************************************)
(* The exchange: bspx_sync makes the received table large enough,          *)
(* expandableTable_comm moves the used slots of each column to a column of *)
(* that table, whose rows are its own, and deliveryTable_execute walks it. *)
(* Column p stands for what process p sent.  Then the table is reset.      *)
(***************************************************************************)
ArrivedStride(newrows) ==               \* mutant: the columns keep the sender's rows
  [s \in 0 .. NProcs * newrows - 1 |->
     IF s \in DOMAIN data /\ s % rows < used[s \div rows] THEN data[s] ELSE Junk]
Arrived(newrows) ==
  [s \in 0 .. NProcs * newrows - 1 |->
     IF s % newrows < used[s \div newrows]
       THEN data[(s \div newrows) * rows + (s % newrows)] ELSE Junk]

Exchange(extra) ==
  LET needed  == Max({used[p] + extra : p \in Column})
      newrows == IF recv.rows < needed THEN recv.rows + Max({recv.rows, needed}) ELSE recv.rows
  IN
  /\ recv' = [rows |-> newrows, data |-> Chained(Arrived(newrows), newrows, start, end, count),
              start |-> start, count |-> count, log |-> log]
  /\ Reset
  /\ UNCHANGED <<rows, data, pushes>>

Next ==
  \/ \E p \in Column, t \in Types, size \in Sizes : Push(p, t, size)
  \/ ResetRowCount
  \/ \E extra \in Extra : Exchange(extra)

Spec == Init /\ [][Next]_vars

-----------------------------------------------------------------------------
(* The slots visited by following n elements from slot s on. *)
Visited(d, s, n) ==
  LET at[k \in 1 .. n] == IF k = 1 THEN s ELSE at[k-1] + d[at[k-1]].next
  IN  at

(* The element whose header is at s, with all its slots still its own. *)
IsElement(d, s, id) ==
  \A i \in s .. s + TagSlots + no_slots(d[s].size) - 1 : i \in DOMAIN d /\ d[i].id = id

Holds(d, slots, ids) ==
  Len(ids) = Len(slots) /\ \A k \in DOMAIN slots : IsElement(d, slots[k], ids[k])

(* Type correctness: the index and used_slot_count of every column stay    *)
(* within the rows of the table.                                           *)
TypeOK ==
  /\ rows \in Nat
  /\ DOMAIN data = 0 .. NProcs * rows - 1
  /\ used \in [Column -> IndexSlots .. rows]
  /\ start \in [Column -> [Types -> 0 .. rows]]
  /\ end \in [Column -> [Types -> 0 .. rows]]
  /\ count \in [Column -> [Types -> 0 .. MaxPush]]
  /\ pushes \in 0 .. MaxPush

(* In every state, however often the table has grown, each list of each    *)
(* column is exactly the elements of that type pushed there since the last *)
(* reset, in order, and no element has lost a slot to another one.         *)
ListsIntact ==
  \A p \in Column, t \in Types :
    Holds(data, Visited(data, p * rows + start[p][t], count[p][t]), log[p][t])

(* The lists survive the move into a table of other rows, except the last  *)
(* link of the messages, which is not followed inside the column.          *)
ReceivedIntact ==
  \A p \in Column, t \in Types :
    Holds(recv.data, Visited(recv.data, p * recv.rows + recv.start[p][t], recv.count[p][t]),
          recv.log[p][t])

(* From the head of the message queue, following n_mesg elements, one      *)
(* meets the messages of all senders, by rank and then in order.           *)
ChainIsQueue ==
  WithMessages(recv.count) # {} =>
    LET head == Min(WithMessages(recv.count))
        all  == FlattenSeq([k \in 1 .. NProcs |-> recv.log[k-1]["send"]])
    IN  Holds(recv.data, Visited(recv.data, head * recv.rows + recv.start[head]["send"], Len(all)), all)

=============================================================================
