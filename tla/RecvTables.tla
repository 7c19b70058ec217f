----------------------------- MODULE RecvTables -----------------------------
(***************************************************************************)
(* How large the four tables of a process are (bspx.c, bsp_exptable.h,     *)
(* bsp_reqtable.h, bsp_delivtable.h).  The tables the program fills grow   *)
(* when they are full.  Those in which they are received must be large     *)
(* enough before the data arrives: the sizes of the columns go ahead in    *)
(* the first exchange of bspx_sync, but the answers to the gets are only   *)
(* added to the delivery tables after it, so a process reckons itself, in  *)
(* data_sizes, what will come back for the gets it made.                   *)
(*                                                                         *)
(* The contents of the tables are left to BspSync and DelivTable: here an  *)
(* element is its size.  BspSync shows that all processes make the same    *)
(* exchanges, so a step of this module takes all of them through one.      *)
(***************************************************************************)
EXTENDS Integers, Sequences, FiniteSets, SequencesExt

CONSTANTS
  N,          \* number of processes
  Sizes,      \* sizes in bytes of what a put, a message or a get moves
  ReqMin,     \* BSP_REQTAB_MIN_SIZE
  DelivMin,   \* BSP_DELIVTAB_MIN_SIZE
  MaxCalls,   \* bound: calls in a run
  MaxSync     \* bound: supersteps

SlotBytes    == 8     \* sizeof(ALIGNED_TYPE)
ElementBytes == 16    \* sizeof(DelivElement)
IndexSlots   == 9     \* the index on top of a column of a delivery table

Proc == 0 .. N-1

ASSUME NAssumption == N \in Nat \ {0}
ASSUME SizesAssumption == Sizes \subseteq Nat /\ MaxCalls \in Nat /\ MaxSync \in Nat
(* A table without rows cannot double, and deliveryTable_resetrowcount     *)
(* leaves no room for the index on top of the minimal size.                *)
ASSUME MinAssumption == ReqMin \in Nat \ {0} /\ DelivMin \in Nat /\ DelivMin >= IndexSlots

VARIABLES
  phase,      \* "compute", or the exchange to come: "req" or "deliv"
  calls,      \* calls made so far
  syncs,      \* supersteps completed
  req,        \* request_table: [rows, column], the sizes requested, by destination
  data_sizes, \* request_table.info.req.data_sizes
  del,        \* delivery_table: [rows, used], the slots used, by destination
  reqRecv,    \* request_received_table: [rows, used]
  delRecv,    \* delivery_received_table: [rows, used]
  peak        \* the most slots a column of each table had to hold since its reset

vars == <<phase, calls, syncs, req, data_sizes, del, reqRecv, delRecv, peak>>

no_slots(bytes) == (bytes + SlotBytes - 1) \div SlotBytes
DelivSlots(size) == no_slots(ElementBytes) + no_slots(size)

Zero == [q \in Proc |-> 0]
EmptyIndexless == [q \in Proc |-> 0]   \* mutant: the index is not kept free
EmptyIndex == [q \in Proc |-> IndexSlots]
EmptyReq == [q \in Proc |-> <<>>]
Everywhere(v) == [p \in Proc |-> v]

(* bspx_init_bspobject *)
Init ==
  /\ phase = "compute" /\ calls = 0 /\ syncs = 0
  /\ req = Everywhere([rows |-> ReqMin, column |-> EmptyReq])
  /\ data_sizes = Everywhere(Zero)
  /\ del = Everywhere([rows |-> DelivMin + IndexSlots, used |-> EmptyIndex])
  /\ reqRecv = Everywhere([rows |-> ReqMin, used |-> Zero])
  /\ delRecv = Everywhere([rows |-> DelivMin + IndexSlots, used |-> EmptyIndex])
  /\ peak = Everywhere([req |-> 0, del |-> IndexSlots, reqRecv |-> 0, delRecv |-> IndexSlots])

-----------------------------------------------------------------------------
(* deliveryTable_push, as far as it goes for room. *)
Pushed(table, q, size) ==
  LET object == DelivSlots(size)
      free   == table.rows - table.used[q]
  IN  [rows |-> IF object > free THEN table.rows + Max({table.rows, object - free}) ELSE table.rows,
       used |-> [table.used EXCEPT ![q] = @ + object]]

(* fixedElSizeTable_push: a full table is doubled. *)
Requested(table, q, size) ==
  [rows   |-> IF Len(table.column[q]) = table.rows THEN 2 * table.rows ELSE table.rows,
   column |-> [table.column EXCEPT ![q] = Append(@, size)]]

(* The answer comes with a header, which counts. *)
AnswerDataOnly(size) == size          \* mutant: the header is forgotten
AnswerBytes(size) == size + ElementBytes

Calls ==
  /\ phase = "compute" /\ calls < MaxCalls
  /\ calls' = calls + 1
  /\ UNCHANGED <<phase, syncs>>

(* bspx_put, bspx_send *)
Deliver(p, q, size) ==
  /\ Calls
  /\ del' = [del EXCEPT ![p] = Pushed(@, q, size)]
  /\ peak' = [peak EXCEPT ![p].del = Max({@, del'[p].used[q]})]
  /\ UNCHANGED <<req, data_sizes, reqRecv, delRecv>>

(* bspx_get *)
Get(p, q, size) ==
  /\ Calls
  /\ req' = [req EXCEPT ![p] = Requested(@, q, size)]
  /\ data_sizes' = [data_sizes EXCEPT ![p][q] = @ + AnswerBytes(size)]
  /\ peak' = [peak EXCEPT ![p].req = Max({@, Len(req'[p].column[q])})]
  /\ UNCHANGED <<del, reqRecv, delRecv>>

(* bspx_resetbuffers, called when a sync has just emptied the tables. *)
ResetBuffers(p) ==
  /\ Calls
  /\ req[p].column = EmptyReq /\ del[p].used = EmptyIndex
  /\ req' = [req EXCEPT ![p].rows = ReqMin]
  /\ del' = [del EXCEPT ![p].rows = DelivMin]
  /\ data_sizes' = [data_sizes EXCEPT ![p] = Zero]
  /\ reqRecv' = [reqRecv EXCEPT ![p].rows = ReqMin]
  /\ delRecv' = [delRecv EXCEPT ![p] = [rows |-> DelivMin, used |-> EmptyIndex]]
  /\ peak' = [peak EXCEPT ![p] = [req |-> 0, del |-> IndexSlots, reqRecv |-> 0, delRecv |-> IndexSlots]]

-----------------------------------------------------------------------------
(* bspx_sync: the rows of a received table, given what its columns need. *)
EnlargedAlways(rows, needed) ==       \* mutant: the table grows every time
  rows + Max({rows, needed})
Enlarged(rows, needed) ==
  IF rows < needed THEN rows + Max({rows, needed}) ELSE rows

(* What p expects in the columns of its received tables. *)
ReqSlots(p, q) == Len(req[q].column[p])
ExpectedReq(p) == [q \in Proc |-> ReqSlots(p, q)]
ExpectedDel(p) == [q \in Proc |-> del[q].used[p] + data_sizes[p][q]]

Most(columns) == Max({columns[q] : q \in Proc})
AnyGets == \E p, q \in Proc : req[p].column[q] # <<>>

(* The exchange of the sizes. *)
ExchangeInfo ==
  /\ phase = "compute" /\ syncs < MaxSync
  /\ phase' = IF AnyGets THEN "req" ELSE "deliv"
  /\ reqRecv' = [p \in Proc |-> [rows |-> Enlarged(reqRecv[p].rows, Most(ExpectedReq(p))),
                                 used |-> ExpectedReq(p)]]
  /\ delRecv' = [p \in Proc |-> [rows |-> Enlarged(delRecv[p].rows, Most(ExpectedDel(p))),
                                 used |-> ExpectedDel(p)]]
  /\ peak' = [p \in Proc |-> [peak[p] EXCEPT !.reqRecv = Max({@, Most(ExpectedReq(p))}),
                                             !.delRecv = Max({@, Most(ExpectedDel(p))})]]
  /\ UNCHANGED <<calls, syncs, req, data_sizes, del>>

(* requestTable_execute: a delivery for each request of a column ... *)
AnsweredColumn(table, q, sizes) ==
  FoldLeft(LAMBDA t, size : Pushed(t, q, size), table, sizes)

(* ... column by column, behind what the program has put there. *)
Answered(p) ==
  FoldLeft(LAMBDA table, q : AnsweredColumn(table, q, req[q].column[p]),
           del[p], [i \in 1 .. N |-> i - 1])

(* The exchange of the requests, and their execution. *)
ExchangeRequests ==
  /\ phase = "req"
  /\ phase' = "deliv"
  /\ del' = [p \in Proc |-> Answered(p)]
  /\ peak' = [p \in Proc |-> [peak[p] EXCEPT !.del = Max({@, Most(Answered(p).used)})]]
  /\ UNCHANGED <<calls, syncs, req, data_sizes, reqRecv, delRecv>>

(* The exchange of the deliveries; then the tables are emptied, those      *)
(* received only when the next sync begins.                                *)
ExchangeDeliveries ==
  /\ phase = "deliv"
  /\ phase' = "compute" /\ syncs' = syncs + 1
  /\ req' = [p \in Proc |-> [req[p] EXCEPT !.column = EmptyReq]]
  /\ data_sizes' = Everywhere(Zero)
  /\ del' = [p \in Proc |-> [del[p] EXCEPT !.used = EmptyIndex]]
  /\ UNCHANGED <<calls, reqRecv, delRecv, peak>>

(* The bound on supersteps is reached. *)
Over == phase = "compute" /\ syncs = MaxSync /\ calls = MaxCalls /\ UNCHANGED vars

Next ==
  \/ \E p, q \in Proc, size \in Sizes : Deliver(p, q, size) \/ Get(p, q, size)
  \/ \E p \in Proc : ResetBuffers(p)
  \/ ExchangeInfo \/ ExchangeRequests \/ ExchangeDeliveries
  \/ Over

Spec == Init /\ [][Next]_vars

-----------------------------------------------------------------------------
(* Type correctness; the columns of the delivery tables never reach into   *)
(* the index on top of them, which a reset clears but does not give away.  *)
AtLeastIndex == {n \in Nat : n >= IndexSlots}
TypeOK ==
  /\ phase \in {"compute", "req", "deliv"}
  /\ calls \in 0 .. MaxCalls /\ syncs \in 0 .. MaxSync
  /\ \A p \in Proc :
       /\ req[p].rows \in Nat /\ req[p].column \in [Proc -> Seq(Sizes)]
       /\ data_sizes[p] \in [Proc -> Nat]
       /\ reqRecv[p].rows \in Nat /\ reqRecv[p].used \in [Proc -> Nat]
       /\ \A table \in {del[p], delRecv[p]} :
            table.rows \in AtLeastIndex /\ table.used \in [Proc -> AtLeastIndex]

(* No table is written beyond its rows: neither by the program's calls and *)
(* the answers to requests, nor by an exchange, whatever the sizes of the  *)
(* gets and of the deliveries that share a column.                         *)
Fits ==
  \A p, q \in Proc :
    /\ Len(req[p].column[q]) <= req[p].rows
    /\ del[p].used[q] <= del[p].rows
    /\ phase = "req" => ReqSlots(p, q) <= reqRecv[p].rows
    /\ phase = "deliv" => /\ del[q].used[p] <= delRecv[p].used[q]
                          /\ delRecv[p].used[q] <= delRecv[p].rows

(* However many supersteps there were, no table is more than twice as      *)
(* large as the most it ever had to hold (or its first size).              *)
GrowthBounded ==
  \A p \in Proc :
    /\ req[p].rows     <= Max({ReqMin, 2 * peak[p].req})
    /\ reqRecv[p].rows <= Max({ReqMin, 2 * peak[p].reqRecv})
    /\ del[p].rows     <= Max({DelivMin + IndexSlots, 2 * peak[p].del})
    /\ delRecv[p].rows <= Max({DelivMin + IndexSlots, 2 * peak[p].delRecv})

=============================================================================
