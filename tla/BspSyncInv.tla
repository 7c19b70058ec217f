----------------------------- MODULE BspSyncInv -----------------------------
(***************************************************************************)
(* Why the processes of BspSync always meet in the same collective: an     *)
(* inductive invariant of its control state, which TLC checks on small     *)
(* instances and BspSyncProofs proves for any number of processes.         *)
(*                                                                         *)
(* It says, for each pair of processes, how far apart they can be, and     *)
(* which blocks are then on their way from one to the other; and that a    *)
(* process that has passed the exchange of the sizes decided about the     *)
(* exchange of requests as every other one did or will.                    *)
(***************************************************************************)
EXTENDS BspSync

ControlTypeOK ==
  /\ pc \in [Proc -> Kinds \union {"compute"}]
  /\ step \in [Proc -> Nat]
  /\ anyGets \in [Proc -> BOOLEAN]
  /\ DOMAIN reqTab = Proc
  /\ DOMAIN chan = Proc
  /\ \A p \in Proc : DOMAIN chan[p] = Proc

(* A block of p, which in the exchange of sizes says whether p issued gets. *)
IsBlock(b, p, kind) ==
  /\ b.kind = kind
  /\ kind = "info" => b.body = IssuedGets(p)

(* The blocks on their way from p to q. *)
None(p, q) == chan[p][q] = <<>>
One(p, q, kind) ==
  /\ Len(chan[p][q]) = 1
  /\ chan[p][q] = <<chan[p][q][1]>>
  /\ IsBlock(chan[p][q][1], p, kind)
Two(p, q, kind1, kind2) ==
  /\ Len(chan[p][q]) = 2
  /\ chan[p][q] = <<chan[p][q][1], chan[p][q][2]>>
  /\ IsBlock(chan[p][q][1], p, kind1)
  /\ IsBlock(chan[p][q][2], p, kind2)

(* p and q are in the same superstep. *)
SameStep(p, q) ==
  /\ step[p] = step[q]
  /\ \/ pc[p] = "compute" /\ pc[q] \in {"compute", "info"} /\ None(p, q)
     \/ pc[p] = "info"  /\ pc[q] \in {"compute", "info"} /\ One(p, q, "info")
     \/ pc[p] = "info"  /\ pc[q] = "req" /\ None(p, q)
     \/ pc[p] = "info"  /\ pc[q] = "deliv" /\ ~anyGets[q] /\ None(p, q)
     \/ pc[p] = "req"   /\ pc[q] = "info" /\ Two(p, q, "info", "req")
     \/ pc[p] = "req"   /\ pc[q] = "req" /\ One(p, q, "req")
     \/ pc[p] = "req"   /\ pc[q] = "deliv" /\ None(p, q)
     \/ pc[p] = "deliv" /\ pc[q] = "info" /\ ~anyGets[p] /\ Two(p, q, "info", "deliv")
     \/ pc[p] = "deliv" /\ pc[q] = "req" /\ Two(p, q, "req", "deliv")
     \/ pc[p] = "deliv" /\ pc[q] = "deliv" /\ One(p, q, "deliv")

(* p has returned from the bspx_sync that q is still about to leave. *)
Ahead(p, q) ==
  /\ step[p] = step[q] + 1
  /\ pc[q] = "deliv"
  /\ \/ pc[p] = "compute" /\ One(p, q, "deliv")
     \/ pc[p] = "info" /\ Two(p, q, "deliv", "info")

(* The other way round. *)
Behind(p, q) ==
  /\ step[q] = step[p] + 1
  /\ pc[p] = "deliv" /\ pc[q] \in {"compute", "info"}
  /\ None(p, q)

Meeting(p, q) == SameStep(p, q) \/ Ahead(p, q) \/ Behind(p, q)

(* Having left the exchange of sizes of a superstep. *)
Decided(p) == pc[p] \in {"req", "deliv"}
SomeIssued == \E r \in Proc : IssuedGets(r)

Agreement(p, q) ==
  /\ pc[p] = "req" => anyGets[p] = TRUE
  /\ step[p] = step[q] /\ Decided(p) /\ pc[q] = "info" => anyGets[p] = SomeIssued
  /\ step[p] = step[q] /\ Decided(p) /\ Decided(q) => anyGets[p] = anyGets[q]

(* Wherever two processes are, no more than one exchange apart, the blocks *)
(* between them are those the receiver will ask for, in that order, and    *)
(* both go the same way at the branch on any_gets.                         *)
InStep == \A p, q \in Proc : Meeting(p, q) /\ Agreement(p, q)

ControlInv == ControlTypeOK /\ InStep

-----------------------------------------------------------------------------
(***************************************************************************)
(* The data: what is in the tables, in the queue and on the way.           *)
(***************************************************************************)
Message == {m \in [size : Nat, payload_size : Payload] : m.payload_size <= m.size}
Request == [src : Addr, dst : Addr]
Deliveries == [put : Seq([dst : Addr, val : Val]), push : Seq(Addr), send : Seq(Message),
               pop : Seq(Addr), tag : Seq(Nat)]
BlockBody(kind) ==
  CASE kind = "info" -> BOOLEAN [] kind = "req" -> Seq(Request) [] kind = "deliv" -> Deliveries

(* The blocks on their way from p to q, in any order. *)
InTransit(p, q) == {chan[p][q][i] : i \in DOMAIN chan[p][q]}

(* The columns of a register are of one length. *)
Registers == {r \in [Proc -> Seq(Addr)] : \A q \in Proc : Len(r[q]) = Len(r[0])}

(* The counters of the queue: the messages, and at least their bytes.      *)
Messages(columns) == SumOver(columns, LAMBDA m : 1)
Bytes(columns) == SumOver(columns, LAMBDA m : m.size)
Queue ==
  {m \in [recv_tag_size : Nat, send_tag_size : Nat, n_mesg : Nat, accum_size : Nat,
          pending : [Proc -> Seq(Message)]] :
     m.n_mesg = Messages(m.pending) /\ m.accum_size >= Bytes(m.pending)}

Types ==
  /\ program \in Programs
  /\ step \in [Proc -> 0 .. Len(program.coll)] /\ done \in [Proc -> Nat]
  /\ calls \in 0 .. program.most
  /\ mem \in [Proc -> [Addr -> Val]]
  /\ reg \in [Proc -> Registers]
  /\ mq \in [Proc -> Queue]
  /\ reqTab \in [Proc -> [Proc -> Seq(Request)]]
  /\ delTab \in [Proc -> [Proc -> Deliveries]]
  /\ \A p, q \in Proc : \A b \in InTransit(p, q) : b.body \in BlockBody(b.kind)
  /\ aborted \in BOOLEAN

(***************************************************************************)
(* The collective calls of a superstep.  Args(list, op, p)[k]: what p      *)
(* passes in those of the first k calls that are op.                       *)
(***************************************************************************)
Args(list, op, p) ==
  LET args[k \in 0 .. Len(list)] ==
        IF k = 0 THEN <<>>
        ELSE IF list[k].op = op THEN Append(args[k-1], list[k].at[p]) ELSE args[k-1]
  IN  args
AllArgs(list, op, p) == Args(list, op, p)[Len(list)]

(* What p has passed in this superstep so far. *)
Passed(p, op) ==
  IF step[p] < Len(program.coll) THEN Args(Collectives(p), op, p)[done[p]] ELSE <<>>

(* A process makes the calls of the program one after the other, and its   *)
(* tables hold what it passed; a process in bspx_sync has made them all    *)
(* and emptied its queue.                                                  *)
KeepsUp(p) ==
  /\ step[p] < Len(program.coll) => done[p] \in 0 .. Len(Collectives(p))
  /\ pc[p] # "compute" => /\ step[p] < Len(program.coll) /\ done[p] = Len(Collectives(p))
                          /\ mq[p].n_mesg = 0
  /\ \A q \in Proc : delTab[p][q].push = Passed(p, "push")
  /\ delTab[p][p].pop = Passed(p, "pop") /\ delTab[p][p].tag = Passed(p, "tag")

(* So do the deliveries on their way from p to q. *)
Delivers(p, q, column) ==
  /\ column.push = AllArgs(Collectives(q), "push", p)
  /\ p = q => /\ column.pop = AllArgs(Collectives(q), "pop", p)
              /\ column.tag = AllArgs(Collectives(q), "tag", p)
OnTheWay(p, q) ==
  \A b \in InTransit(p, q) : b.kind = "deliv" => Delivers(p, q, b.body)

DataInv ==
  /\ Types
  /\ \A p \in Proc : KeepsUp(p)
  /\ \A p, q \in Proc : OnTheWay(p, q)

-----------------------------------------------------------------------------
(***************************************************************************)
(* Why the registers and the tag sizes of all processes agree when the     *)
(* program is legal: each of them follows the program on its own, from     *)
(* what it is sent by the others.                                          *)
(***************************************************************************)
(* The tag size and the register after a superstep with these calls, and   *)
(* after the first s supersteps of a program.                              *)
TagAfter(size, list) ==
  LET sizes == AllArgs(list, "tag", 0) IN IF sizes = <<>> THEN size ELSE sizes[Len(sizes)]
Pushed(rows, list) == PushRows(rows, [p \in Proc |-> AllArgs(list, "push", p)])
RowsAfter(rows, list) ==
  Pack(Pushed(rows, list), PoppedRows(Pushed(rows, list)[0], AllArgs(list, "pop", 0)))

Tags(prog) ==
  LET tag[s \in 0 .. Len(prog.coll)] ==
        IF s = 0 THEN 0 ELSE TagAfter(tag[s-1], prog.coll[s])
  IN  tag
Rows(prog) ==
  LET rows[s \in 0 .. Len(prog.coll)] ==
        IF s = 0 THEN [q \in Proc |-> <<>>] ELSE RowsAfter(rows[s-1], prog.coll[s])
  IN  rows

(* All processes pass the same tag sizes, and each pop means the same row  *)
(* of the register in all of them.                                         *)
Legal(prog) ==
  \A s \in DOMAIN prog.coll :
    LET list   == prog.coll[s]
        pushed == Pushed(Rows(prog)[s-1], list)
    IN  \A p \in Proc : /\ AllArgs(list, "tag", p) = AllArgs(list, "tag", 0)
                        /\ PoppedRows(pushed[p], AllArgs(list, "pop", p))
                             = PoppedRows(pushed[0], AllArgs(list, "pop", 0))

LegalPrograms == \A prog \in Programs : Legal(prog)

(* What bsp_pop_reg asks of its callers beyond that: not only all pops of  *)
(* a superstep together, but each one means the same row in all processes. *)
PopsAgree(prog) ==
  \A s \in DOMAIN prog.coll :
    LET list   == prog.coll[s]
        pushed == Pushed(Rows(prog)[s-1], list)
        Popped(p, k) == PoppedRows(pushed[p], SubSeq(AllArgs(list, "pop", p), 1, k))
    IN  \A p \in Proc, k \in 0 .. Len(AllArgs(list, "pop", 0)) : Popped(p, k) = Popped(0, k)
AgreedPops == \A prog \in Programs : PopsAgree(prog)

WithTag(messages, size) ==
  \A i \in DOMAIN messages : messages[i].size = messages[i].payload_size + size

(* A process is where its supersteps have brought it; what it sends        *)
(* carries tags of the size of its superstep, what it reads those of the   *)
(* superstep before.                                                       *)
Accords(p) ==
  /\ reg[p] = Rows(program)[step[p]]
  /\ mq[p].send_tag_size = Tags(program)[step[p]]
  /\ pc[p] # "compute" => mq[p].recv_tag_size = mq[p].send_tag_size
  /\ \A q \in Proc : /\ WithTag(mq[p].pending[q], mq[p].recv_tag_size)
                     /\ WithTag(delTab[p][q].send, mq[p].send_tag_size)

(* What is on its way to q was sent in the superstep q is in. *)
TagsOnTheWay(p, q) ==
  \A b \in InTransit(p, q) : b.kind = "deliv" => WithTag(b.body.send, Tags(program)[step[q]])

Accord == (\A p \in Proc : Accords(p)) /\ (\A p, q \in Proc : TagsOnTheWay(p, q))

=============================================================================
