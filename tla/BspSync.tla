------------------------------- MODULE BspSync -------------------------------
(***************************************************************************)
(* N processes running a BSP program on the level-0 library of BSPonMPI    *)
(* (bspx.c and the tables it uses): the calls of a superstep, which only   *)
(* fill tables, and bspx_sync, which exchanges the tables by collective    *)
(* operations of MPI and executes what was received.                       *)
(*                                                                         *)
(* The processes share nothing.  A bspx_sync is a sequence of two or three *)
(* collectives (table sizes; get requests, if any process issued a get;    *)
(* deliveries), with local work in between that touches only the state of  *)
(* its own process, so a step of this module is the work from leaving one  *)
(* collective to entering the next.                                        *)
(*                                                                         *)
(* The tables are given as queues, one per column and type of action: how  *)
(* the code lays them out in slots is the subject of DelivTable, and how   *)
(* the tables of the receiver are sized that of RecvTables.  Memory is a   *)
(* function from addresses to values; a put or a get moves one value.      *)
(***************************************************************************)
EXTENDS MemReg, MessageQueue

CONSTANTS
  N,          \* number of processes
  Addr,       \* addresses of the memory of a process
  Val,        \* values of a memory location
  InitMem,    \* the memory of every process at the start
  Payload,    \* payloads of messages, each identified by its size in bytes
  Programs    \* the programs that may run, see below

Proc == 0 .. N-1

ASSUME NAssumption == N \in Nat \ {0}
ASSUME InitMemAssumption == InitMem \in [Proc -> [Addr -> Val]]
ASSUME PayloadAssumption == Payload \subseteq Nat

(***************************************************************************)
(* A program is what its processes may do.  bsp_push_reg, bsp_pop_reg and  *)
(* bsp_set_tagsize must be called by all processes, in the same superstep  *)
(* and the same order: coll lists these calls for each superstep, with an  *)
(* argument for every process, and so bounds the supersteps of a run.  Of  *)
(* the calls in "may" any process makes any, at any time; "most" bounds    *)
(* their number in a run.                                                  *)
(***************************************************************************)
Collective == [op : {"push", "pop"}, at : [Proc -> Addr]]
              \union [op : {"tag"}, at : [Proc -> Nat]]
Call == {"put", "get", "send", "write", "move", "hpmove", "reset"}
ASSUME ProgramsAssumption ==
  Programs \subseteq [coll : Seq(Seq(Collective)), may : SUBSET Call, most : Nat]

VARIABLES
  pc,       \* "compute", or the collective of bspx_sync the process is in
  step,     \* supersteps completed by each process
  program,  \* the program of this run
  done,     \* collective calls made in this superstep
  calls,    \* other calls made so far, for the bound "most"
  mem,      \* the memory of each process
  reg,      \* memory_register
  mq,       \* message_queue
  reqTab,   \* request_table, per destination
  delTab,   \* delivery_table, per destination and type
  anyGets,  \* any_gets of bspx_sync
  chan,     \* chan[p][q]: what p gave to collectives and q has not yet taken
  aborted   \* bsp_abort was called: all processes are gone

vars == <<pc, step, program, done, calls, mem, reg, mq, reqTab, delTab, anyGets, chan, aborted>>

EmptyColumn == [put |-> <<>>, push |-> <<>>, send |-> <<>>, pop |-> <<>>, tag |-> <<>>]
EmptyRequests == [q \in Proc |-> <<>>]
EmptyDeliveries == [q \in Proc |-> EmptyColumn]

(* bspx_init_bspobject *)
Init ==
  /\ pc = [p \in Proc |-> "compute"]
  /\ step = [p \in Proc |-> 0]
  /\ program \in Programs
  /\ done = [p \in Proc |-> 0]
  /\ calls = 0
  /\ mem = InitMem
  /\ reg = [p \in Proc |-> [q \in Proc |-> <<>>]]
  /\ mq = [p \in Proc |-> EmptyQueue(Proc)]
  /\ reqTab = [p \in Proc |-> EmptyRequests]
  /\ delTab = [p \in Proc |-> EmptyDeliveries]
  /\ anyGets = [p \in Proc |-> FALSE]
  /\ chan = [p \in Proc |-> [q \in Proc |-> <<>>]]
  /\ aborted = FALSE

-----------------------------------------------------------------------------
(***************************************************************************)
(* The calls of a superstep.                                               *)
(***************************************************************************)
Computing(p) == pc[p] = "compute" /\ step[p] < Len(program.coll) /\ ~aborted

MayCall(p, call) ==
  /\ Computing(p)
  /\ call \in program.may /\ calls < program.most
  /\ calls' = calls + 1

(* The address p passes to a put or a get is in the register of p. *)
Registered(p, a) == HasLiveRow(reg[p][p], {}, a)

(* bspx_put and bspx_hpput: the value is copied when the call is made. *)
Put(p, q, src, dst) ==
  /\ MayCall(p, "put") /\ Registered(p, dst)
  /\ delTab' = [delTab EXCEPT ![p][q].put =
       Append(@, [dst |-> Counterpart(reg[p], p, q, dst), val |-> mem[p][src]])]
  /\ UNCHANGED <<pc, step, program, done, mem, reg, mq, reqTab, anyGets, chan, aborted>>

(* bspx_get and bspx_hpget *)
Get(p, q, src, dst) ==
  /\ MayCall(p, "get") /\ Registered(p, src)
  /\ reqTab' = [reqTab EXCEPT ![p][q] =
       Append(@, [src |-> Counterpart(reg[p], p, q, src), dst |-> dst])]
  /\ UNCHANGED <<pc, step, program, done, mem, reg, mq, delTab, anyGets, chan, aborted>>

(* bspx_send: a message carries a tag of the size in use at its sender. *)
Send(p, q, m) ==
  /\ MayCall(p, "send")
  /\ delTab' = [delTab EXCEPT ![p][q].send =
       Append(@, [size |-> m + mq[p].send_tag_size, payload_size |-> m])]
  /\ UNCHANGED <<pc, step, program, done, mem, reg, mq, reqTab, anyGets, chan, aborted>>

(* The program changes its own memory. *)
Write(p, a, v) ==
  /\ MayCall(p, "write")
  /\ mem' = [mem EXCEPT ![p][a] = v]
  /\ UNCHANGED <<pc, step, program, done, reg, mq, reqTab, delTab, anyGets, chan, aborted>>

(* bspx_move reads the head pointer whether or not there is a message: the *)
(* program has to have asked bspx_qsize or bspx_get_tag first.             *)
Move(p) ==
  /\ MayCall(p, "move") /\ mq[p].n_mesg > 0
  /\ mq' = [mq EXCEPT ![p] = AfterMove(@)]
  /\ UNCHANGED <<pc, step, program, done, mem, reg, reqTab, delTab, anyGets, chan, aborted>>

(* bspx_hpmove returns -1 and changes nothing when the queue is empty. *)
HpMove(p) ==
  /\ MayCall(p, "hpmove") /\ mq[p].n_mesg # 0
  /\ mq' = [mq EXCEPT ![p] = AfterHpMove(@)]
  /\ UNCHANGED <<pc, step, program, done, mem, reg, reqTab, delTab, anyGets, chan, aborted>>

(* bspx_resetbuffers, called as documented when a sync has just emptied    *)
(* the tables; the queued messages are deleted.                            *)
ResetBuffers(p) ==
  /\ MayCall(p, "reset")
  /\ reqTab[p] = EmptyRequests /\ delTab[p] = EmptyDeliveries
  /\ mq' = [mq EXCEPT ![p] = QueueSync(@)]
  /\ UNCHANGED <<pc, step, program, done, mem, reg, reqTab, delTab, anyGets, chan, aborted>>

(* The next collective call. *)
Collectives(p) == program.coll[step[p] + 1]
NextCollective(p) == Collectives(p)[done[p] + 1]
MustCall(p, op) ==
  /\ Computing(p)
  /\ done[p] < Len(Collectives(p)) /\ NextCollective(p).op = op
  /\ done' = [done EXCEPT ![p] = @ + 1]

(* bspx_push_reg tells every process. *)
PushReg(p) ==
  /\ MustCall(p, "push")
  /\ delTab' = [delTab EXCEPT ![p] =
       [q \in Proc |-> [delTab[p][q] EXCEPT !.push = Append(@, NextCollective(p).at[p])]]]
  /\ UNCHANGED <<pc, step, program, calls, mem, reg, mq, reqTab, anyGets, chan, aborted>>

(* bspx_pop_reg and bspx_set_tagsize only leave a note to the process      *)
(* itself.                                                                 *)
PopReg(p) ==
  /\ MustCall(p, "pop")
  /\ delTab' = [delTab EXCEPT ![p][p].pop = Append(@, NextCollective(p).at[p])]
  /\ UNCHANGED <<pc, step, program, calls, mem, reg, mq, reqTab, anyGets, chan, aborted>>

SetTagsize(p) ==
  /\ MustCall(p, "tag")
  /\ delTab' = [delTab EXCEPT ![p][p].tag = Append(@, NextCollective(p).at[p])]
  /\ UNCHANGED <<pc, step, program, calls, mem, reg, mq, reqTab, anyGets, chan, aborted>>

-----------------------------------------------------------------------------
(***************************************************************************)
(* The collectives of MPI.  To enter one, p gives a block to every process *)
(* (itself included); it leaves when a block of every process is there.    *)
(* MPI matches collectives by the order in which they are called and by    *)
(* nothing else, so a block only carries its kind for the properties.      *)
(***************************************************************************)
Block(kind, body) == [kind |-> kind, body |-> body]

CanLeave(p) == \A q \in Proc : chan[q][p] # <<>>
Received(p, q) == Head(chan[q][p]).body

EnterOthers(p, blocks) ==             \* mutant: no block for the process itself
  chan' = [chan EXCEPT ![p] = [q \in Proc |-> IF q = p THEN @[q] ELSE Append(@[q], blocks[q])]]
Enter(p, blocks) ==
  chan' = [chan EXCEPT ![p] = [q \in Proc |-> Append(@[q], blocks[q])]]

LeaveAndEnter(p, blocks) ==
  chan' = [q \in Proc |-> [r \in Proc |->
             LET rest == IF r = p THEN Tail(chan[q][r]) ELSE chan[q][r]
             IN  IF q = p THEN Append(rest, blocks[r]) ELSE rest]]

Leave(p) ==
  chan' = [q \in Proc |-> [chan[q] EXCEPT ![p] = Tail(@)]]

(***************************************************************************)
(* bspx_sync.                                                              *)
(***************************************************************************)
IssuedGets(p) == \E q \in Proc : reqTab[p][q] # <<>>

(* From the call to the exchange of the table sizes. *)
EnterSync(p) ==
  /\ Computing(p)
  /\ done[p] = Len(Collectives(p))
  /\ mq' = [mq EXCEPT ![p] = QueueSync(@)]
  /\ anyGets' = [anyGets EXCEPT ![p] = IssuedGets(p)]
  /\ Enter(p, [q \in Proc |-> Block("info", anyGets'[p])])
  /\ pc' = [pc EXCEPT ![p] = "info"]
  /\ UNCHANGED <<step, program, done, calls, mem, reg, reqTab, delTab, aborted>>

(* Some process issued a get. *)
AnyGetsOwn(p) == IssuedGets(p)        \* mutant: the received flags are ignored
AnyGets(p) == \E q \in Proc : Received(p, q)

(* mutant: a process that has nothing to exchange returns at once *)
LeaveInfoQuiet(p) ==
  /\ pc[p] = "info" /\ CanLeave(p) /\ ~aborted /\ ~AnyGets(p)
  /\ IF delTab[p] = EmptyDeliveries
       THEN /\ Leave(p)
            /\ pc' = [pc EXCEPT ![p] = "compute"]
            /\ step' = [step EXCEPT ![p] = @ + 1]
            /\ done' = [done EXCEPT ![p] = 0]
       ELSE /\ LeaveAndEnter(p, [q \in Proc |-> Block("deliv", delTab[p][q])])
            /\ pc' = [pc EXCEPT ![p] = "deliv"]
            /\ UNCHANGED <<step, done>>
  /\ UNCHANGED <<program, calls, mem, reg, mq, reqTab, delTab, anyGets, aborted>>

(* The sizes are known: on to the requests, or straight to the deliveries. *)
LeaveInfo(p) ==
  /\ pc[p] = "info" /\ CanLeave(p) /\ ~aborted
  /\ anyGets' = [anyGets EXCEPT ![p] = AnyGets(p)]
  /\ \/ /\ anyGets'[p]
        /\ LeaveAndEnter(p, [q \in Proc |-> Block("req", reqTab[p][q])])
        /\ pc' = [pc EXCEPT ![p] = "req"]
     \/ /\ ~anyGets'[p]
        /\ LeaveAndEnter(p, [q \in Proc |-> Block("deliv", delTab[p][q])])
        /\ pc' = [pc EXCEPT ![p] = "deliv"]
  /\ UNCHANGED <<step, program, done, calls, mem, reg, mq, reqTab, delTab, aborted>>

(* requestTable_execute answers a request with a put in the delivery table *)
(* of this process, behind the puts of the program.                        *)
ReplyAddress(p, r) == [dst |-> r.dst, val |-> r.src]     \* mutant: not dereferenced
Reply(p, r) == [dst |-> r.dst, val |-> mem[p][r.src]]
AnsweredFirst(p) ==                   \* mutant: the answers go before the puts
  [q \in Proc |-> [delTab[p][q] EXCEPT !.put =
     [i \in DOMAIN Received(p, q) |-> Reply(p, Received(p, q)[i])] \o @]]
Answered(p) ==
  [q \in Proc |-> [delTab[p][q] EXCEPT !.put =
     @ \o [i \in DOMAIN Received(p, q) |-> Reply(p, Received(p, q)[i])]]]

LeaveReq(p) ==
  /\ pc[p] = "req" /\ CanLeave(p) /\ ~aborted
  /\ delTab' = [delTab EXCEPT ![p] = Answered(p)]
  /\ LeaveAndEnter(p, [q \in Proc |-> Block("deliv", delTab'[p][q])])
  /\ pc' = [pc EXCEPT ![p] = "deliv"]
  /\ UNCHANGED <<step, program, done, calls, mem, reg, mq, reqTab, anyGets, aborted>>

(***************************************************************************)
(* deliveryTable_execute writes column by column, and a column in order,   *)
(* so that the last write to an address is the one that stays.             *)
(***************************************************************************)
WritesTo(a, columns) ==
  {w \in {<<q, i>> : q \in Proc, i \in UNION {DOMAIN columns[q].put : q \in Proc}} :
     w[2] \in DOMAIN columns[w[1]].put /\ columns[w[1]].put[w[2]].dst = a}
Later(w, v) == w[1] > v[1] \/ (w[1] = v[1] /\ w[2] >= v[2])
AfterPuts(m, columns) ==
  [a \in Addr |->
     IF WritesTo(a, columns) = {} THEN m[a]
     ELSE LET w == CHOOSE w \in WritesTo(a, columns) :
                     \A v \in WritesTo(a, columns) : Later(w, v)
          IN  columns[w[1]].put[w[2]].val]

(* The deliveries have arrived: execute them and return to the program, or *)
(* abort when there is nothing to pop.                                     *)
LeaveDeliv(p) ==
  LET columns == [q \in Proc |-> Received(p, q)]
      pushed  == PushRows(reg[p], [q \in Proc |-> columns[q].push])
      removed == PoppedRows(pushed[p], columns[p].pop)
  IN
  /\ pc[p] = "deliv" /\ CanLeave(p) /\ ~aborted
  /\ \/ /\ 0 \notin removed
        /\ mem' = [mem EXCEPT ![p] = AfterPuts(@, columns)]
        /\ reg' = [reg EXCEPT ![p] = Pack(pushed, removed)]
        /\ mq' = [mq EXCEPT ![p] =
             SetTags(Gather(@, [q \in Proc |-> columns[q].send]), columns[p].tag)]
        /\ reqTab' = [reqTab EXCEPT ![p] = EmptyRequests]
        /\ delTab' = [delTab EXCEPT ![p] = EmptyDeliveries]
        /\ Leave(p)
        /\ pc' = [pc EXCEPT ![p] = "compute"]
        /\ step' = [step EXCEPT ![p] = @ + 1]
        /\ done' = [done EXCEPT ![p] = 0]
        /\ UNCHANGED <<program, calls, anyGets, aborted>>
     \/ /\ 0 \in removed
        /\ aborted' = TRUE
        /\ UNCHANGED <<pc, step, program, done, calls, mem, reg, mq, reqTab, delTab, anyGets, chan>>

(* The program is over, by its end or by an abort. *)
Over ==
  /\ aborted \/ \A p \in Proc : step[p] = Len(program.coll)
  /\ UNCHANGED vars

InSync(p) == LeaveInfo(p) \/ LeaveReq(p) \/ LeaveDeliv(p)

Next ==
  \/ \E p \in Proc, q \in Proc, a \in Addr, b \in Addr : Put(p, q, a, b) \/ Get(p, q, a, b)
  \/ \E p \in Proc, q \in Proc, m \in Payload : Send(p, q, m)
  \/ \E p \in Proc, a \in Addr, v \in Val : Write(p, a, v)
  \/ \E p \in Proc : Move(p) \/ HpMove(p) \/ ResetBuffers(p)
  \/ \E p \in Proc : PushReg(p) \/ PopReg(p) \/ SetTagsize(p)
  \/ \E p \in Proc : EnterSync(p) \/ InSync(p)
  \/ Over

Spec == Init /\ [][Next]_vars

(* A process inside bspx_sync goes on as soon as MPI lets it: MPI          *)
(* completes a collective that every process has entered.  Nothing makes   *)
(* the program call bspx_sync.                                             *)
FairSpec == Spec /\ \A p \in Proc : WF_vars(InSync(p))

-----------------------------------------------------------------------------
(***************************************************************************)
(* Properties.                                                             *)
(***************************************************************************)
Kinds == {"info", "req", "deliv"}
Column == [put : Seq([dst : Addr, val : Val]), push : Seq(Addr),
           send : Seq([size : Nat, payload_size : Payload]), pop : Seq(Addr), tag : Seq(Nat)]

(* Type correctness of the whole state. *)
TypeOK ==
  /\ pc \in [Proc -> Kinds \union {"compute"}]
  /\ step \in [Proc -> 0 .. Len(program.coll)]
  /\ program \in Programs
  /\ done \in [Proc -> Nat]
  /\ calls \in 0 .. program.most
  /\ mem \in [Proc -> [Addr -> Val]]
  /\ reg \in [Proc -> [Proc -> Seq(Addr)]]
  /\ mq \in [Proc -> [recv_tag_size : Nat, send_tag_size : Nat, n_mesg : Nat, accum_size : Nat,
                      pending : [Proc -> Seq([size : Nat, payload_size : Payload])]]]
  /\ reqTab \in [Proc -> [Proc -> Seq([src : Addr, dst : Addr])]]
  /\ delTab \in [Proc -> [Proc -> Column]]
  /\ anyGets \in [Proc -> BOOLEAN]
  /\ \A p, q \in Proc : \A i \in DOMAIN chan[p][q] : chan[p][q][i].kind \in Kinds
  /\ aborted \in BOOLEAN

(* Whatever collective a process waits in, the next block it takes from    *)
(* each process was given to that same collective: all processes decide    *)
(* alike, from different local flags, whether the exchange of requests     *)
(* takes place (the any_gets of bspx_sync).                                *)
CollectivesMatch ==
  \A p, q \in Proc :
    pc[p] # "compute" /\ chan[q][p] # <<>> => Head(chan[q][p]).kind = pc[p]

(* bspx_sync is a barrier: a process returns to the program only when      *)
(* every other one is at least in the exchange of deliveries of the same   *)
(* superstep.                                                              *)
Barrier ==
  [][\A p, q \in Proc : step'[p] > step[p] => step[q] > step[p]
                                              \/ (step[q] = step[p] /\ pc[q] = "deliv")]_vars

(* Processes that completed the same supersteps hold the same register,    *)
(* row by row and column by column, though each found the rows to pop by   *)
(* itself in its own column: an address resolved by one process means the  *)
(* registration the other process made in the same collective call.        *)
RegistersAgree == \A p, q \in Proc : step[p] = step[q] => reg[p] = reg[q]

(* The receiver splits every queued message into tag and payload where its *)
(* sender put the border (recv_tag_size is what the sender used), although *)
(* set_tagsize takes effect at different moments in different processes.   *)
TagsAgree ==
  \A p, q \in Proc : \A i \in DOMAIN mq[p].pending[q] :
    LET m == mq[p].pending[q][i]
    IN  m.size = m.payload_size + mq[p].recv_tag_size

(* Once every process has called bspx_sync, every process returns from it  *)
(* (or the program is aborted): no exchange waits for a block that never   *)
(* comes.                                                                  *)
Released(p) ==
  \A q \in Proc : step[q] > step[p] \/ (step[q] = step[p] /\ pc[q] # "compute")
SyncCompletes ==
  \A p \in Proc : (pc[p] # "compute" /\ Released(p)) ~> (pc[p] = "compute" \/ aborted)

=============================================================================
