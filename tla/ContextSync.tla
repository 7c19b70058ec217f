----------------------------- MODULE ContextSync -----------------------------
(***************************************************************************)
(* A C++ computation (bsp_contextimpl.cpp and what it uses): "processors"  *)
(* logical processors, each with a context, on "nprocs" nodes.  The        *)
(* contexts of a node run as tasks of one process and share its tables.    *)
(* What stays on the node goes through queues of the contexts; the rest    *)
(* goes through the tables of the level-0 library to another node.         *)
(*                                                                         *)
(* When the tasks of a node have returned, the node calls bsp_sync: it     *)
(* carries out the local deliveries context by context, and then takes     *)
(* part in one to four collectives: flags and sizes; registrations, if     *)
(* there are any; requests, if any node has some; deliveries, if any node  *)
(* has some, or requests.  As in BspSync a step is the work from leaving   *)
(* one collective to entering the next, and the calls of the tasks are     *)
(* atomic: those that touch shared tables hold the lock TSLOCK.            *)
(*                                                                         *)
(* A location is a pair of a processor and an address: the contexts of a   *)
(* node can reach each other's locations directly.  Tag sizes are those of *)
(* the node and treated as in BspSync.  All registered areas are of one    *)
(* size.                                                                   *)
(***************************************************************************)
EXTENDS Placement, Sequences, FiniteSets, SequencesExt

CONSTANTS
  processors, nprocs,
  Addr, Val, InitMem, Payload,
  NewVal,      \* the values that programs write
  Programs     \* the programs that may run, see below

Global == 0 .. processors-1
Node == 0 .. nprocs-1

ASSUME CountsAssumption == processors \in Nat /\ nprocs \in Nat \ {0}
ASSUME MemAssumption == InitMem \in [Global -> [Addr -> Val]] /\ NewVal \subseteq Val

Home(p) == NodeOf(processors, nprocs, p)      \* global_to_node
Local(p) == LocalOf(processors, nprocs, p)    \* global_to_local
On(n) == {p \in Global : Home(p) = n}
Context(n, lp) == CHOOSE p \in On(n) : Local(p) = lp                        \* get_context
Contexts(n) == [i \in 1 .. Cardinality(On(n)) |-> Context(n, i - 1)]

(***************************************************************************)
(* A program: coll[s+1][p] is the sequence of registrations p makes in     *)
(* superstep s, records [op, addr]; "may" the other calls that any task    *)
(* may make at any time, "to" the processors they may name, "most" how     *)
(* many there are in all.                                                  *)
(***************************************************************************)
Registration == [op : {"push", "pop"}, addr : Addr]
ASSUME ProgramsAssumption ==
  Programs \subseteq [coll : Seq([Global -> Seq(Registration)]), may : SUBSET STRING,
                      to : SUBSET Global, most : Nat]

VARIABLES
  pc,        \* "compute" or the collective the node is in
  step,      \* supersteps the node has completed
  program, calls,
  done,      \* registrations a processor has made in this superstep
  mem,
  reg,       \* memory_register: rows [at, serial], packed
  requests,  \* reg_requests of each context
  local,     \* localDeliveries of each context
  reqTab,    \* request_table of each node: per node, requests
  delTab,    \* delivery_table of each node: per node, puts and messages
  exch,      \* what the node found the flags of all nodes to say
  chan,      \* blocks of the collectives, from node to node
  aborted

table == <<reqTab, delTab>>
vars == <<pc, step, program, calls, done, mem, reg, requests, local, table, exch, chan, aborted>>

EmptyLocal == [hpputs |-> <<>>, puts |-> <<>>, send |-> <<>>, move |-> <<>>]
EmptyRequests == [m \in Node |-> <<>>]
EmptyDeliveries == [m \in Node |-> [put |-> <<>>, send |-> <<>>]]

Init ==
  /\ pc = [n \in Node |-> "compute"] /\ step = [n \in Node |-> 0]
  /\ program \in Programs /\ calls = 0
  /\ done = [p \in Global |-> 0]
  /\ mem = InitMem
  /\ reg = [p \in Global |-> <<>>]
  /\ requests = [p \in Global |-> <<>>]
  /\ local = [p \in Global |-> EmptyLocal]
  /\ reqTab = [n \in Node |-> EmptyRequests]
  /\ delTab = [n \in Node |-> EmptyDeliveries]
  /\ exch = [n \in Node |-> [gets |-> FALSE, msgs |-> FALSE]]
  /\ chan = [n \in Node |-> [m \in Node |-> <<>>]]
  /\ aborted = FALSE

-----------------------------------------------------------------------------
(***************************************************************************)
(* The calls of the tasks.                                                 *)
(***************************************************************************)
Computing(n) == pc[n] = "compute" /\ step[n] < Len(program.coll) /\ ~aborted

MayCall(p, call) ==
  /\ Computing(Home(p))
  /\ call \in program.may /\ calls < program.most
  /\ calls' = calls + 1
MayCallFor(p, q, call) == MayCall(p, call) /\ q \in program.to

(* The row of a register in which processor p has address a: the newest,   *)
(* as memoryRegister_find takes it.                                        *)
HasRow(rows, p, a) == \E i \in DOMAIN rows : rows[i].at[p] = a
Row(rows, p, a) ==
  CHOOSE i \in DOMAIN rows :
    rows[i].at[p] = a /\ \A j \in DOMAIN rows : rows[j].at[p] = a => j <= i

(* The location on q that p means by its own address a. *)
FindUntranslated(p, q, a) == <<q, a>>            \* mutant: its own address is used
Find(p, q, a) == <<q, reg[p][Row(reg[p], p, a)].at[q]>>

At(m, l) == m[l[1]][l[2]]
Stored(m, l, v) == [m EXCEPT ![l[1]][l[2]] = v]

Enqueue(l) ==
  /\ local' = l
  /\ UNCHANGED <<pc, step, program, done, mem, reg, requests, table, exch, chan, aborted>>
Tabulate(del, req) ==
  /\ delTab' = del /\ reqTab' = req
  /\ UNCHANGED <<pc, step, program, done, mem, reg, requests, local, exch, chan, aborted>>
Store(m) ==
  /\ mem' = m
  /\ UNCHANGED <<pc, step, program, done, reg, requests, local, table, exch, chan, aborted>>

(* bsp_put and bsp_hpput to another node *)
RemotePut(p, q, src, dst) ==
  Tabulate([delTab EXCEPT ![Home(p)][Home(q)].put =
                   Append(@, [dst |-> Find(p, q, dst), val |-> mem[p][src]])], reqTab)

(* bsp_get and bsp_hpget from another node *)
RemoteGet(p, q, src, dst) ==
  Tabulate(delTab, [reqTab EXCEPT ![Home(p)][Home(q)] =
                           Append(@, [src |-> Find(p, q, src), dst |-> <<p, dst>>])])

Put(p, q, src, dst) ==
  /\ MayCallFor(p, q, "put") /\ HasRow(reg[p], p, dst)
  /\ \/ /\ Home(q) = Home(p)
        /\ Enqueue([local EXCEPT ![p].puts =
                            Append(@, [dst |-> Find(p, q, dst), val |-> mem[p][src]])])
     \/ /\ Home(q) # Home(p)
        /\ RemotePut(p, q, src, dst)

(* A local get is an unbuffered put by the one who gets. *)
Get(p, q, src, dst) ==
  /\ MayCallFor(p, q, "get") /\ HasRow(reg[p], p, src)
  /\ \/ /\ Home(q) = Home(p)
        /\ Enqueue([local EXCEPT ![p].hpputs =
                            Append(@, [src |-> Find(p, q, src), dst |-> <<p, dst>>])])
     \/ /\ Home(q) # Home(p)
        /\ RemoteGet(p, q, src, dst)

(* On the same node the two high-performance calls copy at once. *)
HpPut(p, q, src, dst) ==
  /\ MayCallFor(p, q, "hpput") /\ HasRow(reg[p], p, dst)
  /\ \/ /\ Home(q) = Home(p)
        /\ Store(Stored(mem, Find(p, q, dst), mem[p][src]))
     \/ /\ Home(q) # Home(p)
        /\ RemotePut(p, q, src, dst)

HpGet(p, q, src, dst) ==
  /\ MayCallFor(p, q, "hpget") /\ HasRow(reg[p], p, src)
  /\ \/ /\ Home(q) = Home(p)
        /\ Store(Stored(mem, <<p, dst>>, At(mem, Find(p, q, src))))
     \/ /\ Home(q) # Home(p)
        /\ RemoteGet(p, q, src, dst)

Write(p, a, v) ==
  /\ MayCall(p, "write")
  /\ Store(Stored(mem, <<p, a>>, v))

(* A message to the same node goes into the queue of its receiver; a       *)
(* message to another node, into a column of the table, with the local     *)
(* number of its receiver in front.                                        *)
Message(p, body) == [from |-> p, body |-> body]
SendLocal(p, q, body) ==
  /\ Home(q) = Home(p)
  /\ Enqueue([local EXCEPT ![q].send = Append(@, Message(p, body))])
SendRemote(p, q, column, body) ==
  /\ Home(q) # Home(p)
  /\ Tabulate([delTab EXCEPT ![Home(p)][column].send =
                      Append(@, [lp |-> Local(q), message |-> Message(p, body)])], reqTab)

Send(p, q, body) ==
  /\ MayCallFor(p, q, "send")
  /\ SendLocal(p, q, body) \/ SendRemote(p, q, Home(q), body)

(* bsp_hpsend takes the column of the logical processor for that of its    *)
(* node.  Without such a column it writes outside the table, and on a node *)
(* without such a context the assertion about lp fails: not modelled.      *)
HpSend(p, q, body) ==
  /\ MayCallFor(p, q, "hpsend")
  /\ \/ SendLocal(p, q, body)
     \/ /\ q \in Node /\ Local(q) \in {Local(r) : r \in On(q)}
        /\ SendRemote(p, q, q, body)

(* bsp_move and bsp_hpmove *)
Move(p) ==
  /\ MayCall(p, "move") /\ local[p].move # <<>>
  /\ Enqueue([local EXCEPT ![p].move = Tail(@)])

(* The next registration of p.  bsp_push_reg asserts that the address is   *)
(* not registered; bsp_pop_reg throws when it is not.                      *)
MustCall(p, op) ==
  /\ Computing(Home(p))
  /\ done[p] < Len(program.coll[step[Home(p)] + 1][p])
  /\ program.coll[step[Home(p)] + 1][p][done[p] + 1].op = op
NextAddr(p) == program.coll[step[Home(p)] + 1][p][done[p] + 1].addr

Request(p, request) ==
  /\ done' = [done EXCEPT ![p] = @ + 1]
  /\ requests' = [requests EXCEPT ![p] = Append(@, request)]
  /\ UNCHANGED <<pc, step, program, calls, mem, reg, local, table, exch, chan, aborted>>

(* An exception ends the program; what the code has done of the step until *)
(* then is not followed.                                                   *)
Abort ==
  /\ aborted' = TRUE
  /\ UNCHANGED <<pc, step, program, calls, done, mem, reg, requests, local, table, exch, chan>>

LastSerial(p) == Len(reg[p]) + Len(requests[p]) - 1   \* mutant: that of the last one
NewSerial(p) == Len(reg[p]) + Len(requests[p])
PushReg(p) ==
  /\ MustCall(p, "push") /\ ~HasRow(reg[p], p, NextAddr(p))
  /\ Request(p, [addr |-> NextAddr(p), serial |-> NewSerial(p), push |-> TRUE])

PopReg(p) ==
  /\ MustCall(p, "pop")
  /\ \/ /\ HasRow(reg[p], p, NextAddr(p))
        /\ Request(p, [addr |-> NextAddr(p), push |-> FALSE,
                       serial |-> reg[p][Row(reg[p], p, NextAddr(p))].serial])
     \/ /\ ~HasRow(reg[p], p, NextAddr(p))
        /\ Abort

-----------------------------------------------------------------------------
(***************************************************************************)
(* bsp_sync.  To enter a collective a node gives a block to every node; it *)
(* leaves when it has one from every node.                                 *)
(***************************************************************************)
CanLeave(n) == pc[n] # "compute" /\ ~aborted /\ \A m \in Node : chan[m][n] # <<>>
Received(n, m) == Head(chan[m][n]).body

Sent(ch, n, kind, blocks) ==
  [ch EXCEPT ![n] = [m \in Node |-> Append(@[m], [kind |-> kind, body |-> blocks[m]])]]
Taken(n) == [m \in Node |-> [chan[m] EXCEPT ![n] = Tail(@)]]

(* A memory after some writes, and after some copies. *)
AfterPuts(m, puts) == FoldLeft(LAMBDA w, d : Stored(w, d.dst, d.val), m, puts)
AfterCopies(m, copies) == FoldLeft(LAMBDA w, d : Stored(w, d.dst, At(w, d.src)), m, copies)

(* LocalDeliveryQueue::execute: first the gets, then the puts, in the      *)
(* memory the contexts before have left.                                   *)
Execute(m, p) == AfterPuts(AfterCopies(m, local[p].hpputs), local[p].puts)

Requesting(n) == \E m \in Node : reqTab[n][m] # <<>>
Delivering(n) == delTab[n] # EmptyDeliveries

(* The tasks of n have returned, each with all of its registrations: up to *)
(* the exchange of the flags, or an exception when the contexts disagree   *)
(* about the number of registrations.                                      *)
EnterSync(n) ==
  /\ Computing(n)
  /\ \A p \in On(n) : done[p] = Len(program.coll[step[n] + 1][p])
  /\ \/ /\ \E p, q \in On(n) : Len(requests[p]) # Len(requests[q])
        /\ Abort
     \/ /\ \A p, q \in On(n) : Len(requests[p]) = Len(requests[q])
        /\ mem' = FoldLeft(Execute, mem, Contexts(n))
        /\ local' = [p \in Global |->
             IF p \in On(n) THEN [local[p] EXCEPT !.hpputs = <<>>, !.puts = <<>>] ELSE local[p]]
        /\ chan' = Sent(chan, n, "info", [m \in Node |->
             [gets |-> Requesting(n), msgs |-> Delivering(n),
              regs |-> {Len(requests[p]) : p \in On(n)}]])
        /\ pc' = [pc EXCEPT ![n] = "info"]
        /\ UNCHANGED <<step, program, calls, done, reg, requests, table, exch, aborted>>

(* bsmp_messagequeue_sync: the messages sent are those to be moved now. *)
Switched(l) == [l EXCEPT !.move = l.send, !.send = <<>>]

(* The end of bsp_sync. *)
Finish(n, l, m) ==
  /\ mem' = m
  /\ local' = [p \in Global |-> IF p \in On(n) THEN Switched(l[p]) ELSE l[p]]
  /\ reqTab' = [reqTab EXCEPT ![n] = EmptyRequests]
  /\ delTab' = [delTab EXCEPT ![n] = EmptyDeliveries]
  /\ chan' = Taken(n)
  /\ pc' = [pc EXCEPT ![n] = "compute"]
  /\ step' = [step EXCEPT ![n] = @ + 1]
  /\ done' = [p \in Global |-> IF p \in On(n) THEN 0 ELSE done[p]]

(* On to the next exchange that takes place, or to the end. *)
Proceed(n) ==
  \/ /\ exch'[n].gets
     /\ chan' = Sent(Taken(n), n, "req", reqTab[n])
     /\ pc' = [pc EXCEPT ![n] = "req"]
     /\ UNCHANGED <<step, done, mem, local, table>>
  \/ /\ ~exch'[n].gets /\ exch'[n].msgs
     /\ chan' = Sent(Taken(n), n, "deliv", delTab[n])
     /\ pc' = [pc EXCEPT ![n] = "deliv"]
     /\ UNCHANGED <<step, done, mem, local, table>>
  \/ /\ ~exch'[n].gets /\ ~exch'[n].msgs
     /\ Finish(n, local, mem)

(* The flags of all nodes: what will be exchanged, and how many            *)
(* registrations there are to process.                                     *)
FlagsOwn(n) ==                           \* mutant: only its own flags
  [gets |-> Requesting(n), msgs |-> Delivering(n)]
Flags(n) ==
  [gets |-> \E m \in Node : Received(n, m).gets, msgs |-> \E m \in Node : Received(n, m).msgs]
Registrations(n) == Max({0} \union UNION {Received(n, m).regs : m \in Node})

LeaveInfo(n) ==
  /\ pc[n] = "info" /\ CanLeave(n)
  /\ exch' = [exch EXCEPT ![n] = Flags(n)]
  /\ UNCHANGED <<program, calls, reg, aborted>>
  /\ \/ /\ Registrations(n) > 0
        /\ chan' = Sent(Taken(n), n, "reg", [m \in Node |-> [p \in On(n) |-> requests[p]]])
        /\ requests' = [p \in Global |-> IF p \in On(n) THEN <<>> ELSE requests[p]]
        /\ pc' = [pc EXCEPT ![n] = "reg"]
        /\ UNCHANGED <<step, done, mem, local, table>>
     \/ /\ Registrations(n) = 0
        /\ Proceed(n)
        /\ UNCHANGED requests

(***************************************************************************)
(* process_memoryreg_ops: the requests of all processors, in order.  The   *)
(* k-th requests must be alike; a push adds a row, a pop removes the row   *)
(* in which the processor has the address it asked for.                    *)
(***************************************************************************)
Requests(n) == [p \in Global |-> Received(n, Home(p))[p]]
Rounds(all) == UNION {DOMAIN all[p] : p \in Global}
Short(all) == {p \in Global : Len(all[p]) < Cardinality(Rounds(all))}

(* The slots of a processor that made fewer requests than others are sent  *)
(* without having been written.  They hold anything, one that is like the  *)
(* others' included: stale[p] for processor p.                             *)
Unwritten(all) ==
  [Short(all) -> [addr : Addr, push : BOOLEAN,
                  serial : UNION {{all[p][k].serial : k \in DOMAIN all[p]} : p \in Global}]]
Completed(all, stale) ==
  [p \in Global |-> [k \in Rounds(all) |-> IF k \in DOMAIN all[p] THEN all[p][k] ELSE stale[p]]]

Alike(all, k) ==
  \A p, q \in Global : all[p][k].serial = all[q][k].serial /\ all[p][k].push = all[q][k].push

PopAddress(rows, p, a) == IF HasRow(rows, p, a) THEN RemoveAt(rows, Row(rows, p, a)) ELSE rows
PopRowOfFirst(rows, p, all, k) ==        \* mutant: the address processor 0 asked for
  PopAddress(rows, p, all[0][k].addr)
PopRow(rows, p, all, k) == PopAddress(rows, p, all[p][k].addr)
PushRow(rows, p, all, k) ==
  Append(rows, [at |-> [q \in Global |-> all[q][k].addr], serial |-> all[p][k].serial])

(* The register of p after the first k requests. *)
Processed(rows, p, all, i) ==
  IF all[p][i].push THEN PushRow(rows, p, all, i) ELSE PopRow(rows, p, all, i)
RegAfter(rows, p, all, k) ==
  FoldLeft(LAMBDA r, i : Processed(r, p, all, i), rows, [i \in 1 .. k |-> i])

(* An exception: requests that differ, an address registered twice, or one *)
(* to be popped that is not (or no longer) registered.                     *)
Throws(n, all) ==
  \E k \in Rounds(all) :
    \/ ~Alike(all, k)
    \/ \E p \in On(n) : all[p][k].push = HasRow(RegAfter(reg[p], p, all, k-1), p, all[p][k].addr)

LeaveReg(n) ==
  /\ pc[n] = "reg" /\ CanLeave(n)
  /\ \E stale \in Unwritten(Requests(n)) :
       LET all == Completed(Requests(n), stale) IN
       \/ /\ Throws(n, all)
          /\ Abort
       \/ /\ ~Throws(n, all)
          /\ reg' = [p \in Global |->
               IF p \in On(n) THEN RegAfter(reg[p], p, all, Len(all[p])) ELSE reg[p]]
          /\ UNCHANGED <<program, calls, requests, exch, aborted>>
          /\ Proceed(n)

(* requestTable_execute: behind the puts of the tasks. *)
Answer(r) == [dst |-> r.dst, val |-> At(mem, r.src)]
Answered(n) ==
  [m \in Node |-> [delTab[n][m] EXCEPT !.put =
     @ \o [i \in DOMAIN Received(n, m) |-> Answer(Received(n, m)[i])]]]

LeaveReq(n) ==
  /\ pc[n] = "req" /\ CanLeave(n)
  /\ delTab' = [delTab EXCEPT ![n] = Answered(n)]
  /\ chan' = Sent(Taken(n), n, "deliv", delTab'[n])
  /\ pc' = [pc EXCEPT ![n] = "deliv"]
  /\ UNCHANGED <<step, program, calls, done, mem, reg, requests, local, reqTab, exch, aborted>>

(* What has arrived, column after column. *)
Arrived(n, type) ==
  FoldLeft(LAMBDA all, m : all \o Received(n, m)[type], <<>>, [i \in 1 .. nprocs |-> i - 1])

(* The messages go to the contexts they are for, behind those of the node. *)
Behind(queue, p, ms) ==
  FoldLeft(LAMBDA q, s : IF s.lp = Local(p) THEN Append(q, s.message) ELSE q, queue, ms)
SplitLate(n) ==                          \* mutant: into the queue about to be cleared
  [p \in Global |->
     IF p \in On(n) THEN [local[p] EXCEPT !.move = Behind(@, p, Arrived(n, "send"))] ELSE local[p]]
Split(n) ==
  [p \in Global |->
     IF p \in On(n) THEN [local[p] EXCEPT !.send = Behind(@, p, Arrived(n, "send"))] ELSE local[p]]

LeaveDeliv(n) ==
  /\ pc[n] = "deliv" /\ CanLeave(n)
  /\ Finish(n, Split(n), AfterPuts(mem, Arrived(n, "put")))
  /\ UNCHANGED <<program, calls, reg, requests, exch, aborted>>

Over ==
  /\ aborted \/ \A n \in Node : step[n] = Len(program.coll)
  /\ UNCHANGED vars

InSync(n) == LeaveInfo(n) \/ LeaveReg(n) \/ LeaveReq(n) \/ LeaveDeliv(n)

Next ==
  \/ \E p, q \in Global, a, b \in Addr :
       Put(p, q, a, b) \/ Get(p, q, a, b) \/ HpPut(p, q, a, b) \/ HpGet(p, q, a, b)
  \/ \E p, q \in Global, body \in Payload : Send(p, q, body) \/ HpSend(p, q, body)
  \/ \E p \in Global, a \in Addr, v \in NewVal : Write(p, a, v)
  \/ \E p \in Global : Move(p) \/ PushReg(p) \/ PopReg(p)
  \/ \E n \in Node : EnterSync(n) \/ InSync(n)
  \/ Over

Spec == Init /\ [][Next]_vars

-----------------------------------------------------------------------------
(***************************************************************************)
(* Properties.                                                             *)
(***************************************************************************)
Location == Global \X Addr
Letter == [from : Global, body : Payload]

(* Type correctness of the whole state. *)
TypeOK ==
  /\ pc \in [Node -> {"compute", "info", "reg", "req", "deliv"}]
  /\ step \in [Node -> 0 .. Len(program.coll)]
  /\ program \in Programs /\ calls \in 0 .. program.most
  /\ done \in [Global -> Nat]
  /\ mem \in [Global -> [Addr -> Val]]
  /\ reg \in [Global -> Seq([at : [Global -> Addr], serial : Nat])]
  /\ requests \in [Global -> Seq([addr : Addr, serial : Nat, push : BOOLEAN])]
  /\ local \in [Global -> [hpputs : Seq([src : Location, dst : Location]),
                           puts : Seq([dst : Location, val : Val]),
                           send : Seq(Letter), move : Seq(Letter)]]
  /\ reqTab \in [Node -> [Node -> Seq([src : Location, dst : Location])]]
  /\ delTab \in [Node -> [Node -> [put : Seq([dst : Location, val : Val]),
                                   send : Seq([lp : Nat, message : Letter])]]]
  /\ exch \in [Node -> [gets : BOOLEAN, msgs : BOOLEAN]]
  /\ aborted \in BOOLEAN

(* All nodes come to the same decisions about the three exchanges that     *)
(* need not take place (any_gets, any_messages and reg_req_size of         *)
(* bsp_sync), nodes without contexts included: the next block a node takes *)
(* from another was given to the collective it is in itself.               *)
CollectivesMatch ==
  \A n, m \in Node :
    pc[n] # "compute" /\ chan[m][n] # <<>> => Head(chan[m][n]).kind = pc[n]

(* Contexts whose nodes have completed the same supersteps have the same   *)
(* registrations in the same order, though each looks for the rows to pop  *)
(* by its own address: what one context resolves for another is what that  *)
(* one registered in the same call.                                        *)
RegistersAgree ==
  \A p, q \in Global :
    step[Home(p)] = step[Home(q)] /\ pc[Home(p)] = "compute" /\ pc[Home(q)] = "compute"
      => reg[p] = reg[q]

-----------------------------------------------------------------------------
(***************************************************************************)
(* The programs whose registers agree: the registrations of a superstep    *)
(* are as many on every processor, and mean the same.                      *)
(***************************************************************************)
EvenOn(n, list) == \A p, q \in On(n) : Len(list[p]) = Len(list[q])
Even(list) == \A p, q \in Global : Len(list[p]) = Len(list[q])

RowOrNone(rows, p, a) == IF HasRow(rows, p, a) THEN Row(rows, p, a) ELSE 0

(* The requests that come of the registrations of a superstep, and the     *)
(* register after them, when all processors had the same register.         *)
RequestFor(rows, p, call, k) ==
  IF call.op = "push" THEN [addr |-> call.addr, serial |-> Len(rows) + k - 1, push |-> TRUE]
  ELSE [addr |-> call.addr, push |-> FALSE,
        serial |-> IF HasRow(rows, p, call.addr) THEN rows[Row(rows, p, call.addr)].serial ELSE 0]
Asked(rows, list) ==
  [p \in Global |-> [k \in DOMAIN list[p] |-> RequestFor(rows, p, list[p][k], k)]]
RowsAfter(rows, list) ==
  IF Even(list) THEN RegAfter(rows, 0, Asked(rows, list), Len(list[0])) ELSE rows

(* The register after the first s supersteps of a program. *)
Rows(prog) ==
  LET rows[s \in 0 .. Len(prog.coll)] ==
        IF s = 0 \/ Global = {} THEN <<>> ELSE RowsAfter(rows[s-1], prog.coll[s])
  IN  rows
AskedIn(prog, s) == Asked(Rows(prog)[s-1], prog.coll[s])

(* Each pop means the same row of the register in all processors.          *)
PopsAgree(rows, list) ==
  \A p \in Global : \A k \in DOMAIN list[p] :
    list[p][k].op = "pop" =>
      LET before(q) == RegAfter(rows, q, Asked(rows, list), k-1)
      IN  RowOrNone(before(p), p, list[p][k].addr) = RowOrNone(before(0), 0, list[0][k].addr)

(* The numbers of registrations differ between nodes only where they do on *)
(* a node, whose bsp_sync throws; and pops agree.                          *)
Legal(prog) ==
  \A s \in DOMAIN prog.coll :
    LET list == prog.coll[s] IN
    (\A n \in Node : EvenOn(n, list)) => Even(list) /\ PopsAgree(Rows(prog)[s-1], list)
LegalPrograms == \A prog \in Programs : Legal(prog)

=============================================================================
