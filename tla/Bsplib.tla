------------------------------- MODULE Bsplib -------------------------------
(***************************************************************************)
(* What bsp_sync promises a program (the interface comments of bspx.c and  *)
(* bsp.h): a superstep is a phase of computation, and its communication    *)
(* happens at once, when the last process has called bsp_sync.             *)
(*                                                                         *)
(*   - A get reads the memory of the other process as it is when that      *)
(*     process, too, has called bsp_sync, and before anything is written.  *)
(*   - Puts and the values of gets are then written, for one source after  *)
(*     the other by rank: its puts in the order of the calls, then the     *)
(*     answers to the gets from it.  The last write stays.                 *)
(*   - The messages of the superstep replace those in the queue, ordered   *)
(*     by rank of the sender, then by the order of the calls.              *)
(*   - Registrations take effect for the next superstep, those of          *)
(*     bsp_pop_reg after those of bsp_push_reg.                            *)
(*                                                                         *)
(* There are no tables, collectives or blocks here.  A process sees the    *)
(* outcome when it returns from bsp_sync, each in its own time.            *)
(***************************************************************************)
EXTENDS Integers, Sequences

CONSTANTS N, Addr, Val, InitMem, Payload

Proc == 0 .. N-1

VARIABLES
  phase,    \* "compute", "waiting" for the others, or "released" by the last
  mem,      \* the memory of each process
  box,      \* messages to be read, per sender
  regs,     \* registrations: a sequence of functions from processes to addresses
  posted,   \* the calls of this superstep
  outcome   \* what the superstep leaves each process with

vars == <<phase, mem, box, regs, posted, outcome>>

Nothing == [put |-> [q \in Proc |-> <<>>], get |-> [q \in Proc |-> <<>>],
            send |-> [q \in Proc |-> <<>>], push |-> <<>>, pop |-> <<>>]

Init ==
  /\ phase = [p \in Proc |-> "compute"]
  /\ mem = InitMem
  /\ box = [p \in Proc |-> [q \in Proc |-> <<>>]]
  /\ regs = [p \in Proc |-> <<>>]
  /\ posted = [p \in Proc |-> Nothing]
  /\ outcome = [p \in Proc |-> <<>>]

(* The newest registration that p made with address a. *)
Newest(rows, p, a) ==
  CHOOSE i \in DOMAIN rows : rows[i][p] = a /\ \A j \in DOMAIN rows : rows[j][p] = a => j <= i
IsRegistered(rows, p, a) == \E i \in DOMAIN rows : rows[i][p] = a

Post(p, calls) ==
  /\ phase[p] = "compute"
  /\ posted' = [posted EXCEPT ![p] = calls]
  /\ UNCHANGED <<phase, mem, box, regs, outcome>>

Put(p, q, src, dst) ==
  /\ IsRegistered(regs[p], p, dst)
  /\ Post(p, [posted[p] EXCEPT !.put[q] =
       Append(@, [dst |-> regs[p][Newest(regs[p], p, dst)][q], val |-> mem[p][src]])])

Get(p, q, src, dst) ==
  /\ IsRegistered(regs[p], p, src)
  /\ Post(p, [posted[p] EXCEPT !.get[q] =
       Append(@, [src |-> regs[p][Newest(regs[p], p, src)][q], dst |-> dst])])

Send(p, q, m) == Post(p, [posted[p] EXCEPT !.send[q] = Append(@, m)])
PushReg(p, at) == Post(p, [posted[p] EXCEPT !.push = Append(@, at)])
PopReg(p, at)  == Post(p, [posted[p] EXCEPT !.pop = Append(@, at)])

Write(p, a, v) ==
  /\ phase[p] = "compute"
  /\ mem' = [mem EXCEPT ![p][a] = v]
  /\ UNCHANGED <<phase, box, regs, posted, outcome>>

(* Read the first message of the sender of least rank. *)
Move(p, q) ==
  /\ phase[p] = "compute"
  /\ box[p][q] # <<>> /\ \A r \in Proc : r < q => box[p][r] = <<>>
  /\ box' = [box EXCEPT ![p][q] = Tail(@)]
  /\ UNCHANGED <<phase, mem, regs, posted, outcome>>

EmptyBox == [q \in Proc |-> <<>>]
ResetBuffers(p) ==
  /\ phase[p] = "compute" /\ posted[p] = Nothing
  /\ box' = [box EXCEPT ![p] = EmptyBox]
  /\ UNCHANGED <<phase, mem, regs, posted, outcome>>

-----------------------------------------------------------------------------
(* What is written into the memory of p on account of q, in order. *)
WritesFrom(q, p, calls) ==
  calls[q].put[p] \o [i \in DOMAIN calls[p].get[q] |->
    [dst |-> calls[p].get[q][i].dst, val |-> mem[q][calls[p].get[q][i].src]]]

(* The writes of the sources of rank at least n; of those to address a the *)
(* last one stays, or else what was there.                                 *)
LastOf(writes, a, old) ==
  LET hits == {i \in DOMAIN writes : writes[i].dst = a}
  IN  IF hits = {} THEN old
      ELSE writes[CHOOSE i \in hits : \A j \in hits : j <= i].val

MemAfter(p, calls) ==
  LET after[n \in 0 .. N] ==
        IF n = 0 THEN mem[p]
        ELSE [a \in Addr |-> LastOf(WritesFrom(n-1, p, calls), a, after[n-1][a])]
  IN  after[N]

Without(rows, at) ==
  LET last == CHOOSE i \in DOMAIN rows :
                rows[i] = at /\ \A j \in DOMAIN rows : rows[j] = at => j <= i
  IN  SubSeq(rows, 1, last-1) \o SubSeq(rows, last+1, Len(rows))

RegsAfter(p, calls) ==
  LET after[n \in 0 .. Len(calls[p].pop)] ==
        IF n = 0 THEN regs[p] \o calls[p].push ELSE Without(after[n-1], calls[p].pop[n])
  IN  after[Len(calls[p].pop)]

Outcome(p, calls) ==
  [mem |-> MemAfter(p, calls), regs |-> RegsAfter(p, calls),
   box |-> [q \in Proc |-> calls[q].send[p]]]

(* Calling bsp_sync gives up the unread messages.  The last process to     *)
(* call it releases all, with the outcome of the superstep.                *)
Sync(p) ==
  /\ phase[p] = "compute"
  /\ box' = [box EXCEPT ![p] = EmptyBox]
  /\ IF \A q \in Proc \ {p} : phase[q] = "waiting"
       THEN /\ phase' = [q \in Proc |-> "released"]
            /\ outcome' = [q \in Proc |-> Outcome(q, posted)]
       ELSE /\ phase' = [phase EXCEPT ![p] = "waiting"]
            /\ UNCHANGED outcome
  /\ UNCHANGED <<mem, regs, posted>>

Return(p) ==
  /\ phase[p] = "released"
  /\ phase' = [phase EXCEPT ![p] = "compute"]
  /\ mem' = [mem EXCEPT ![p] = outcome[p].mem]
  /\ regs' = [regs EXCEPT ![p] = outcome[p].regs]
  /\ box' = [box EXCEPT ![p] = outcome[p].box]
  /\ posted' = [posted EXCEPT ![p] = Nothing]
  /\ UNCHANGED outcome

Next ==
  \/ \E p \in Proc, q \in Proc, a \in Addr, b \in Addr : Put(p, q, a, b) \/ Get(p, q, a, b)
  \/ \E p \in Proc, q \in Proc, m \in Payload : Send(p, q, m)
  \/ \E p \in Proc, at \in [Proc -> Addr] : PushReg(p, at) \/ PopReg(p, at)
  \/ \E p \in Proc, a \in Addr, v \in Val : Write(p, a, v)
  \/ \E p \in Proc, q \in Proc : Move(p, q)
  \/ \E p \in Proc : ResetBuffers(p) \/ Sync(p) \/ Return(p)

Spec == Init /\ [][Next]_vars

=============================================================================
