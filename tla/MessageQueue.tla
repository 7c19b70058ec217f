---------------------------- MODULE MessageQueue ----------------------------
(***************************************************************************)
(* The queue of received BSMP messages of one process (bsp_mesgqueue.h and *)
(* the BSMP part of bspx.c).  The messages stay where they were received,  *)
(* in the columns of the delivery table, and the queue walks them column   *)
(* by column: "pending" gives, per sending process, the messages not yet   *)
(* dequeued, and the head pointer of the code is the first message of the  *)
(* first column that has one.                                              *)
(*                                                                         *)
(* A message is [size, payload_size]: size counts the tag and the    *)
(* payload, as in the DelivElement of the code.                            *)
(***************************************************************************)
EXTENDS Integers, Sequences, Functions

(* messageQueue_initialize *)
EmptyQueue(P) ==
  [recv_tag_size |-> 0, send_tag_size |-> 0, n_mesg |-> 0, accum_size |-> 0,
   pending |-> [q \in P |-> <<>>]]

(* messageQueue_sync: what is still queued is lost, and the messages about *)
(* to arrive carry tags of the size in use so far.                         *)
QueueSyncOldTag(mq) ==                     \* mutant: the tag size is not taken over
  [mq EXCEPT !.n_mesg = 0, !.accum_size = 0,
             !.pending = [q \in DOMAIN mq.pending |-> <<>>]]
QueueSync(mq) ==
  [mq EXCEPT !.recv_tag_size = mq.send_tag_size, !.n_mesg = 0, !.accum_size = 0,
             !.pending = [q \in DOMAIN mq.pending |-> <<>>]]

(* Sum of a numeric field over the messages of all columns. *)
SumOver(columns, Size(_)) ==
  FoldFunction(+, 0, [q \in DOMAIN columns |->
    FoldFunction(+, 0, [i \in DOMAIN columns[q] |-> Size(columns[q][i])])])

(* deliveryTable_execute gathers the messages of all columns in the queue  *)
(* and adds message->size to the accumulated size.                         *)
Gather(mq, columns) ==
  [mq EXCEPT !.n_mesg = @ + SumOver(columns, LAMBDA m : 1),
             !.accum_size = @ + SumOver(columns, LAMBDA m : m.size),
             !.pending = columns]

(* deliveryTable_execute, the last loop: the settag entries in order. *)
SetTags(mq, sizes) ==
  IF sizes = <<>> THEN mq ELSE [mq EXCEPT !.send_tag_size = sizes[Len(sizes)]]

HeadColumn(mq) ==
  CHOOSE q \in DOMAIN mq.pending :
    /\ mq.pending[q] # <<>>
    /\ \A r \in DOMAIN mq.pending : mq.pending[r] # <<>> => q <= r

HeadMessage(mq) == Head(mq.pending[HeadColumn(mq)])

(* What bspx_move and bspx_hpmove have in common: the head goes on to the  *)
(* next message and the counters go down, the accumulated size by "bytes". *)
Dequeue(mq, bytes) ==
  [mq EXCEPT !.n_mesg = @ - 1, !.accum_size = @ - bytes,
             !.pending[HeadColumn(mq)] = Tail(@)]

(* bspx_move takes the whole size of the message off the sum ... *)
AfterMove(mq) == Dequeue(mq, HeadMessage(mq).size)

(* ... and bspx_hpmove only the size of its payload. *)
AfterHpMove(mq) == Dequeue(mq, HeadMessage(mq).payload_size)

=============================================================================
