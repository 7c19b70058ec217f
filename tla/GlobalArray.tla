----------------------------- MODULE GlobalArray -----------------------------
(***************************************************************************)
(* One global array (bsp_global_drma.c): "gsize" bytes, of which every     *)
(* process holds a slice, and the calls that read or write a range of it.  *)
(* A call is cut into one bspx_put or bspx_get for every slice it touches. *)
(*                                                                         *)
(* The calls are those of one process; what several processes do in the    *)
(* same superstep is the subject of BspSync.  bspx_global_hpput and        *)
(* bspx_global_hpget cut their range in the same way.                      *)
(***************************************************************************)
EXTENDS Integers, Sequences, FiniteSets, SequencesExt

CONSTANTS
  N,          \* number of processes
  ArraySizes, \* sizes of the array, in bytes
  SizeMod,    \* number of values of a size_t: 2^64 in the code
  MaxCalls    \* bound: calls in a run

Proc == 0 .. N-1

ASSUME NAssumption == N \in Nat \ {0}
ASSUME ArraysAssumption ==
  ArraySizes \subseteq Nat \ {0} /\ SizeMod \in Nat \ {0} /\ MaxCalls \in Nat

VARIABLES
  gsize,      \* array_size of the handle
  slice,      \* the slice of each process
  puts,       \* pieces of bspx_put that wait for the bspx_sync
  gets,       \* pieces of bspx_get that wait for the bspx_sync
  calls,      \* the calls of this superstep, as the program made them
  made,       \* number of calls made
  got,        \* what the gets of the last superstep delivered, by call
  array       \* the array as the program thinks of it

arrayVars == <<gsize, slice, puts, gets, calls, made, got, array>>

size_t(i) == i % SizeMod

(* bspx_global_alloc: each process holds the same number of bytes. *)
LocalSize(g) == (g + N - 1) \div N
local_size == LocalSize(gsize)

InRange(offset, size) == offset + size <= gsize

ArrayInit ==
  /\ gsize \in ArraySizes
  /\ slice = [p \in Proc |-> [i \in 0 .. LocalSize(gsize) - 1 |-> <<0, 0>>]]
  /\ puts = <<>> /\ gets = <<>>
  /\ calls = <<>> /\ made = 0
  /\ got = {}
  /\ array = [b \in 0 .. gsize - 1 |-> <<0, 0>>]

-----------------------------------------------------------------------------
(* Where the range begins. *)
OffsetProc(offset) == size_t(offset * N) \div gsize
OffsetIdxZero(offset) == 0              \* mutant: from the start of the slice
OffsetIdx(offset) == size_t(offset - OffsetProc(offset) * local_size)

(* The loop: from index idx of the slice of proc on, "size" bytes that are *)
(* at position "from" of the program's data.  A round takes as many as     *)
(* there are in the slice.  Only the first can find no room there, so that *)
(* nothing is left after size + 1 rounds.                                  *)
TodoSlice(idx, size) ==                 \* mutant: idx is not counted
  IF size > local_size THEN local_size ELSE size
Todo(idx, size) ==
  IF size > size_t(local_size - idx) THEN size_t(local_size - idx) ELSE size
Piece(proc, idx, from, size) == [proc |-> proc, idx |-> idx, from |-> from, size |-> size]

Cut(left, from) ==
  LET todo == Todo(left.idx, left.size)
  IN  [proc |-> left.proc + 1, idx |-> 0, from |-> left.from + todo, size |-> left.size - todo,
       pieces |-> Append(left.pieces, Piece(left.proc, left.idx, from, todo))]
RoundRestart(left) ==                   \* mutant: the data pointer does not move
  IF left.size = 0 THEN left ELSE Cut(left, 0)
Round(left) ==
  IF left.size = 0 THEN left ELSE Cut(left, left.from)

Whole(offset, size) ==
  [proc |-> OffsetProc(offset), idx |-> OffsetIdx(offset), from |-> 0, size |-> size, pieces |-> <<>>]
Pieces(offset, size) ==
  LET after[k \in 0 .. size + 1] == IF k = 0 THEN Whole(offset, size) ELSE Round(after[k-1])
  IN  after[size + 1].pieces

Tagged(pieces, id) == [k \in DOMAIN pieces |-> [piece |-> pieces[k], id |-> id]]

Made(op, offset, size) ==
  /\ made < MaxCalls /\ InRange(offset, size)
  /\ made' = made + 1
  /\ calls' = Append(calls, [op |-> op, id |-> made', offset |-> offset, size |-> size])

(* bspx_global_put; byte i of the data of call n is <<n, i>>. *)
GlobalPut(offset, size) ==
  /\ Made("put", offset, size)
  /\ puts' = puts \o Tagged(Pieces(offset, size), made')
  /\ UNCHANGED <<gsize, slice, gets, got, array>>

(* bspx_global_get *)
GlobalGet(offset, size) ==
  /\ Made("get", offset, size)
  /\ gets' = gets \o Tagged(Pieces(offset, size), made')
  /\ UNCHANGED <<gsize, slice, puts, got, array>>

(* bspx_sync: the gets read, then the puts write, in order. *)
Written(slices, t) ==
  [slices EXCEPT ![t.piece.proc] =
     [i \in DOMAIN @ |-> IF i \in t.piece.idx .. t.piece.idx + t.piece.size - 1
                           THEN <<t.id, t.piece.from + i - t.piece.idx>> ELSE @[i]]]
Landed(slices, pieces) == FoldLeft(Written, slices, pieces)

Read(t) == [i \in t.piece.from .. t.piece.from + t.piece.size - 1 |->
              slice[t.piece.proc][t.piece.idx + i - t.piece.from]]

GetCalls == {calls[k] : k \in {k \in DOMAIN calls : calls[k].op = "get"}}
PieceReads(c) == {Read(gets[k]) : k \in {k \in DOMAIN gets : gets[k].id = c.id}}
ByteGot(c, i) == LET r == CHOOSE r \in PieceReads(c) : i \in DOMAIN r IN r[i]

(* What a call means for the array, whoever holds its bytes. *)
Meant(a, c) ==
  [b \in DOMAIN a |-> IF c.op = "put" /\ b \in c.offset .. c.offset + c.size - 1
                        THEN <<c.id, b - c.offset>> ELSE a[b]]
Intended(a, made_calls) == FoldLeft(Meant, a, made_calls)

ArraySync ==
  /\ calls # <<>>
  /\ slice' = Landed(slice, puts)
  /\ got' = {[offset |-> c.offset, before |-> array,
              bytes |-> [i \in UNION {DOMAIN r : r \in PieceReads(c)} |-> ByteGot(c, i)],
              size |-> c.size] : c \in GetCalls}
  /\ array' = Intended(array, calls)
  /\ puts' = <<>> /\ gets' = <<>> /\ calls' = <<>>
  /\ UNCHANGED <<gsize, made>>

(* The bound on calls is reached. *)
ArrayOver == made = MaxCalls /\ calls = <<>> /\ UNCHANGED arrayVars

ArrayNext ==
  \/ \E offset \in 0 .. gsize - 1, size \in 0 .. gsize :
       GlobalPut(offset, size) \/ GlobalGet(offset, size)
  \/ ArraySync
  \/ ArrayOver

ArraySpec == ArrayInit /\ [][ArrayNext]_arrayVars

-----------------------------------------------------------------------------
(* The slices together hold the array: a byte that was put at a position   *)
(* is where any later call looks for that position, whichever ranges the   *)
(* calls had and however they were cut.                                    *)
SlicesHoldArray ==
  \A b \in 0 .. gsize - 1 : slice[b \div local_size][b % local_size] = array[b]

(* A get delivers the whole of its range, as it was before the puts of its *)
(* superstep.                                                              *)
GetsReadArray ==
  \A g \in got : g.bytes = [i \in 0 .. g.size - 1 |-> g.before[g.offset + i]]

(* The assertions of the loop, which say that no piece leaves its slice.   *)
PiecesInSlices ==
  \A t \in Range(puts) \union Range(gets) :
    /\ t.piece.proc < N
    /\ t.piece.idx < local_size
    /\ t.piece.idx + t.piece.size <= local_size

(***************************************************************************)
(* The inductive invariant behind these three, for sizes with which every  *)
(* process has a slice that is full, and no product in the code exceeds a  *)
(* size_t.                                                                 *)
(***************************************************************************)
WholeSlices == \A g \in ArraySizes : g % N = 0 /\ g * N < SizeMod

Byte == Int \X Int
Slices == [Proc -> [0 .. local_size - 1 -> Byte]]
Arrays == [0 .. gsize - 1 -> Byte]
PieceType == [proc : Nat, idx : Nat, from : Nat, size : Nat]
TaggedPiece == [piece : PieceType, id : Nat]
Call == [op : {"put", "get"}, id : Nat, offset : Nat, size : Nat]

Position(proc, i) == proc * local_size + i
Held(slices, a) ==
  \A proc \in Proc, i \in 0 .. local_size - 1 : slices[proc][i] = a[Position(proc, i)]

(* A piece stays in its slice, and is the part of its call that is there. *)
Bytes(piece) == piece.from .. piece.from + piece.size - 1
InSlice(piece) ==
  /\ piece.proc \in Proc /\ piece.idx \in 0 .. local_size - 1
  /\ piece.idx + piece.size <= local_size
PartOf(piece, offset, size) ==
  /\ InSlice(piece)
  /\ piece.from + piece.size <= size
  /\ Position(piece.proc, piece.idx) = offset + piece.from

ArrayTypes ==
  /\ gsize \in ArraySizes /\ made \in Nat
  /\ slice \in Slices /\ array \in Arrays
  /\ calls \in Seq(Call)
  /\ puts \in Seq(TaggedPiece) /\ gets \in Seq(TaggedPiece)

(* The pieces of a get are parts of it, and all of it. *)
Collects(c) ==
  /\ \A k \in DOMAIN gets : gets[k].id = c.id => PartOf(gets[k].piece, c.offset, c.size)
  /\ \A i \in 0 .. c.size - 1 : \E k \in DOMAIN gets : gets[k].id = c.id /\ i \in Bytes(gets[k].piece)

(* What the puts will have written is what they mean. *)
ArrayHeld == Held(slice, array) /\ Held(Landed(slice, puts), Intended(array, calls))
PutsFit == \A k \in DOMAIN puts : InSlice(puts[k].piece)
GetsFit == \A k \in DOMAIN gets : InSlice(gets[k].piece) /\ gets[k].id <= made
CallsCollect ==
  \A k \in DOMAIN calls : /\ calls[k].id <= made
                          /\ calls[k].op = "get" => Collects(calls[k])

ArrayInv ==
  ArrayTypes /\ ArrayHeld /\ PutsFit /\ GetsFit /\ CallsCollect /\ GetsReadArray

=============================================================================
