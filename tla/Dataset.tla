------------------------------- MODULE Dataset -------------------------------
(***************************************************************************)
(* The buffer in which shared variables travel between nodes               *)
(* (SerializedDataset.h): 8-byte words, of which the first 2 + nelem are a *)
(* header with the position of each element; behind it the elements, each  *)
(* a name and a value.  A word is a number, the first word of an element,  *)
(* or Junk; the words an element goes on for are Junk here, as nothing     *)
(* reads them but by its first.                                            *)
(***************************************************************************)
EXTENDS Integers, Sequences

CONSTANT NameBytes     \* the length of each name

ASSUME NameBytesAssumption == \A name \in DOMAIN NameBytes : NameBytes[name] \in Nat

(* FoldLeft of SequencesExt; every intermediate result is bound to v, so   *)
(* that TLC evaluates it once and not at each use.                         *)
Folded(op(_, _), base, seq) ==
  LET upTo[k \in 0 .. Len(seq)] ==
        IF k = 0 THEN base ELSE CHOOSE r \in {op(v, seq[k]) : v \in {upTo[k-1]}} : TRUE
  IN  upTo[Len(seq)]

Junk == [junk |-> TRUE]
Number(n) == [num |-> n]
Element(name, value) == [name |-> name, value |-> value]

(* The 8-byte words that hold a number of bytes. *)
Words(bytes) == (bytes + 7) \div 8

(* The bytes of a value: its length, and one byte for each item. *)
SerializedSize(value) == 8 + Len(value)

(* AVector::resize *)
Resized(ds, size) ==
  [ds EXCEPT !.data = [i \in 0 .. size-1 |-> IF i < ds.size THEN ds.data[i] ELSE Junk], !.size = size]

(* The constructor for n elements. *)
Fresh(n) ==
  [data |-> [i \in 0 .. n+1 |-> Number(0)], size |-> 2 + n,
   pos |-> 2 + n, nelem |-> n, current |-> 0]

(* The constructor from a buffer of another node. *)
FromBuffer(block) ==
  [data |-> block.data, size |-> block.size, pos |-> 0, nelem |-> block.nelem, current |-> 0]

(* Where the next element begins behind one of these bytes at pos. *)
NextPosTight(pos, idsize, sz) == pos + (idsize + sz + 16) \div 8    \* mutant: not rounded up
NextPos(pos, idsize, sz) == pos + (sz + 16 + idsize + 31) \div 8

(* The words add_elem writes of an element: two lengths, name, value. *)
Extent(idsize, sz) == 2 + Words(idsize) + Words(sz)

AddElemHere(ds, name, value) ==               \* mutant: does not grow the buffer
  [ds EXCEPT !.data[ds.pos] = Element(name, value),
             !.data[ds.current] = Number(ds.pos),
             !.current = @ + 1,
             !.pos = NextPos(@, NameBytes[name], SerializedSize(value))]
AddElem(ds, name, value) ==
  LET next == NextPos(ds.pos, NameBytes[name], SerializedSize(value))
      room == IF next >= ds.size THEN Resized(ds, next + 1) ELSE ds
  IN  [room EXCEPT !.data[ds.pos] = Element(name, value),
                   !.data[ds.current] = Number(ds.pos),
                   !.current = @ + 1, !.pos = next]

(* broadcast, on the master: its header makes room for the number of       *)
(* elements in the first word, where every node can find it.               *)
Pack(ds) ==
  [ds EXCEPT !.data = [@ EXCEPT ![ds.nelem] = ds.data[0], ![0] = Number(ds.nelem),
                                ![ds.nelem + 1] = Number(ds.current)]]

(* broadcast, on every node: room for the words that come. *)
Receivable(ds) == IF ds.size < ds.pos + 1 THEN Resized(ds, ds.pos + 1) ELSE ds

(* The words of the master arrive over the first words of a node. *)
Overwritten(ds, words, n) ==
  [ds EXCEPT !.data = [i \in 0 .. ds.size-1 |-> IF i < n THEN words[i] ELSE ds.data[i]]]

(* broadcast, on every node: the header as it was on the master. *)
Unpack(ds) ==
  LET n == ds.data[0].num
      header == [[ds.data EXCEPT ![0] = ds.data[n]] EXCEPT ![n] = Number(0)]
  IN  [ds EXCEPT !.nelem = n, !.data = header, !.current = header[n + 1].num]

Restart(ds) == [ds EXCEPT !.current = 0, !.pos = ds.data[0].num]

(* next_name and get_elem: the first reads at data_pos, the second at the  *)
(* position the header has, and goes to the next.                          *)
NextName(ds) == ds.data[ds.pos].name
ElemValue(ds) == ds.data[ds.data[ds.current].num].value
GetElem(ds) ==
  [ds EXCEPT !.current = @ + 1, !.pos = ds.data[ds.current + 1].num]

(* The elements in use do not overlap, nor reach behind the buffer. *)
Apart(ds) ==
  \A k \in 0 .. ds.current - 1 :
    LET at == ds.data[k].num
        el == ds.data[at]
        end == at + Extent(NameBytes[el.name], SerializedSize(el.value))
    IN  /\ at >= 2 + ds.nelem
        /\ end <= ds.size /\ (ds.pos > at => end <= ds.pos)
        /\ \A j \in k+1 .. ds.current - 1 : end <= ds.data[j].num

=============================================================================
