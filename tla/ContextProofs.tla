---------------------------- MODULE ContextProofs ----------------------------
(***************************************************************************)
(* Proofs about ContextSync, for any numbers of processors and nodes.      *)
(*                                                                         *)
(* The nodes always meet in the same collective, whichever of the          *)
(* exchanges of a bsp_sync take place. The argument is that all nodes      *)
(* follow one history: a sequence of collectives, with what every node     *)
(* said in the exchange of the flags that each of them follows from. A     *)
(* node that has been in fewer collectives than another one decides, from  *)
(* the blocks it receives, what the other one has decided from the same    *)
(* blocks.                                                                 *)
(*                                                                         *)
(* Everything in queues, tables, registers and blocks is of its type. A    *)
(* block is typed by its kind, so that what a node makes of it depends on  *)
(* the collective it was given to.                                         *)
(*                                                                         *)
(* Contexts that have completed the same supersteps hold the same          *)
(* register. The argument is that nothing but the program decides what is  *)
(* in it: each block with requests is dated by the superstep it is from.   *)
(***************************************************************************)
EXTENDS ContextSync, SequenceTheorems, Recursion

-----------------------------------------------------------------------------
(* Sequences of which nothing else is known. *)
LEMMA TailOfSequence ==
  ASSUME NEW s, IsSequence(s), s # <<>>
  PROVE  /\ IsSequence(Tail(s))
         /\ Len(s) \in Nat \ {0} /\ Len(Tail(s)) = Len(s) - 1
         /\ Head(s) = s[1]
         /\ \A i \in 1 .. Len(s) - 1 : Tail(s)[i] = s[i+1]
<1>1. PICK S : s \in Seq(S)
  BY DEF IsSequence
<1>2. /\ Tail(s) \in Seq(S) /\ Len(Tail(s)) = Len(s) - 1
      /\ \A i \in 1 .. Len(Tail(s)) : Tail(s)[i] = s[i+1]
  BY <1>1, HeadTailProperties
<1>3. Len(s) \in Nat \ {0}
  BY <1>1, EmptySeq
<1>4. Head(s) = s[1]
  BY <1>1
<1> QED BY <1>2, <1>3, <1>4 DEF IsSequence

LEMMA EmptyIsSequence == IsSequence(<<>>) /\ Len(<<>>) = 0
<1>1. <<>> \in Seq({})
  OBVIOUS
<1> QED BY <1>1 DEF IsSequence

LEMMA LongerThanEmpty ==
  ASSUME NEW s, IsSequence(s)
  PROVE  Len(s) \in Nat /\ (s # <<>> <=> Len(s) > 0)
<1>1. PICK S : s \in Seq(S)
  BY DEF IsSequence
<1>2. Len(s) \in Nat
  BY <1>1, LenProperties
<1>3. s # <<>> => Len(s) \in Nat \ {0}
  BY <1>1, EmptySeq
<1>4. Len(<<>>) = 0
  OBVIOUS
<1> QED BY <1>2, <1>3, <1>4

-----------------------------------------------------------------------------
(* What all nodes decide after a collective, given what each of them said  *)
(* in the exchange of the flags.  "info" is the first collective of the    *)
(* next bsp_sync.                                                          *)

Kinds == {"info", "reg", "req", "deliv"}

SomeRegs(f) == Max({0} \union UNION {f[m].regs : m \in Node}) > 0
SomeGets(f) == \E m \in Node : f[m].gets
SomeMsgs(f) == \E m \in Node : f[m].msgs

AfterRegs(f) == IF SomeGets(f) THEN "req" ELSE IF SomeMsgs(f) THEN "deliv" ELSE "info"
After(kind, f) ==
  IF kind = "info" THEN IF SomeRegs(f) THEN "reg" ELSE AfterRegs(f)
  ELSE IF kind = "reg" THEN AfterRegs(f)
  ELSE IF kind = "req" THEN "deliv"
  ELSE "info"

(* A history: the collectives 1 .. len that some node has been in, and     *)
(* what was said before each of them.                                      *)
History(len, trace, said) ==
  /\ len \in Nat
  /\ trace \in [Nat -> Kinds] /\ trace[0] = "deliv"
  /\ \A i \in 0 .. len-1 : /\ trace[i+1] = After(trace[i], said[i])
                           /\ trace[i+1] # "info" => said[i+1] = said[i]

(* Node n has entered in[n] collectives and left out[n] of them. *)
Positions(len, in, out) ==
  /\ in \in [Node -> Nat] /\ out \in [Node -> Nat]
  /\ \A n \in Node : in[n] <= len /\ len <= in[n] + 1

(* What has been sent by a node, and not yet received by another, is what  *)
(* the history says about the collectives in between.                      *)
IsBlock(b, n, i, trace, said) ==
  /\ b.kind = trace[i]
  /\ trace[i] = "info" => b.body = said[i][n]
Between(blocks, n, from, to, trace, said) ==
  /\ from <= to
  /\ IsSequence(blocks) /\ Len(blocks) = to - from
  /\ \A i \in 1 .. to - from : IsBlock(blocks[i], n, from + i, trace, said)
Channels(ch, in, out, trace, said) ==
  /\ DOMAIN ch = Node /\ \A n \in Node : DOMAIN ch[n] = Node
  /\ \A n, m \in Node : Between(ch[n][m], n, out[m], in[n], trace, said)

IsAt(n, in, out, trace, said) ==
  IF pc[n] = "compute" THEN in[n] = out[n] /\ After(trace[in[n]], said[in[n]]) = "info"
  ELSE /\ in[n] = out[n] + 1 /\ trace[in[n]] = pc[n]
       /\ pc[n] = "reg" => /\ exch[n].gets = SomeGets(said[in[n]])
                           /\ exch[n].msgs = SomeMsgs(said[in[n]])

HistoryOf(len, trace, said, in, out) ==
  /\ History(len, trace, said)
  /\ Positions(len, in, out)
  /\ Channels(chan, in, out, trace, said)
  /\ \A n \in Node : IsAt(n, in, out, trace, said)

ControlType ==
  /\ pc \in [Node -> Kinds \union {"compute"}]
  /\ DOMAIN exch = Node

OneHistory == ControlType /\ \E len, trace, said, in, out : HistoryOf(len, trace, said, in, out)

-----------------------------------------------------------------------------
(* Sending and receiving along a history. *)

LEMMA SentAlong ==
  ASSUME NEW ch, NEW in \in [Node -> Nat], NEW out \in [Node -> Nat], NEW trace, NEW said,
         Channels(ch, in, out, trace, said),
         NEW n \in Node, NEW kind, NEW blocks,
         kind = trace[in[n] + 1],
         kind = "info" => \A m \in Node : blocks[m] = said[in[n] + 1][n]
  PROVE  Channels(Sent(ch, n, kind, blocks), [in EXCEPT ![n] = @ + 1], out, trace, said)
<1> DEFINE next == Sent(ch, n, kind, blocks)
           block(m) == [kind |-> kind, body |-> blocks[m]]
           inn == [in EXCEPT ![n] = @ + 1]
<1>1. DOMAIN ch = Node /\ \A x \in Node : DOMAIN ch[x] = Node
  BY DEF Channels
<1>2. /\ DOMAIN next = Node /\ \A x \in Node : DOMAIN next[x] = Node
      /\ \A x, m \in Node : next[x][m] = IF x = n THEN Append(ch[x][m], block(m)) ELSE ch[x][m]
  BY <1>1 DEF Sent
<1>3. inn[n] = in[n] + 1 /\ \A x \in Node \ {n} : inn[x] = in[x]
  OBVIOUS
<1> HIDE DEF next, inn
<1>4. ASSUME NEW x \in Node, NEW m \in Node
      PROVE  Between(next[x][m], x, out[m], inn[x], trace, said)
  <2>1. Between(ch[x][m], x, out[m], in[x], trace, said)
    BY DEF Channels
  <2>2. CASE x # n
    BY <1>2, <1>3, <2>1, <2>2
  <2>3. CASE x = n
    <3> DEFINE s == ch[n][m]
               a == in[n]
               o == out[m]
               k == a - o
    <3>1. /\ a \in Nat /\ o \in Nat /\ o <= a /\ k \in Nat /\ IsSequence(s) /\ Len(s) = k
          /\ \A i \in 1 .. k : IsBlock(s[i], n, o + i, trace, said)
      BY <2>1, <2>3 DEF Between
    <3>2. next[x][m] = Append(s, block(m)) /\ inn[x] = a + 1
      BY <1>2, <1>3, <2>3
    <3>3. IsBlock(block(m), n, a + 1, trace, said)
      BY DEF IsBlock
    <3> HIDE DEF s, a, o, block
    <3>4. /\ IsSequence(Append(s, block(m))) /\ Len(Append(s, block(m))) = k + 1
          /\ Append(s, block(m))[k+1] = block(m)
          /\ \A i \in 1 .. k : Append(s, block(m))[i] = s[i]
      BY <3>1, AppendToSequence
    <3>5. ASSUME NEW i \in 1 .. k+1 PROVE IsBlock(Append(s, block(m))[i], n, o + i, trace, said)
      <4>1. CASE i = k + 1
        <5>1. o + i = a + 1
          BY <3>1, <4>1, SMTT(30)
        <5> QED BY <3>3, <3>4, <4>1, <5>1
      <4>2. CASE i \in 1 .. k
        BY <3>1, <3>4, <4>2
      <4> QED BY <3>1, <4>1, <4>2
    <3>6. a + 1 - o = k + 1 /\ o <= a + 1
      BY <3>1
    <3>7. Between(Append(s, block(m)), n, o, a + 1, trace, said)
      <4> HIDE DEF k
      <4> QED BY <3>1, <3>4, <3>5, <3>6 DEF Between
    <3> QED BY <2>3, <3>2, <3>7 DEF o
  <2> QED BY <2>2, <2>3
<1>5. Channels(next, inn, out, trace, said)
  BY <1>2, <1>4 DEF Channels
<1> QED BY <1>5 DEF next, inn

LEMMA TakenAlong ==
  ASSUME NEW in \in [Node -> Nat], NEW out \in [Node -> Nat], NEW trace, NEW said,
         Channels(chan, in, out, trace, said),
         NEW n \in Node, CanLeave(n)
  PROVE  /\ Channels(Taken(n), in, [out EXCEPT ![n] = @ + 1], trace, said)
         /\ \A m \in Node : /\ out[n] + 1 <= in[m]
                            /\ IsBlock(Head(chan[m][n]), m, out[n] + 1, trace, said)
<1> DEFINE next == Taken(n)
           onn == [out EXCEPT ![n] = @ + 1]
<1>1. DOMAIN chan = Node /\ \A x \in Node : DOMAIN chan[x] = Node
  BY DEF Channels
<1>2. /\ DOMAIN next = Node /\ \A x \in Node : DOMAIN next[x] = Node
      /\ \A x, m \in Node : next[x][m] = IF m = n THEN Tail(chan[x][m]) ELSE chan[x][m]
  BY <1>1 DEF Taken
<1>3. onn[n] = out[n] + 1 /\ \A x \in Node \ {n} : onn[x] = out[x]
  OBVIOUS
<1> HIDE DEF next, onn
<1>4. ASSUME NEW x \in Node, NEW m \in Node
      PROVE  /\ Between(next[x][m], x, onn[m], in[x], trace, said)
             /\ m = n => out[n] + 1 <= in[x] /\ IsBlock(Head(chan[x][n]), x, out[n] + 1, trace, said)
  <2>1. Between(chan[x][m], x, out[m], in[x], trace, said)
    BY DEF Channels
  <2>2. CASE m # n
    BY <1>2, <1>3, <2>1, <2>2
  <2>3. CASE m = n
    <3> DEFINE s == chan[x][n]
               a == in[x]
               o == out[n]
               k == a - o
    <3>1. /\ a \in Nat /\ o \in Nat /\ o <= a /\ k \in Nat /\ IsSequence(s) /\ Len(s) = k
          /\ \A i \in 1 .. k : IsBlock(s[i], x, o + i, trace, said)
          /\ s # <<>>
      BY <2>1, <2>3 DEF Between, CanLeave
    <3>2. next[x][m] = Tail(s) /\ onn[m] = o + 1
      BY <1>2, <1>3, <2>3
    <3> HIDE DEF s, a, o
    <3>3. /\ IsSequence(Tail(s)) /\ k # 0 /\ Len(Tail(s)) = k - 1 /\ Head(s) = s[1]
          /\ \A i \in 1 .. k-1 : Tail(s)[i] = s[i+1]
      BY <3>1, TailOfSequence
    <3>4. o + 1 <= a /\ IsBlock(Head(s), x, o + 1, trace, said)
      BY <3>1, <3>3
    <3>5. ASSUME NEW i \in 1 .. k-1 PROVE IsBlock(Tail(s)[i], x, o + 1 + i, trace, said)
      <4>1. i + 1 \in 1 .. k /\ o + (i + 1) = o + 1 + i
        BY <3>1
      <4>2. IsBlock(s[i+1], x, o + (i + 1), trace, said)
        BY <3>1, <4>1
      <4>3. Tail(s)[i] = s[i+1]
        BY <3>3
      <4> QED BY <4>1, <4>2, <4>3
    <3>6. a - (o + 1) = k - 1
      BY <3>1
    <3>7. Between(Tail(s), x, o + 1, a, trace, said)
      <4> HIDE DEF k
      <4> QED BY <3>3, <3>4, <3>5, <3>6 DEF Between
    <3> QED BY <2>3, <3>2, <3>4, <3>7 DEF s, a, o
  <2> QED BY <2>2, <2>3
<1>5. Channels(next, in, onn, trace, said)
  BY <1>2, <1>4 DEF Channels
<1> QED BY <1>4, <1>5 DEF next, onn

-----------------------------------------------------------------------------
(* A node enters a collective.                                             *)

(* A history may be continued by what nodes decide after its last          *)
(* collective, once all of them have entered that one.                     *)
LEMMA Continued ==
  ASSUME NEW len, NEW trace, NEW said, NEW in, NEW out,
         HistoryOf(len, trace, said, in, out), \A n \in Node : in[n] = len
  PROVE  \E trace2, said2 :
           /\ HistoryOf(len + 1, trace2, said2, in, out)
           /\ \A i \in 0 .. len : trace2[i] = trace[i] /\ said2[i] = said[i]
<1> DEFINE k == After(trace[len], said[len])
           trace2 == [i \in Nat |-> IF i = len + 1 THEN k ELSE trace[i]]
           said2 == [i \in Nat |-> IF i = len + 1 THEN said[len] ELSE said[i]]
<1>1. History(len, trace, said) /\ Positions(len, in, out) /\ Channels(chan, in, out, trace, said)
      /\ \A n \in Node : IsAt(n, in, out, trace, said)
  BY DEF HistoryOf
<1>2. len \in Nat /\ trace \in [Nat -> Kinds] /\ in \in [Node -> Nat] /\ out \in [Node -> Nat]
  BY <1>1 DEF History, Positions
<1>3. k \in Kinds
  BY DEF After, AfterRegs, Kinds
<1> HIDE DEF k
<1>4. \A i \in 0 .. len : trace2[i] = trace[i] /\ said2[i] = said[i]
  BY <1>2
<1>5. trace2[len+1] = k /\ said2[len+1] = said[len] /\ trace2 \in [Nat -> Kinds]
  BY <1>2, <1>3
<1> HIDE DEF trace2, said2
<1>6. History(len + 1, trace2, said2)
  <2>1. ASSUME NEW i \in 0 .. len
        PROVE  /\ trace2[i+1] = After(trace2[i], said2[i])
               /\ trace2[i+1] # "info" => said2[i+1] = said2[i]
    <3>1. CASE i = len
      BY <1>2, <1>4, <1>5, <3>1 DEF k
    <3>2. CASE i \in 0 .. len-1
      <4>1. i + 1 \in 0 .. len
        BY <1>2, <3>2
      <4> QED BY <1>1, <1>4, <3>2, <4>1 DEF History
    <3> QED BY <1>2, <3>1, <3>2
  <2>2. len + 1 \in Nat /\ (len + 1) - 1 = len /\ 0 \in 0 .. len
    BY <1>2
  <2> QED BY <1>1, <1>4, <1>5, <2>1, <2>2 DEF History
<1>7. Positions(len + 1, in, out)
  BY <1>1, <1>2 DEF Positions
<1>8. Channels(chan, in, out, trace2, said2)
  <2> SUFFICES ASSUME NEW n \in Node, NEW m \in Node
               PROVE  Between(chan[n][m], n, out[m], in[n], trace2, said2)
    BY <1>1 DEF Channels
  <2>1. Between(chan[n][m], n, out[m], in[n], trace, said)
    BY <1>1 DEF Channels
  <2>2. in[n] = len /\ out[m] \in Nat
    BY <1>2
  <2>3. ASSUME NEW i \in 1 .. in[n] - out[m]
        PROVE  IsBlock(chan[n][m][i], n, out[m] + i, trace2, said2)
    <3>1. IsBlock(chan[n][m][i], n, out[m] + i, trace, said)
      BY <2>1 DEF Between
    <3>2. out[m] + i \in 0 .. len
      BY <1>2, <2>2
    <3> QED BY <1>4, <3>1, <3>2 DEF IsBlock
  <2> QED BY <2>1, <2>3 DEF Between
<1>9. ASSUME NEW n \in Node PROVE IsAt(n, in, out, trace2, said2)
  <2>1. in[n] \in 0 .. len
    BY <1>2
  <2>2. IsAt(n, in, out, trace, said)
    BY <1>1
  <2> QED BY <1>4, <2>1, <2>2 DEF IsAt
<1>10. HistoryOf(len + 1, trace2, said2, in, out)
  BY <1>6, <1>7, <1>8, <1>9 DEF HistoryOf
<1> QED BY <1>4, <1>10

(* When no node is behind n, the history can be taken to go on by what n   *)
(* does next.                                                              *)
LEMMA Onward ==
  ASSUME NEW len0, NEW trace0, NEW said0, NEW in, NEW out,
         HistoryOf(len0, trace0, said0, in, out),
         NEW n \in Node, \A m \in Node : in[n] <= in[m]
  PROVE  \E len, trace, said :
           /\ HistoryOf(len, trace, said, in, out)
           /\ len = in[n] + 1
           /\ trace[len] = After(trace0[in[n]], said0[in[n]])
           /\ trace[len] # "info" => said[len] = said0[in[n]]
           /\ trace[in[n]] = trace0[in[n]] /\ said[in[n]] = said0[in[n]]
<1>1. /\ History(len0, trace0, said0) /\ Positions(len0, in, out)
  BY DEF HistoryOf
<1>2. len0 \in Nat /\ \A m \in Node : in[m] <= len0 /\ len0 <= in[m] + 1 /\ in[m] \in Nat
  BY <1>1 DEF History, Positions
<1>3. CASE in[n] = len0
  <2>1. ASSUME NEW m \in Node PROVE in[m] = len0
    BY <1>2, <1>3
  <2>2. PICK trace2, said2 : /\ HistoryOf(len0 + 1, trace2, said2, in, out)
                             /\ \A i \in 0 .. len0 : trace2[i] = trace0[i] /\ said2[i] = said0[i]
    BY <2>1, Continued
  <2>3. len0 \in 0 .. len0 /\ len0 + 1 - 1 = len0
    BY <1>2
  <2>4. /\ trace2[len0+1] = After(trace2[len0], said2[len0])
        /\ trace2[len0+1] # "info" => said2[len0+1] = said2[len0]
    <3>1. History(len0 + 1, trace2, said2)
      BY <2>2 DEF HistoryOf
    <3> QED BY <2>3, <3>1 DEF History
  <2>5. trace2[len0] = trace0[len0] /\ said2[len0] = said0[len0]
    BY <2>2, <2>3
  <2> QED BY <1>3, <2>2, <2>4, <2>5
<1>4. CASE in[n] # len0
  <2>1. len0 = in[n] + 1 /\ in[n] \in 0 .. len0-1
    BY <1>2, <1>4
  <2>2. /\ trace0[in[n] + 1] = After(trace0[in[n]], said0[in[n]])
        /\ trace0[in[n] + 1] # "info" => said0[in[n] + 1] = said0[in[n]]
    BY <1>1, <2>1 DEF History
  <2> QED BY <2>1, <2>2
<1> QED BY <1>3, <1>4

(* The last exchange of flags of a history is still open to a node that    *)
(* has not entered it: what it will say can be put down.                   *)
LEMMA PutDown ==
  ASSUME NEW len, NEW trace, NEW said, NEW in, NEW out,
         HistoryOf(len, trace, said, in, out),
         NEW n \in Node, in[n] # len, trace[len] = "info", NEW S, NEW f \in S
  PROVE  \E said2 : HistoryOf(len, trace, said2, in, out) /\ said2[len][n] = f
<1> DEFINE said2 == [i \in Nat |-> IF i = len THEN [m \in Node |-> IF m = n THEN f ELSE said[i][m]]
                                  ELSE said[i]]
<1>1. History(len, trace, said) /\ Positions(len, in, out) /\ Channels(chan, in, out, trace, said)
      /\ \A m \in Node : IsAt(m, in, out, trace, said)
  BY DEF HistoryOf
<1>2. len \in Nat /\ len - 1 \in Nat /\ in[n] = len - 1 /\ len = in[n] + 1
      /\ trace \in [Nat -> Kinds] /\ in \in [Node -> Nat] /\ out \in [Node -> Nat]
  BY <1>1 DEF History, Positions
<1>3. /\ said2[len][n] = f
      /\ \A m \in Node \ {n} : said2[len][m] = said[len][m]
      /\ \A i \in 0 .. len-1 : said2[i] = said[i]
  BY <1>2
<1> HIDE DEF said2
<1>4. History(len, trace, said2)
  <2>1. ASSUME NEW i \in 0 .. len-1
        PROVE  /\ trace[i+1] = After(trace[i], said2[i])
               /\ trace[i+1] # "info" => said2[i+1] = said2[i]
    <3>1. CASE i = len - 1
      <4>1. i + 1 = len
        BY <1>2, <3>1
      <4> QED BY <1>1, <1>3, <4>1 DEF History
    <3>2. CASE i \in 0 .. len-2
      <4>1. i + 1 \in 0 .. len-1
        BY <1>2, <3>2
      <4> QED BY <1>1, <1>3, <4>1 DEF History
    <3> QED BY <1>2, <3>1, <3>2
  <2> QED BY <1>1, <2>1 DEF History
<1>5. Channels(chan, in, out, trace, said2)
  <2> SUFFICES ASSUME NEW x \in Node, NEW m \in Node
               PROVE  Between(chan[x][m], x, out[m], in[x], trace, said2)
    BY <1>1 DEF Channels
  <2>1. Between(chan[x][m], x, out[m], in[x], trace, said)
    BY <1>1 DEF Channels
  <2>2. in[x] <= len /\ in[x] \in Nat /\ out[m] \in Nat
    BY <1>1, <1>2 DEF Positions
  <2>3. ASSUME NEW i \in 1 .. in[x] - out[m]
        PROVE  IsBlock(chan[x][m][i], x, out[m] + i, trace, said2)
    <3>1. IsBlock(chan[x][m][i], x, out[m] + i, trace, said)
      BY <2>1 DEF Between
    <3>2. CASE out[m] + i = len
      <4>1. x # n
        BY <1>2, <2>2, <3>2
      <4> QED BY <1>3, <3>1, <3>2, <4>1 DEF IsBlock
    <3>3. CASE out[m] + i # len
      <4>1. out[m] + i \in 0 .. len-1
        BY <1>2, <2>2, <3>3
      <4> QED BY <1>3, <3>1, <4>1 DEF IsBlock
    <3> QED BY <3>2, <3>3
  <2> QED BY <2>1, <2>3 DEF Between
<1>6. ASSUME NEW m \in Node PROVE IsAt(m, in, out, trace, said2)
  <2>1. IsAt(m, in, out, trace, said)
    BY <1>1
  <2>2. in[m] \in Nat /\ in[m] <= len /\ out[m] \in Nat /\ out[m] <= len - 1
    <3>1. Between(chan[n][m], n, out[m], in[n], trace, said)
      BY <1>1 DEF Channels
    <3> QED BY <1>1, <1>2, <3>1 DEF Positions, Between
  <2>3. CASE in[m] = len
    <3>1. pc[m] # "compute" /\ pc[m] # "reg"
      BY <1>2, <2>1, <2>2, <2>3 DEF IsAt
    <3> QED BY <2>1, <3>1 DEF IsAt
  <2>4. CASE in[m] # len
    <3>1. in[m] \in 0 .. len-1
      BY <1>2, <2>2, <2>4
    <3> QED BY <1>3, <2>1, <3>1 DEF IsAt
  <2> QED BY <2>3, <2>4
<1>7. HistoryOf(len, trace, said2, in, out)
  BY <1>1, <1>4, <1>5, <1>6 DEF HistoryOf
<1> QED BY <1>3, <1>7

(* A node enters the exchange of the flags.                                *)
LEMMA Enters ==
  ASSUME OneHistory, NEW n \in Node, pc[n] = "compute", NEW f,
         chan' = Sent(chan, n, "info", [m \in Node |-> f]),
         pc' = [pc EXCEPT ![n] = "info"], exch' = exch
  PROVE  OneHistory'
<1>1. PICK len0, trace0, said0, in, out : HistoryOf(len0, trace0, said0, in, out)
  BY DEF OneHistory
<1>2. ControlType
  BY DEF OneHistory
<1>3. \E len, trace, said :
        HistoryOf(len, trace, said, in, out) /\ len = in[n] + 1 /\ trace[len] = "info"
  <2>1. /\ History(len0, trace0, said0) /\ Positions(len0, in, out)
        /\ Channels(chan, in, out, trace0, said0) /\ IsAt(n, in, out, trace0, said0)
    BY <1>1 DEF HistoryOf
  <2>2. len0 \in Nat /\ in \in [Node -> Nat] /\ out \in [Node -> Nat] /\ in[n] = out[n]
        /\ After(trace0[in[n]], said0[in[n]]) = "info"
        /\ \A m \in Node : in[m] <= len0 /\ len0 <= in[m] + 1 /\ in[m] \in Nat
    BY <2>1 DEF History, Positions, IsAt
  <2>3. ASSUME NEW m \in Node PROVE in[n] <= in[m]
    BY <2>1, <2>2 DEF Channels, Between
  <2>4. PICK len, trace, said :
          /\ HistoryOf(len, trace, said, in, out) /\ len = in[n] + 1
          /\ trace[len] = After(trace0[in[n]], said0[in[n]])
    BY <1>1, <2>3, Onward
  <2> QED BY <2>2, <2>4
<1>4. PICK len, trace, said1 :
        HistoryOf(len, trace, said1, in, out) /\ len = in[n] + 1 /\ trace[len] = "info"
  BY <1>3
<1>5. PICK said : HistoryOf(len, trace, said, in, out) /\ said[len][n] = f
  <2>1. HistoryOf(len, trace, said1, in, out) /\ trace[len] = "info"
    BY <1>4
  <2>2. in[n] # len
    <3>1. in[n] \in Nat
      BY <2>1 DEF HistoryOf, Positions
    <3> QED BY <1>4, <3>1
  <2> DEFINE S == {f}
  <2>3. f \in S
    OBVIOUS
  <2> HIDE DEF S
  <2> QED BY <2>1, <2>2, <2>3, PutDown
<1>6. /\ History(len, trace, said) /\ Positions(len, in, out)
      /\ Channels(chan, in, out, trace, said)
      /\ \A m \in Node : IsAt(m, in, out, trace, said)
  BY <1>5 DEF HistoryOf
<1>7. len \in Nat /\ in \in [Node -> Nat] /\ out \in [Node -> Nat]
  BY <1>6 DEF History, Positions
<1> DEFINE inn == [in EXCEPT ![n] = @ + 1]
           blocks == [m \in Node |-> f]
<1>8. inn \in [Node -> Nat] /\ inn[n] = len /\ \A m \in Node \ {n} : inn[m] = in[m]
  BY <1>4, <1>7
<1>9. Channels(chan', inn, out, trace, said)
  <2>1. \A m \in Node : blocks[m] = said[in[n] + 1][n]
    BY <1>4, <1>5
  <2>2. "info" = trace[in[n] + 1]
    BY <1>4
  <2> HIDE DEF blocks
  <2>3. Channels(Sent(chan, n, "info", blocks), inn, out, trace, said)
    BY <1>6, <1>7, <2>1, <2>2, SentAlong
  <2> QED BY <2>3 DEF blocks
<1> HIDE DEF inn
<1>10. Positions(len, inn, out)
  BY <1>6, <1>7, <1>8 DEF Positions
<1>11. ASSUME NEW m \in Node PROVE IsAt(m, inn, out, trace, said)'
  <2>1. IsAt(m, in, out, trace, said)
    BY <1>6
  <2>2. CASE m = n
    <3>1. pc'[n] = "info" /\ in[n] = out[n]
      BY <1>2, <2>1, <2>2 DEF ControlType, IsAt
    <3> QED BY <1>4, <1>8, <2>2, <3>1 DEF IsAt
  <2>3. CASE m # n
    <3>1. pc'[m] = pc[m] /\ inn[m] = in[m]
      BY <1>2, <1>8, <2>3 DEF ControlType
    <3> QED BY <2>1, <3>1 DEF IsAt
  <2> QED BY <2>2, <2>3
<1>12. HistoryOf(len, trace, said, inn, out)'
  BY <1>6, <1>9, <1>10, <1>11 DEF HistoryOf
<1>13. ControlType'
  BY <1>2 DEF ControlType, Kinds
<1> QED BY <1>12, <1>13 DEF OneHistory

(* A node leaves a collective.  It has the blocks of all nodes, so all of  *)
(* them have entered that collective, and the blocks are theirs.           *)
LEMMA Leaves ==
  ASSUME OneHistory, NEW n \in Node, pc[n] # "compute", CanLeave(n)
  PROVE  \E len, trace, said, in, out :
           /\ HistoryOf(len, trace, said, in, out)
           /\ in[n] # len /\ trace[in[n]] = pc[n]
           /\ trace[len] = After(pc[n], said[in[n]])
           /\ trace[len] # "info" => said[len] = said[in[n]]
           /\ pc[n] = "info" => \A m \in Node : Received(n, m) = said[in[n]][m]
           /\ pc[n] = "reg" => /\ exch[n].gets = SomeGets(said[in[n]])
                               /\ exch[n].msgs = SomeMsgs(said[in[n]])
<1>1. PICK len0, trace0, said0, in, out : HistoryOf(len0, trace0, said0, in, out)
  BY DEF OneHistory
<1>2. /\ History(len0, trace0, said0) /\ Positions(len0, in, out)
      /\ Channels(chan, in, out, trace0, said0) /\ IsAt(n, in, out, trace0, said0)
  BY <1>1 DEF HistoryOf
<1>3. /\ in \in [Node -> Nat] /\ out \in [Node -> Nat]
      /\ in[n] = out[n] + 1 /\ trace0[in[n]] = pc[n]
      /\ pc[n] = "reg" => /\ exch[n].gets = SomeGets(said0[in[n]])
                          /\ exch[n].msgs = SomeMsgs(said0[in[n]])
  BY <1>2 DEF Positions, IsAt
<1>4. \A m \in Node : /\ out[n] + 1 <= in[m]
                      /\ IsBlock(Head(chan[m][n]), m, out[n] + 1, trace0, said0)
  BY <1>2, <1>3, TakenAlong
<1>5. \A m \in Node : in[n] <= in[m]
  BY <1>3, <1>4
<1>6. PICK len, trace, said :
        /\ HistoryOf(len, trace, said, in, out)
        /\ len = in[n] + 1
        /\ trace[len] = After(trace0[in[n]], said0[in[n]])
        /\ trace[len] # "info" => said[len] = said0[in[n]]
        /\ trace[in[n]] = trace0[in[n]] /\ said[in[n]] = said0[in[n]]
  BY <1>1, <1>5, Onward
<1>7. pc[n] = "info" => \A m \in Node : Received(n, m) = said[in[n]][m]
  BY <1>3, <1>4, <1>6 DEF IsBlock, Received
<1>8. in[n] # len
  BY <1>3, <1>6
<1> QED BY <1>3, <1>6, <1>7, <1>8

(* It goes on to the collective that comes next, ... *)
ComesNext(n, kind) ==
  \E len, trace, said, in, out :
    /\ HistoryOf(len, trace, said, in, out)
    /\ in[n] # len /\ trace[len] = kind
    /\ kind = "reg" => /\ exch'[n].gets = SomeGets(said[len])
                       /\ exch'[n].msgs = SomeMsgs(said[len])

LEMMA GoesOn ==
  ASSUME OneHistory, NEW n \in Node, pc[n] # "compute", CanLeave(n),
         NEW kind \in Kinds \ {"info"},
         ComesNext(n, kind),
         NEW blocks, chan' = Sent(Taken(n), n, kind, blocks),
         pc' = [pc EXCEPT ![n] = kind],
         DOMAIN exch' = Node, \A m \in Node \ {n} : exch'[m] = exch[m]
  PROVE  OneHistory'
<1>0. PICK len, trace, said, in, out :
        /\ HistoryOf(len, trace, said, in, out)
        /\ in[n] # len /\ trace[len] = kind
        /\ kind = "reg" => /\ exch'[n].gets = SomeGets(said[len])
                           /\ exch'[n].msgs = SomeMsgs(said[len])
  BY DEF ComesNext
<1>1. /\ History(len, trace, said) /\ Positions(len, in, out)
      /\ Channels(chan, in, out, trace, said)
      /\ \A m \in Node : IsAt(m, in, out, trace, said)
  BY <1>0 DEF HistoryOf
<1>2. ControlType
  BY DEF OneHistory
<1>3. len \in Nat /\ len = in[n] + 1 /\ in \in [Node -> Nat] /\ out \in [Node -> Nat]
      /\ in[n] = out[n] + 1 /\ trace[in[n]] = pc[n]
  BY <1>0, <1>1 DEF History, Positions, IsAt
<1> DEFINE inn == [in EXCEPT ![n] = @ + 1]
           onn == [out EXCEPT ![n] = @ + 1]
<1>4. /\ inn \in [Node -> Nat] /\ inn[n] = len /\ \A m \in Node \ {n} : inn[m] = in[m]
      /\ onn \in [Node -> Nat] /\ onn[n] = out[n] + 1 /\ \A m \in Node \ {n} : onn[m] = out[m]
  BY <1>3
<1>5. Channels(Taken(n), in, onn, trace, said)
  BY <1>1, <1>3, TakenAlong
<1> HIDE DEF onn
<1>6. Channels(chan', inn, onn, trace, said)
  <2>1. kind = trace[in[n] + 1] /\ kind # "info"
    BY <1>0, <1>3
  <2> QED BY <1>3, <1>4, <1>5, <2>1, SentAlong
<1> HIDE DEF inn
<1>7. Positions(len, inn, onn)
  BY <1>1, <1>3, <1>4 DEF Positions
<1>8. ASSUME NEW m \in Node PROVE IsAt(m, inn, onn, trace, said)'
  <2>1. IsAt(m, in, out, trace, said)
    BY <1>1
  <2>2. CASE m = n
    <3>1. pc'[n] = kind /\ kind # "compute" /\ inn[n] = onn[n] + 1
      BY <1>2, <1>3, <1>4 DEF ControlType, Kinds
    <3> QED BY <1>0, <1>4, <2>2, <3>1 DEF IsAt
  <2>3. CASE m # n
    <3>1. pc'[m] = pc[m] /\ inn[m] = in[m] /\ onn[m] = out[m] /\ exch'[m] = exch[m]
      BY <1>2, <1>4, <2>3 DEF ControlType
    <3> QED BY <2>1, <3>1 DEF IsAt
  <2> QED BY <2>2, <2>3
<1>9. HistoryOf(len, trace, said, inn, onn)'
  BY <1>1, <1>6, <1>7, <1>8 DEF HistoryOf
<1>10. ControlType'
  BY <1>2, <1>3 DEF ControlType
<1> QED BY <1>9, <1>10 DEF OneHistory

(* ... or returns to the program, when that one is in the next bsp_sync.   *)
LEMMA Returns ==
  ASSUME OneHistory, NEW n \in Node, pc[n] # "compute", CanLeave(n),
         NEW len, NEW trace, NEW said, NEW in, NEW out,
         HistoryOf(len, trace, said, in, out),
         After(pc[n], said[in[n]]) = "info",
         chan' = Taken(n), pc' = [pc EXCEPT ![n] = "compute"],
         DOMAIN exch' = Node, \A m \in Node \ {n} : exch'[m] = exch[m]
  PROVE  OneHistory'
<1>1. /\ History(len, trace, said) /\ Positions(len, in, out)
      /\ Channels(chan, in, out, trace, said)
      /\ \A m \in Node : IsAt(m, in, out, trace, said)
  BY DEF HistoryOf
<1>2. ControlType
  BY DEF OneHistory
<1>3. in \in [Node -> Nat] /\ out \in [Node -> Nat] /\ in[n] = out[n] + 1 /\ trace[in[n]] = pc[n]
  BY <1>1 DEF Positions, IsAt
<1> DEFINE onn == [out EXCEPT ![n] = @ + 1]
<1>4. onn \in [Node -> Nat] /\ onn[n] = in[n] /\ \A m \in Node \ {n} : onn[m] = out[m]
  BY <1>3
<1>5. Channels(chan', in, onn, trace, said)
  BY <1>1, <1>3, TakenAlong
<1> HIDE DEF onn
<1>6. Positions(len, in, onn)
  BY <1>1, <1>3, <1>4 DEF Positions
<1>7. ASSUME NEW m \in Node PROVE IsAt(m, in, onn, trace, said)'
  <2>1. IsAt(m, in, out, trace, said)
    BY <1>1
  <2>2. CASE m = n
    <3>1. pc'[n] = "compute"
      BY <1>2 DEF ControlType
    <3> QED BY <1>3, <1>4, <2>2, <3>1 DEF IsAt
  <2>3. CASE m # n
    <3>1. pc'[m] = pc[m] /\ onn[m] = out[m] /\ exch'[m] = exch[m]
      BY <1>2, <1>4, <2>3 DEF ControlType
    <3> QED BY <2>1, <3>1 DEF IsAt
  <2> QED BY <2>2, <2>3
<1>8. HistoryOf(len, trace, said, in, onn)'
  BY <1>1, <1>5, <1>6, <1>7 DEF HistoryOf
<1>9. ControlType'
  BY <1>2 DEF ControlType
<1> QED BY <1>8, <1>9 DEF OneHistory

-----------------------------------------------------------------------------
(* The actions. *)

LEMMA ControlUnchanged ==
  ASSUME OneHistory, UNCHANGED <<pc, exch, chan>>
  PROVE  OneHistory'
<1>1. PICK len, trace, said, in, out : HistoryOf(len, trace, said, in, out)
  BY DEF OneHistory
<1>2. \A n \in Node : IsAt(n, in, out, trace, said)' <=> IsAt(n, in, out, trace, said)
  BY DEF IsAt
<1>3. HistoryOf(len, trace, said, in, out)'
  BY <1>1, <1>2 DEF HistoryOf
<1>4. ControlType'
  BY DEF OneHistory, ControlType
<1> QED BY <1>3, <1>4 DEF OneHistory

LEMMA InitOneHistory == Init => OneHistory
<1> SUFFICES ASSUME Init PROVE OneHistory
  OBVIOUS
<1> DEFINE trace == [i \in Nat |-> "deliv"]
           zero == [n \in Node |-> 0]
<1>1. History(0, trace, 0)
  BY DEF History, Kinds
<1>2. Positions(0, zero, zero)
  BY DEF Positions
<1>3. Channels(chan, zero, zero, trace, 0)
  <2>1. DOMAIN chan = Node /\ \A n \in Node : DOMAIN chan[n] = Node
    BY DEF Init
  <2>2. \A n, m \in Node : chan[n][m] = <<>>
    BY DEF Init
  <2>3. \A n, m \in Node : Between(chan[n][m], n, zero[m], zero[n], trace, 0)
    BY <2>2, EmptyIsSequence DEF Between
  <2> HIDE DEF zero
  <2> QED BY <2>1, <2>3 DEF Channels
<1>4. \A n \in Node : IsAt(n, zero, zero, trace, 0)
  BY DEF Init, IsAt, After
<1>5. ControlType
  BY DEF Init, ControlType
<1> HIDE DEF trace, zero
<1>6. HistoryOf(0, trace, 0, zero, zero)
  BY <1>1, <1>2, <1>3, <1>4 DEF HistoryOf
<1> QED BY <1>5, <1>6 DEF OneHistory

LEMMA EnterSyncKeeps ==
  ASSUME OneHistory, NEW n \in Node, EnterSync(n)
  PROVE  OneHistory'
<1>1. CASE aborted'
  <2>1. UNCHANGED <<pc, exch, chan>>
    BY <1>1 DEF EnterSync, Abort, Computing
  <2> QED BY <2>1, ControlUnchanged
<1>2. CASE ~aborted'
  <2> DEFINE f == [gets |-> Requesting(n), msgs |-> Delivering(n),
                   regs |-> {Len(requests[p]) : p \in On(n)}]
  <2>1. /\ pc[n] = "compute" /\ exch' = exch /\ pc' = [pc EXCEPT ![n] = "info"]
        /\ chan' = Sent(chan, n, "info", [m \in Node |-> f])
    BY <1>2 DEF EnterSync, Abort, Computing
  <2> HIDE DEF f
  <2> QED BY <2>1, Enters
<1> QED BY <1>1, <1>2

(* The exchanges of requests and deliveries, after those of flags and      *)
(* registrations.                                                          *)
LEMMA ProceedKeeps ==
  ASSUME OneHistory, NEW n \in Node, pc[n] # "compute", CanLeave(n),
         NEW len, NEW trace, NEW said, NEW in, NEW out,
         HistoryOf(len, trace, said, in, out), in[n] # len,
         trace[len] = After(pc[n], said[in[n]]),
         After(pc[n], said[in[n]]) = AfterRegs(said[in[n]]),
         exch'[n].gets = SomeGets(said[in[n]]),
         exch'[n].msgs = SomeMsgs(said[in[n]]),
         DOMAIN exch' = Node, \A m \in Node \ {n} : exch'[m] = exch[m],
         Proceed(n)
  PROVE  OneHistory'
<1> DEFINE f == said[in[n]]
<1>1. trace[len] = AfterRegs(f)
  OBVIOUS
<1>2. CASE SomeGets(f)
  <2>1. trace[len] = "req"
    BY <1>1, <1>2 DEF AfterRegs
  <2>2. PICK blocks : chan' = Sent(Taken(n), n, "req", blocks)
    BY <1>2 DEF Proceed
  <2>3. pc' = [pc EXCEPT ![n] = "req"]
    BY <1>2 DEF Proceed
  <2>4. "req" \in Kinds \ {"info"}
    BY DEF Kinds
  <2>5. ComesNext(n, "req")
    BY <2>1 DEF ComesNext
  <2> QED BY <2>2, <2>3, <2>4, <2>5, GoesOn
<1>3. CASE ~SomeGets(f) /\ SomeMsgs(f)
  <2>1. trace[len] = "deliv"
    BY <1>1, <1>3 DEF AfterRegs
  <2>2. PICK blocks : chan' = Sent(Taken(n), n, "deliv", blocks)
    BY <1>3 DEF Proceed
  <2>3. pc' = [pc EXCEPT ![n] = "deliv"]
    BY <1>3 DEF Proceed
  <2>4. "deliv" \in Kinds \ {"info"}
    BY DEF Kinds
  <2>5. ComesNext(n, "deliv")
    BY <2>1 DEF ComesNext
  <2> QED BY <2>2, <2>3, <2>4, <2>5, GoesOn
<1>4. CASE ~SomeGets(f) /\ ~SomeMsgs(f)
  <2>1. After(pc[n], f) = "info"
    BY <1>1, <1>4 DEF AfterRegs
  <2>2. chan' = Taken(n) /\ pc' = [pc EXCEPT ![n] = "compute"]
    BY <1>4 DEF Proceed, Finish
  <2> QED BY <2>1, <2>2, Returns
<1> QED BY <1>2, <1>3, <1>4

LEMMA LeaveInfoKeeps ==
  ASSUME OneHistory, NEW n \in Node, LeaveInfo(n)
  PROVE  OneHistory'
<1>1. pc[n] = "info" /\ pc[n] # "compute" /\ CanLeave(n)
  BY DEF LeaveInfo
<1>2. PICK len, trace, said, in, out :
        /\ HistoryOf(len, trace, said, in, out)
        /\ in[n] # len
        /\ trace[len] = After(pc[n], said[in[n]])
        /\ trace[len] # "info" => said[len] = said[in[n]]
        /\ \A m \in Node : Received(n, m) = said[in[n]][m]
  BY <1>1, Leaves
<1> DEFINE f == said[in[n]]
<1>3. DOMAIN exch = Node /\ exch' = [exch EXCEPT ![n] = Flags(n)]
  BY DEF OneHistory, ControlType, LeaveInfo
<1>4. exch'[n] = Flags(n) /\ DOMAIN exch' = Node /\ \A m \in Node \ {n} : exch'[m] = exch[m]
  BY <1>3
<1>5. Flags(n).gets = SomeGets(f) /\ Flags(n).msgs = SomeMsgs(f)
  BY <1>2 DEF Flags, SomeGets, SomeMsgs
<1>6. SomeRegs(f) <=> Registrations(n) > 0
  <2>1. {f[m].regs : m \in Node} = {Received(n, m).regs : m \in Node}
    BY <1>2
  <2> HIDE DEF f
  <2> QED BY <2>1 DEF SomeRegs, Registrations
<1>7. CASE Registrations(n) > 0
  <2>1. trace[len] = "reg" /\ said[len] = f
    BY <1>1, <1>2, <1>6, <1>7 DEF After
  <2>2. PICK blocks : chan' = Sent(Taken(n), n, "reg", blocks) /\ pc' = [pc EXCEPT ![n] = "reg"]
    BY <1>7 DEF LeaveInfo
  <2>3. exch'[n].gets = SomeGets(said[len]) /\ exch'[n].msgs = SomeMsgs(said[len])
    BY <1>4, <1>5, <2>1
  <2>4. "reg" \in Kinds \ {"info"}
    BY DEF Kinds
  <2>5. ComesNext(n, "reg")
    BY <1>2, <2>1, <2>3 DEF ComesNext
  <2> QED BY <1>1, <1>4, <2>2, <2>4, <2>5, GoesOn
<1>8. CASE ~(Registrations(n) > 0)
  <2>1. After(pc[n], f) = AfterRegs(f)
    BY <1>1, <1>6, <1>8 DEF After
  <2>2. Proceed(n)
    BY <1>8 DEF LeaveInfo
  <2> QED BY <1>1, <1>2, <1>4, <1>5, <2>1, <2>2, ProceedKeeps
<1> QED BY <1>7, <1>8

LEMMA LeaveRegKeeps ==
  ASSUME OneHistory, NEW n \in Node, LeaveReg(n)
  PROVE  OneHistory'
<1>1. pc[n] = "reg" /\ pc[n] # "compute" /\ CanLeave(n)
  BY DEF LeaveReg
<1>2. CASE Abort
  BY <1>2, ControlUnchanged DEF Abort
<1>3. CASE exch' = exch /\ Proceed(n)
  <2>1. PICK len, trace, said, in, out :
          /\ HistoryOf(len, trace, said, in, out)
          /\ in[n] # len
          /\ trace[len] = After(pc[n], said[in[n]])
          /\ exch[n].gets = SomeGets(said[in[n]])
          /\ exch[n].msgs = SomeMsgs(said[in[n]])
    BY <1>1, Leaves
  <2>2. After(pc[n], said[in[n]]) = AfterRegs(said[in[n]])
    BY <1>1 DEF After
  <2>3. DOMAIN exch' = Node
    BY <1>3 DEF OneHistory, ControlType
  <2>4. exch'[n].gets = SomeGets(said[in[n]]) /\ exch'[n].msgs = SomeMsgs(said[in[n]])
        /\ \A m \in Node \ {n} : exch'[m] = exch[m]
    BY <1>3, <2>1
  <2> QED BY <1>1, <1>3, <2>1, <2>2, <2>3, <2>4, ProceedKeeps
<1>4. Abort \/ (exch' = exch /\ Proceed(n))
  BY DEF LeaveReg
<1> QED BY <1>2, <1>3, <1>4

LEMMA LeaveReqKeeps ==
  ASSUME OneHistory, NEW n \in Node, LeaveReq(n)
  PROVE  OneHistory'
<1>1. pc[n] = "req" /\ pc[n] # "compute" /\ CanLeave(n)
  BY DEF LeaveReq
<1>2. PICK len, trace, said, in, out :
        /\ HistoryOf(len, trace, said, in, out)
        /\ in[n] # len /\ trace[len] = After(pc[n], said[in[n]])
  BY <1>1, Leaves
<1>3. trace[len] = "deliv"
  BY <1>1, <1>2 DEF After
<1>4. DOMAIN exch' = Node /\ \A m \in Node \ {n} : exch'[m] = exch[m]
  BY DEF OneHistory, ControlType, LeaveReq
<1>5. PICK blocks : chan' = Sent(Taken(n), n, "deliv", blocks)
  BY DEF LeaveReq
<1>6. pc' = [pc EXCEPT ![n] = "deliv"]
  BY DEF LeaveReq
<1>7. "deliv" \in Kinds \ {"info"}
  BY DEF Kinds
<1>8. ComesNext(n, "deliv")
  BY <1>2, <1>3 DEF ComesNext
<1> QED BY <1>1, <1>4, <1>5, <1>6, <1>7, <1>8, GoesOn

LEMMA LeaveDelivKeeps ==
  ASSUME OneHistory, NEW n \in Node, LeaveDeliv(n)
  PROVE  OneHistory'
<1>1. pc[n] = "deliv" /\ pc[n] # "compute" /\ CanLeave(n)
  BY DEF LeaveDeliv
<1>2. PICK len, trace, said, in, out : HistoryOf(len, trace, said, in, out)
  BY DEF OneHistory
<1>3. After(pc[n], said[in[n]]) = "info"
  BY <1>1 DEF After
<1>4. DOMAIN exch' = Node /\ \A m \in Node \ {n} : exch'[m] = exch[m]
  BY DEF OneHistory, ControlType, LeaveDeliv
<1>5. chan' = Taken(n) /\ pc' = [pc EXCEPT ![n] = "compute"]
  BY DEF LeaveDeliv, Finish
<1> QED BY <1>1, <1>2, <1>3, <1>4, <1>5, Returns

LEMMA NextOneHistory == OneHistory /\ [Next]_vars => OneHistory'
<1> SUFFICES ASSUME OneHistory, [Next]_vars PROVE OneHistory'
  OBVIOUS
<1>1. CASE \E n \in Node : EnterSync(n) \/ InSync(n)
  BY <1>1, EnterSyncKeeps, LeaveInfoKeeps, LeaveRegKeeps, LeaveReqKeeps, LeaveDelivKeeps DEF InSync
<1>2. CASE \E p, q \in Global, a, b \in Addr :
             Put(p, q, a, b) \/ Get(p, q, a, b) \/ HpPut(p, q, a, b) \/ HpGet(p, q, a, b)
  <2>1. ASSUME NEW p \in Global, NEW q \in Global, NEW a \in Addr, NEW b \in Addr,
               Put(p, q, a, b) \/ Get(p, q, a, b) \/ HpPut(p, q, a, b) \/ HpGet(p, q, a, b)
        PROVE  UNCHANGED <<pc, exch, chan>>
    BY <2>1 DEF Put, Get, HpPut, HpGet, RemotePut, RemoteGet, Enqueue, Tabulate, Store
  <2> QED BY <1>2, <2>1, ControlUnchanged
<1>3. CASE \E p, q \in Global, body \in Payload : Send(p, q, body) \/ HpSend(p, q, body)
  <2>1. ASSUME NEW p \in Global, NEW q \in Global, NEW body \in Payload,
               Send(p, q, body) \/ HpSend(p, q, body)
        PROVE  UNCHANGED <<pc, exch, chan>>
    BY <2>1 DEF Send, HpSend, SendLocal, SendRemote, Enqueue, Tabulate
  <2> QED BY <1>3, <2>1, ControlUnchanged
<1>4. CASE \E p \in Global, a \in Addr, v \in NewVal : Write(p, a, v)
  <2>1. UNCHANGED <<pc, exch, chan>>
    BY <1>4 DEF Write, Store
  <2> QED BY <2>1, ControlUnchanged
<1>5. CASE \E p \in Global : Move(p) \/ PushReg(p) \/ PopReg(p)
  <2>1. UNCHANGED <<pc, exch, chan>>
    BY <1>5 DEF Move, PushReg, PopReg, Request, Abort, Enqueue
  <2> QED BY <2>1, ControlUnchanged
<1>6. CASE Over \/ UNCHANGED vars
  <2>1. UNCHANGED <<pc, exch, chan>>
    BY <1>6 DEF Over, vars
  <2> QED BY <2>1, ControlUnchanged
<1> QED BY <1>1, <1>2, <1>3, <1>4, <1>5, <1>6 DEF Next

(* All nodes always follow one history of collectives.                     *)
LEMMA AlwaysOneHistory == Spec => []OneHistory
BY InitOneHistory, NextOneHistory, PTL DEF Spec

(* A node never takes a block from a collective other than the one it is   *)
(* in: all nodes come to the same decisions about the exchanges of         *)
(* registrations, requests and deliveries, which bsp_sync leaves out when  *)
(* nobody needs them.                                                      *)
THEOREM NodesMeet == Spec => []CollectivesMatch
<1>1. ASSUME OneHistory PROVE CollectivesMatch
  <2>1. PICK len, trace, said, in, out : HistoryOf(len, trace, said, in, out)
    BY <1>1 DEF OneHistory
  <2> SUFFICES ASSUME NEW n \in Node, NEW m \in Node, pc[n] # "compute", chan[m][n] # <<>>
               PROVE  Head(chan[m][n]).kind = pc[n]
    BY DEF CollectivesMatch
  <2> DEFINE s == chan[m][n]
             k == in[m] - out[n]
  <2>2. /\ in[n] = out[n] + 1 /\ trace[in[n]] = pc[n]
        /\ out[n] \in Nat /\ in[m] \in Nat /\ out[n] <= in[m]
        /\ IsSequence(s) /\ Len(s) = k
        /\ \A i \in 1 .. k : IsBlock(s[i], m, out[n] + i, trace, said)
    BY <2>1 DEF HistoryOf, Positions, Channels, Between, IsAt
  <2> HIDE DEF s
  <2>3. Len(s) > 0 /\ Head(s) = s[1]
    BY <2>2, TailOfSequence, LongerThanEmpty DEF s
  <2>4. 1 \in 1 .. k
    BY <2>2, <2>3
  <2>5. IsBlock(s[1], m, out[n] + 1, trace, said)
    BY <2>2, <2>4
  <2>6. Head(s).kind = pc[n]
    BY <2>2, <2>3, <2>5 DEF IsBlock
  <2> QED BY <2>6 DEF s
<1> QED BY <1>1, AlwaysOneHistory, PTL

-----------------------------------------------------------------------------
(* What the parts of the state are made of. *)

Memory == [Global -> [Addr -> Val]]
Value == [dst : Location, val : Val]
Copy == [src : Location, dst : Location]
Tagged == [lp : Nat, message : Letter]
Registered == [at : [Global -> Addr], serial : Nat]
Requested == [addr : Addr, serial : Nat, push : BOOLEAN]
Register == Seq(Registered)
Deliveries == [put : Seq(Value), send : Seq(Tagged)]
Queues == [hpputs : Seq(Copy), puts : Seq(Value), send : Seq(Letter), move : Seq(Letter)]

LEMMA AtTyped ==
  ASSUME NEW m \in Memory, NEW l \in Location
  PROVE  At(m, l) \in Val /\ l[1] \in Global /\ l[2] \in Addr
<1>1. l[1] \in Global /\ l[2] \in Addr
  BY DEF Location
<1> QED BY <1>1 DEF At, Memory

LEMMA StoredTyped ==
  ASSUME NEW m \in Memory, NEW l \in Location, NEW v \in Val
  PROVE  Stored(m, l, v) \in Memory
<1> DEFINE q == l[1]
           a == l[2]
<1>1. q \in Global /\ a \in Addr
  BY AtTyped
<1>2. [m EXCEPT ![q][a] = v] \in Memory
  <2> HIDE DEF q, a
  <2> QED BY <1>1 DEF Memory
<1> QED BY <1>2 DEF Stored

(* The writes and the copies of a queue, each a fold of the community      *)
(* modules.                                                                *)
LEMMA PutsTyped ==
  ASSUME NEW m \in Memory, NEW puts \in Seq(Value)
  PROVE  AfterPuts(m, puts) \in Memory
<1> DEFINE n == Len(puts)
           w(mm, d) == Stored(mm, d.dst, d.val)
           g == [md \in Memory \X Value |-> w(md[1], md[2])]
           P(f) == f = [s \in SUBSET (1 .. n) |->
                          IF s = {} THEN m ELSE w(f[s \ {Max(s)}], puts[Max(s)])]
           iter == CHOOSE f : P(f)
<1>1. n \in Nat /\ puts \in Listing(n, Value) /\ DOMAIN puts = 1 .. n
  BY LenProperties DEF Listing
<1>2. AfterPuts(m, puts) = iter[1 .. n]
  BY <1>1, Zenon DEF AfterPuts, FoldLeft, MapThenFoldSet
<1> HIDE DEF n
<1>3. \A mm \in Memory, d \in Value : w(mm, d) \in Memory
  BY StoredTyped DEF Value
<1> HIDE DEF w
<1>4. g \in Steps(Memory, Value) /\ \A mm \in Memory, d \in Value : g[<<mm, d>>] = w(mm, d)
  BY <1>3 DEF Steps
<1> HIDE DEF g
<1>5. PICK it : Recurs(it, Memory, g, m, n, puts)
  BY <1>1, <1>4, SubsetRecursion
<1>6. \A k \in 1 .. n : puts[k] \in Value
  BY <1>1 DEF Listing
<1>7. P([s \in SUBSET (1 .. n) |-> it[s]])
  BY <1>4, <1>5, <1>6 DEF Recurs
<1>8. P(iter)
  <2> HIDE DEF P
  <2> QED BY <1>7
<1>9. Follows(iter, Memory, g, m, n, puts)
  <2> HIDE DEF iter
  <2>1. ASSUME NEW s \in SUBSET (1 .. n)
        PROVE  iter[s] = IF s = {} THEN m ELSE w(iter[s \ {Max(s)}], puts[Max(s)])
    BY <1>8
  <2>2. \A s \in SUBSET (1 .. n) : s # {} => puts[Max(s)] \in Value
    BY <1>5, <1>6 DEF Recurs
  <2> HIDE DEF P
  <2> QED BY <1>4, <2>1, <2>2 DEF Follows
<1> HIDE DEF iter, P
<1>10. iter[1 .. n] \in Memory
  <2>1. PICK h \in [0 .. n -> Memory] : h[n] = iter[1 .. n]
    BY <1>1, <1>4, <1>9, SegmentsInOrder
  <2> QED BY <1>1, <2>1
<1> QED BY <1>2, <1>10

LEMMA CopiesTyped ==
  ASSUME NEW m \in Memory, NEW copies \in Seq(Copy)
  PROVE  AfterCopies(m, copies) \in Memory
<1> DEFINE n == Len(copies)
           w(mm, d) == Stored(mm, d.dst, At(mm, d.src))
           g == [md \in Memory \X Copy |-> w(md[1], md[2])]
           P(f) == f = [s \in SUBSET (1 .. n) |->
                          IF s = {} THEN m ELSE w(f[s \ {Max(s)}], copies[Max(s)])]
           iter == CHOOSE f : P(f)
<1>1. n \in Nat /\ copies \in Listing(n, Copy) /\ DOMAIN copies = 1 .. n
  BY LenProperties DEF Listing
<1>2. AfterCopies(m, copies) = iter[1 .. n]
  BY <1>1, Zenon DEF AfterCopies, FoldLeft, MapThenFoldSet
<1> HIDE DEF n
<1>3. ASSUME NEW mm \in Memory, NEW d \in Copy PROVE w(mm, d) \in Memory
  <2>1. d.src \in Location /\ d.dst \in Location
    BY DEF Copy
  <2> DEFINE l == d.dst
             v == At(mm, d.src)
  <2>2. v \in Val
    BY <2>1, AtTyped
  <2>3. Stored(mm, l, v) \in Memory
    <3>1. l \in Location
      BY <2>1
    <3> HIDE DEF l, v
    <3> QED BY <2>2, <3>1, StoredTyped
  <2> QED BY <2>3
<1> HIDE DEF w
<1>4. g \in Steps(Memory, Copy) /\ \A mm \in Memory, d \in Copy : g[<<mm, d>>] = w(mm, d)
  BY <1>3 DEF Steps
<1> HIDE DEF g
<1>5. PICK it : Recurs(it, Memory, g, m, n, copies)
  BY <1>1, <1>4, SubsetRecursion
<1>6. \A k \in 1 .. n : copies[k] \in Copy
  BY <1>1 DEF Listing
<1>7. P([s \in SUBSET (1 .. n) |-> it[s]])
  BY <1>4, <1>5, <1>6 DEF Recurs
<1>8. P(iter)
  <2> HIDE DEF P
  <2> QED BY <1>7
<1>9. Follows(iter, Memory, g, m, n, copies)
  <2> HIDE DEF iter
  <2>1. ASSUME NEW s \in SUBSET (1 .. n)
        PROVE  iter[s] = IF s = {} THEN m ELSE w(iter[s \ {Max(s)}], copies[Max(s)])
    BY <1>8
  <2>2. \A s \in SUBSET (1 .. n) : s # {} => copies[Max(s)] \in Copy
    BY <1>5, <1>6 DEF Recurs
  <2> HIDE DEF P
  <2> QED BY <1>4, <2>1, <2>2 DEF Follows
<1> HIDE DEF iter, P
<1>10. iter[1 .. n] \in Memory
  <2>1. PICK h \in [0 .. n -> Memory] : h[n] = iter[1 .. n]
    BY <1>1, <1>4, <1>9, SegmentsInOrder
  <2> QED BY <1>1, <2>1
<1> QED BY <1>2, <1>10

LEMMA ExecuteTyped ==
  ASSUME local \in [Global -> Queues], NEW m \in Memory, NEW p \in Global
  PROVE  Execute(m, p) \in Memory
<1>1. local[p].hpputs \in Seq(Copy) /\ local[p].puts \in Seq(Value)
  BY DEF Queues
<1> QED BY <1>1, CopiesTyped, PutsTyped DEF Execute

LEMMA QueuesTyped ==
  ASSUME local \in [Global -> Queues], NEW m \in Memory, NEW ps \in Seq(Global)
  PROVE  FoldLeft(Execute, m, ps) \in Memory
<1> DEFINE n == Len(ps)
           g == [md \in Memory \X Global |-> Execute(md[1], md[2])]
           P(f) == f = [s \in SUBSET (1 .. n) |->
                          IF s = {} THEN m ELSE Execute(f[s \ {Max(s)}], ps[Max(s)])]
           iter == CHOOSE f : P(f)
<1>1. n \in Nat /\ ps \in Listing(n, Global) /\ DOMAIN ps = 1 .. n
  BY LenProperties DEF Listing
<1>2. FoldLeft(Execute, m, ps) = iter[1 .. n]
  BY <1>1, Zenon DEF FoldLeft, MapThenFoldSet
<1> HIDE DEF n
<1>3. \A mm \in Memory, d \in Global : Execute(mm, d) \in Memory
  BY ExecuteTyped
<1>4. g \in Steps(Memory, Global) /\ \A mm \in Memory, d \in Global : g[<<mm, d>>] = Execute(mm, d)
  BY <1>3 DEF Steps
<1> HIDE DEF g
<1>5. PICK it : Recurs(it, Memory, g, m, n, ps)
  BY <1>1, <1>4, SubsetRecursion
<1>6. \A k \in 1 .. n : ps[k] \in Global
  BY <1>1 DEF Listing
<1>7. P([s \in SUBSET (1 .. n) |-> it[s]])
  BY <1>4, <1>5, <1>6 DEF Recurs
<1>8. P(iter)
  <2> HIDE DEF P
  <2> QED BY <1>7
<1>9. Follows(iter, Memory, g, m, n, ps)
  <2> HIDE DEF iter
  <2>1. ASSUME NEW s \in SUBSET (1 .. n)
        PROVE  iter[s] = IF s = {} THEN m ELSE Execute(iter[s \ {Max(s)}], ps[Max(s)])
    BY <1>8
  <2>2. \A s \in SUBSET (1 .. n) : s # {} => ps[Max(s)] \in Global
    BY <1>5, <1>6 DEF Recurs
  <2> HIDE DEF P
  <2> QED BY <1>4, <2>1, <2>2 DEF Follows
<1> HIDE DEF iter, P
<1>10. iter[1 .. n] \in Memory
  <2>1. PICK h \in [0 .. n -> Memory] : h[n] = iter[1 .. n]
    BY <1>1, <1>4, <1>9, SegmentsInOrder
  <2> QED BY <1>1, <2>1
<1> QED BY <1>2, <1>10

(* What has arrived of one kind, column after column. *)
LEMMA ArrivedTyped ==
  ASSUME NEW n \in Node, NEW type, NEW T, \A m \in Node : Received(n, m)[type] \in Seq(T)
  PROVE  Arrived(n, type) \in Seq(T)
<1> DEFINE nodes == [i \in 1 .. nprocs |-> i - 1]
           none == <<>>
           w(all, m) == all \o Received(n, m)[type]
           g == [am \in Seq(T) \X Node |-> w(am[1], am[2])]
           P(f) == f = [s \in SUBSET (1 .. nprocs) |->
                          IF s = {} THEN none ELSE w(f[s \ {Max(s)}], nodes[Max(s)])]
           iter == CHOOSE f : P(f)
<1>1. nprocs \in Nat /\ nodes \in Listing(nprocs, Node) /\ DOMAIN nodes = 1 .. nprocs /\ none \in Seq(T)
  BY CountsAssumption DEF Listing, Node
<1>2. Arrived(n, type) = iter[1 .. nprocs]
  BY <1>1, Zenon DEF Arrived, FoldLeft, MapThenFoldSet
<1> HIDE DEF nodes, none
<1>3. \A all \in Seq(T), m \in Node : w(all, m) \in Seq(T)
  BY ConcatProperties
<1> HIDE DEF w
<1>4. g \in Steps(Seq(T), Node) /\ \A all \in Seq(T), m \in Node : g[<<all, m>>] = w(all, m)
  BY <1>3 DEF Steps
<1> HIDE DEF g
<1>5. PICK it : Recurs(it, Seq(T), g, none, nprocs, nodes)
  BY <1>1, <1>4, SubsetRecursion
<1>6. \A k \in 1 .. nprocs : nodes[k] \in Node
  BY <1>1 DEF Listing
<1>7. P([s \in SUBSET (1 .. nprocs) |-> it[s]])
  BY <1>4, <1>5, <1>6 DEF Recurs
<1>8. P(iter)
  <2> HIDE DEF P
  <2> QED BY <1>7
<1>9. Follows(iter, Seq(T), g, none, nprocs, nodes)
  <2> HIDE DEF iter
  <2>1. ASSUME NEW s \in SUBSET (1 .. nprocs)
        PROVE  iter[s] = IF s = {} THEN none ELSE w(iter[s \ {Max(s)}], nodes[Max(s)])
    BY <1>8
  <2>2. \A s \in SUBSET (1 .. nprocs) : s # {} => nodes[Max(s)] \in Node
    BY <1>5, <1>6 DEF Recurs
  <2> HIDE DEF P
  <2> QED BY <1>4, <2>1, <2>2 DEF Follows
<1> HIDE DEF iter, P
<1>10. iter[1 .. nprocs] \in Seq(T)
  <2>1. PICK h \in [0 .. nprocs -> Seq(T)] : h[nprocs] = iter[1 .. nprocs]
    BY <1>1, <1>4, <1>9, SegmentsInOrder
  <2> QED BY <1>1, <2>1
<1> QED BY <1>2, <1>10

(* The messages for a context, behind those it has. *)
LEMMA BehindTyped ==
  ASSUME NEW queue \in Seq(Letter), NEW p, NEW ms \in Seq(Tagged)
  PROVE  Behind(queue, p, ms) \in Seq(Letter)
<1> DEFINE n == Len(ms)
           w(q, s) == IF s.lp = Local(p) THEN Append(q, s.message) ELSE q
           g == [qs \in Seq(Letter) \X Tagged |-> w(qs[1], qs[2])]
           P(f) == f = [t \in SUBSET (1 .. n) |->
                          IF t = {} THEN queue ELSE w(f[t \ {Max(t)}], ms[Max(t)])]
           iter == CHOOSE f : P(f)
<1>1. n \in Nat /\ ms \in Listing(n, Tagged) /\ DOMAIN ms = 1 .. n
  BY LenProperties DEF Listing
<1>2. Behind(queue, p, ms) = iter[1 .. n]
  BY <1>1, Zenon DEF Behind, FoldLeft, MapThenFoldSet
<1> HIDE DEF n
<1>3. \A q \in Seq(Letter), s \in Tagged : w(q, s) \in Seq(Letter)
  BY AppendProperties DEF Tagged
<1> HIDE DEF w
<1>4. g \in Steps(Seq(Letter), Tagged) /\ \A q \in Seq(Letter), s \in Tagged : g[<<q, s>>] = w(q, s)
  BY <1>3 DEF Steps
<1> HIDE DEF g
<1>5. PICK it : Recurs(it, Seq(Letter), g, queue, n, ms)
  BY <1>1, <1>4, SubsetRecursion
<1>6. \A k \in 1 .. n : ms[k] \in Tagged
  BY <1>1 DEF Listing
<1>7. P([t \in SUBSET (1 .. n) |-> it[t]])
  BY <1>4, <1>5, <1>6 DEF Recurs
<1>8. P(iter)
  <2> HIDE DEF P
  <2> QED BY <1>7
<1>9. Follows(iter, Seq(Letter), g, queue, n, ms)
  <2> HIDE DEF iter
  <2>1. ASSUME NEW t \in SUBSET (1 .. n)
        PROVE  iter[t] = IF t = {} THEN queue ELSE w(iter[t \ {Max(t)}], ms[Max(t)])
    BY <1>8
  <2>2. \A t \in SUBSET (1 .. n) : t # {} => ms[Max(t)] \in Tagged
    BY <1>5, <1>6 DEF Recurs
  <2> HIDE DEF P
  <2> QED BY <1>4, <2>1, <2>2 DEF Follows
<1> HIDE DEF iter, P
<1>10. iter[1 .. n] \in Seq(Letter)
  <2>1. PICK h \in [0 .. n -> Seq(Letter)] : h[n] = iter[1 .. n]
    BY <1>1, <1>4, <1>9, SegmentsInOrder
  <2> QED BY <1>1, <2>1
<1> QED BY <1>2, <1>10

-----------------------------------------------------------------------------
(* The registers. *)

Posed(m, all) == \A q \in Global : \A k \in 1 .. m : all[q][k] \in Requested

(* The row found is one of the register's, and there is one if any has the *)
(* address.                                                                *)
LEMMA RowFound ==
  ASSUME NEW rows \in Register, NEW p, NEW a, HasRow(rows, p, a)
  PROVE  /\ Row(rows, p, a) \in 1 .. Len(rows) /\ Len(rows) \in Nat
         /\ DOMAIN rows = 1 .. Len(rows)
         /\ rows[Row(rows, p, a)] \in Registered
<1> DEFINE n == Len(rows)
           S == {i \in 1 .. n : rows[i].at[p] = a}
<1>1. n \in Nat /\ DOMAIN rows = 1 .. n
  BY LenProperties DEF Register
<1>2. S \in SUBSET (0 .. n) /\ S # {}
  BY <1>1 DEF HasRow
<1>3. Max(S) \in S /\ \A j \in S : j <= Max(S)
  <2> HIDE DEF S, n
  <2> QED BY <1>1, <1>2, MaxOfInterval
<1>4. \E i \in DOMAIN rows : rows[i].at[p] = a /\ \A j \in DOMAIN rows : rows[j].at[p] = a => j <= i
  <2> DEFINE i == Max(S)
  <2> HIDE DEF i
  <2>1. i \in S /\ \A j \in S : j <= i
    BY <1>3 DEF i
  <2> QED BY <1>1, <2>1
<1>5. Row(rows, p, a) \in DOMAIN rows
  BY <1>4 DEF Row
<1>6. rows[Row(rows, p, a)] \in Registered
  BY <1>5, ElementOfSeq, <1>1 DEF Register
<1> QED BY <1>1, <1>5, <1>6

LEMMA PopTyped ==
  ASSUME NEW rows \in Register, NEW p, NEW a
  PROVE  PopAddress(rows, p, a) \in Register
<1>1. CASE ~HasRow(rows, p, a)
  BY <1>1 DEF PopAddress
<1>2. CASE HasRow(rows, p, a)
  <2> DEFINE i == Row(rows, p, a)
             n == Len(rows)
  <2>1. i \in 1 .. n /\ n \in Nat
    BY <1>2, RowFound
  <2> HIDE DEF i
  <2>2. SubSeq(rows, 1, i-1) \in Register /\ SubSeq(rows, i+1, n) \in Register
    <3>1. \A k \in 1 .. n : rows[k] \in Registered
      BY ElementOfSeq DEF Register
    <3>2. /\ \A k \in 1 .. i-1 : rows[k] \in Registered
          /\ \A k \in i+1 .. n : rows[k] \in Registered
      BY <2>1, <3>1
    <3> QED BY <2>1, <3>2, SubSeqProperties DEF Register
  <2>3. RemoveAt(rows, i) \in Register
    BY <2>2, ConcatProperties DEF RemoveAt, Register
  <2> QED BY <1>2, <2>3 DEF PopAddress, i
<1> QED BY <1>1, <1>2

LEMMA ProcessedTyped ==
  ASSUME NEW rows \in Register, NEW p \in Global, NEW m, NEW all, Posed(m, all), NEW k \in 1 .. m
  PROVE  Processed(rows, p, all, k) \in Register
<1>1. PopRow(rows, p, all, k) \in Register
  BY PopTyped DEF PopRow
<1>2. PushRow(rows, p, all, k) \in Register
  <2> DEFINE row == [at |-> [q \in Global |-> all[q][k].addr], serial |-> all[p][k].serial]
  <2>1. \A q \in Global : all[q][k].addr \in Addr /\ all[q][k].serial \in Nat
    BY DEF Posed, Requested
  <2>2. row \in Registered
    BY <2>1 DEF Registered
  <2> HIDE DEF row
  <2>3. Append(rows, row) \in Register
    BY <2>2, AppendProperties DEF Register
  <2> QED BY <2>3 DEF PushRow, row
<1> QED BY <1>1, <1>2 DEF Processed

(* The requests are processed in order. *)
LEMMA RequestsInOrder ==
  ASSUME NEW rows \in Register, NEW p \in Global, NEW m \in Nat, NEW all, Posed(m, all)
  PROVE  \E h \in [0 .. m -> Register] :
           /\ h[0] = rows /\ h[m] = RegAfter(rows, p, all, m)
           /\ \A k \in 1 .. m : h[k] = Processed(h[k-1], p, all, k)
<1> DEFINE D == 1 .. m
           ks == [i \in 1 .. m |-> i]
           g == [rk \in Register \X D |-> Processed(rk[1], p, all, rk[2])]
           P(f) == f = [s \in SUBSET (1 .. m) |->
                          IF s = {} THEN rows ELSE Processed(f[s \ {Max(s)}], p, all, ks[Max(s)])]
           iter == CHOOSE f : P(f)
<1>1. ks \in Listing(m, D) /\ DOMAIN ks = 1 .. m
  BY DEF Listing
<1>2. RegAfter(rows, p, all, m) = iter[1 .. m]
  BY <1>1, Zenon DEF RegAfter, FoldLeft, MapThenFoldSet
<1>3. (\A k \in 1 .. m : ks[k] = k) /\ (\A k \in 1 .. m : ks[k] \in D)
  OBVIOUS
<1> HIDE DEF ks
<1>0. \A r \in Register, k \in D : Processed(r, p, all, k) \in Register
  BY ProcessedTyped
<1> HIDE DEF D
<1>4. /\ g \in Steps(Register, D)
      /\ \A r \in Register, k \in D : g[<<r, k>>] = Processed(r, p, all, k)
  BY <1>0 DEF Steps
<1> HIDE DEF g
<1>5. PICK it : Recurs(it, Register, g, rows, m, ks)
  BY <1>1, <1>4, SubsetRecursion
<1>6. \A k \in 1 .. m : ks[k] \in D
  BY <1>3
<1>11. P([s \in SUBSET (1 .. m) |-> it[s]])
  BY <1>4, <1>5, <1>6 DEF Recurs
<1>7. P(iter)
  <2> HIDE DEF P
  <2> QED BY <1>11
<1>8. Follows(iter, Register, g, rows, m, ks)
  <2> HIDE DEF iter
  <2>1. ASSUME NEW s \in SUBSET (1 .. m)
        PROVE  iter[s] = IF s = {} THEN rows ELSE Processed(iter[s \ {Max(s)}], p, all, ks[Max(s)])
    BY <1>7
  <2>2. \A s \in SUBSET (1 .. m) : s # {} => ks[Max(s)] \in D
    BY <1>5, <1>6 DEF Recurs
  <2> HIDE DEF P
  <2> QED BY <1>4, <2>1, <2>2 DEF Follows
<1> HIDE DEF iter, P
<1>9. PICK h \in [0 .. m -> Register] :
        /\ h[0] = rows /\ h[m] = iter[1 .. m]
        /\ \A k \in 1 .. m : h[k-1] \in Register /\ ks[k] \in D /\ h[k] = g[<<h[k-1], ks[k]>>]
  <2>1. g \in Steps(Register, D) /\ ks \in Listing(m, D)
    BY <1>1, <1>4
  <2>2. \E h \in [0 .. m -> Register] :
          /\ h[0] = rows /\ h[m] = iter[1 .. m]
          /\ \A k \in 1 .. m : h[k-1] \in Register /\ ks[k] \in D /\ h[k] = g[<<h[k-1], ks[k]>>]
    BY <1>8, <2>1, SegmentsInOrder
  <2> QED BY <2>2
<1>10. ASSUME NEW k \in 1 .. m PROVE h[k] = Processed(h[k-1], p, all, k)
  <2>1. h[k-1] \in Register /\ ks[k] \in D /\ h[k] = g[<<h[k-1], ks[k]>>]
    BY <1>9
  <2>2. h[k] = Processed(h[k-1], p, all, ks[k])
    BY <1>4, <2>1
  <2> QED BY <1>3, <2>2
<1> QED BY <1>2, <1>9, <1>10

LEMMA RegisterSteps ==
  ASSUME NEW rows \in Register, NEW p \in Global, NEW m \in Nat, NEW all, Posed(m, all)
  PROVE  /\ RegAfter(rows, p, all, 0) = rows
         /\ \A k \in 0 .. m : RegAfter(rows, p, all, k) \in Register
         /\ \A k \in 1 .. m :
              RegAfter(rows, p, all, k) = Processed(RegAfter(rows, p, all, k-1), p, all, k)
<1> DEFINE ran(h, k) == /\ h \in [0 .. k -> Register] /\ h[0] = rows
                        /\ \A i \in 1 .. k : h[i] = Processed(h[i-1], p, all, i)
<1>1. ASSUME NEW k \in 0 .. m PROVE \E h : ran(h, k) /\ h[k] = RegAfter(rows, p, all, k)
  <2>1. k \in Nat /\ Posed(k, all)
    BY DEF Posed
  <2> QED BY <2>1, RequestsInOrder
<1>2. RegAfter(rows, p, all, 0) = rows
  <2>1. 0 \in 0 .. m
    OBVIOUS
  <2> QED BY <1>1, <2>1
<1>3. ASSUME NEW k \in 0 .. m PROVE RegAfter(rows, p, all, k) \in Register
  <2>1. k \in 0 .. k
    OBVIOUS
  <2> QED BY <1>1, <2>1
<1>4. ASSUME NEW k \in 1 .. m
      PROVE  RegAfter(rows, p, all, k) = Processed(RegAfter(rows, p, all, k-1), p, all, k)
  <2>1. k \in 0 .. m /\ k - 1 \in 0 .. m /\ k - 1 \in Nat /\ k \in 1 .. k
    OBVIOUS
  <2>2. PICK h : ran(h, k) /\ h[k] = RegAfter(rows, p, all, k)
    BY <1>1, <2>1
  <2>3. PICK f : ran(f, k-1) /\ f[k-1] = RegAfter(rows, p, all, k-1)
    BY <1>1, <2>1
  <2>4. GoTogether(f, h, k-1)
    BY <2>1, <2>2, <2>3 DEF GoTogether
  <2>5. f[k-1] = h[k-1]
    BY <2>1, <2>4, RecursionsAgree
  <2> QED BY <2>1, <2>2, <2>3, <2>5
<1> HIDE DEF ran
<1> QED BY <1>2, <1>3, <1>4

-----------------------------------------------------------------------------
(* Processors and nodes. *)

LEMMA HomeAndLocal ==
  ASSUME NEW p \in Global
  PROVE  Home(p) \in Node /\ Local(p) \in Nat
<1>1. processors \in Nat /\ nprocs \in Nat \ {0} /\ p \in 0 .. processors-1
  BY CountsAssumption DEF Global
<1>2. /\ Home(p) \in Node
      /\ Home(p) * ICD(processors, nprocs) \in Nat
      /\ Home(p) * ICD(processors, nprocs) <= p
  BY <1>1, BlockOf DEF Home, Node
<1> DEFINE h == Home(p) * ICD(processors, nprocs)
<1>3. p - h \in Nat
  <2> HIDE DEF h
  <2> QED BY <1>1, <1>2 DEF h
<1> QED BY <1>2, <1>3 DEF Local, LocalOf, Home

(* The contexts of a node, in the order of their local numbers. *)
LEMMA ContextsTyped ==
  ASSUME NEW n \in Node
  PROVE  Contexts(n) \in Seq(Global)
<1> DEFINE c == Cardinality(On(n))
<1>1. processors \in Nat /\ nprocs \in Nat \ {0} /\ n \in Nat
  BY CountsAssumption DEF Node
<1>2. On(n) = Dealt(processors, nprocs, n)
  BY DEF On, Home, Global, Dealt
<1>3. c \in Nat /\ \A i \in 1 .. c : \E p \in On(n) : Local(p) = i - 1
  BY <1>1, <1>2, PlacesOfNode DEF Local
<1> HIDE DEF c
<1>4. ASSUME NEW i \in 1 .. c PROVE Context(n, i - 1) \in Global
  <2>1. Context(n, i - 1) \in On(n)
    BY <1>3 DEF Context
  <2> QED BY <2>1 DEF On
<1>5. [i \in 1 .. c |-> Context(n, i - 1)] \in Seq(Global)
  BY <1>3, <1>4, IsASeq
<1> QED BY <1>5 DEF Contexts, c

-----------------------------------------------------------------------------
(***************************************************************************)
(* Types.  What has been sent and not yet received is typed by the kind of *)
(* the collective it was given to; a node takes a block from the           *)
(* collective it is in, as CollectivesMatch says, so that it finds what it *)
(* expects there.                                                          *)
(***************************************************************************)
TypedBlock(b, n) ==
  /\ b.kind = "reg" => b.body \in [On(n) -> Seq(Requested)]
  /\ b.kind = "req" => b.body \in Seq(Copy)
  /\ b.kind = "deliv" => b.body \in Deliveries
TypedBlocks(blocks, n) == IsSequence(blocks) /\ \A i \in 1 .. Len(blocks) : TypedBlock(blocks[i], n)
Filled(ch) ==
  /\ DOMAIN ch = Node /\ \A n \in Node : DOMAIN ch[n] = Node
  /\ \A n, m \in Node : TypedBlocks(ch[n][m], n)

ControlTyped ==
  /\ pc \in [Node -> {"compute", "info", "reg", "req", "deliv"}]
  /\ step \in [Node -> 0 .. Len(program.coll)]
  /\ program \in Programs /\ calls \in 0 .. program.most
  /\ done \in [Global -> Nat]
  /\ exch \in [Node -> [gets : BOOLEAN, msgs : BOOLEAN]]
  /\ aborted \in BOOLEAN
  /\ \A n \in Node : pc[n] # "compute" => step[n] < Len(program.coll)
TablesTyped ==
  /\ reqTab \in [Node -> [Node -> Seq(Copy)]]
  /\ delTab \in [Node -> [Node -> Deliveries]]
ContextsOK ==
  /\ mem \in Memory
  /\ reg \in [Global -> Register]
  /\ requests \in [Global -> Seq(Requested)]
  /\ local \in [Global -> Queues]
TypeInv == ControlTyped /\ TablesTyped /\ ContextsOK /\ Filled(chan)

LEMMA TypesMean == ControlTyped /\ TablesTyped /\ ContextsOK => TypeOK
BY DEF ControlTyped, TablesTyped, ContextsOK, TypeOK, Memory, Register, Registered, Requested,
       Queues, Copy, Value, Tagged, Deliveries

LEMMA ProgramTyped ==
  ASSUME NEW prog \in Programs
  PROVE  /\ prog.most \in Nat
         /\ Len(prog.coll) \in Nat
         /\ \A s \in 1 .. Len(prog.coll) : prog.coll[s] \in [Global -> Seq(Registration)]
<1>1. prog.coll \in Seq([Global -> Seq(Registration)]) /\ prog.most \in Nat
  BY ProgramsAssumption
<1> QED BY <1>1, LenProperties, ElementOfSeq

LEMMA SentTyped ==
  ASSUME NEW ch, Filled(ch), NEW n \in Node, NEW kind, NEW blocks,
         \A m \in Node : TypedBlock([kind |-> kind, body |-> blocks[m]], n)
  PROVE  Filled(Sent(ch, n, kind, blocks))
<1> DEFINE next == Sent(ch, n, kind, blocks)
           block(m) == [kind |-> kind, body |-> blocks[m]]
<1>1. /\ DOMAIN next = Node /\ \A x \in Node : DOMAIN next[x] = Node
      /\ \A x, m \in Node : next[x][m] = IF x = n THEN Append(ch[x][m], block(m)) ELSE ch[x][m]
  BY DEF Sent, Filled
<1>2. \A m \in Node : TypedBlock(block(m), n)
  OBVIOUS
<1> HIDE DEF next, block
<1>3. ASSUME NEW x \in Node, NEW m \in Node PROVE TypedBlocks(next[x][m], x)
  <2>1. TypedBlocks(ch[x][m], x)
    BY DEF Filled
  <2>2. CASE x # n
    BY <1>1, <2>1, <2>2
  <2>3. CASE x = n
    <3> DEFINE s == ch[n][m]
    <3>1. IsSequence(s) /\ \A i \in 1 .. Len(s) : TypedBlock(s[i], n)
      BY <2>1, <2>3 DEF TypedBlocks
    <3> HIDE DEF s
    <3>2. /\ IsSequence(Append(s, block(m))) /\ Len(s) \in Nat
          /\ Len(Append(s, block(m))) = Len(s) + 1
          /\ Append(s, block(m))[Len(s) + 1] = block(m)
          /\ \A i \in 1 .. Len(s) : Append(s, block(m))[i] = s[i]
      BY <3>1, AppendToSequence
    <3>3. TypedBlocks(Append(s, block(m)), n)
      BY <1>2, <3>1, <3>2 DEF TypedBlocks
    <3> QED BY <1>1, <2>3, <3>3 DEF s
  <2> QED BY <2>2, <2>3
<1>4. Filled(next)
  BY <1>1, <1>3 DEF Filled
<1> QED BY <1>4 DEF next

LEMMA TakenTyped ==
  ASSUME Filled(chan), CollectivesMatch, NEW n \in Node, pc[n] # "compute", CanLeave(n)
  PROVE  /\ Filled(Taken(n))
         /\ \A m \in Node : TypedBlock([kind |-> pc[n], body |-> Received(n, m)], m)
<1> DEFINE next == Taken(n)
<1>1. /\ DOMAIN next = Node /\ \A x \in Node : DOMAIN next[x] = Node
      /\ \A x, m \in Node : next[x][m] = IF m = n THEN Tail(chan[x][m]) ELSE chan[x][m]
  BY DEF Taken, Filled
<1> HIDE DEF next
<1>2. ASSUME NEW x \in Node, NEW m \in Node
      PROVE  /\ TypedBlocks(next[x][m], x)
             /\ m = n => TypedBlock(Head(chan[x][n]), x) /\ Head(chan[x][n]).kind = pc[n]
  <2>1. TypedBlocks(chan[x][m], x)
    BY DEF Filled
  <2>2. CASE m # n
    BY <1>1, <2>1, <2>2
  <2>3. CASE m = n
    <3> DEFINE s == chan[x][n]
    <3>1. IsSequence(s) /\ s # <<>> /\ \A i \in 1 .. Len(s) : TypedBlock(s[i], x)
      BY <2>1, <2>3 DEF TypedBlocks, CanLeave
    <3>2. Head(s).kind = pc[n]
      BY <3>1 DEF CollectivesMatch
    <3> HIDE DEF s
    <3>3. /\ IsSequence(Tail(s)) /\ Len(s) \in Nat \ {0} /\ Len(Tail(s)) = Len(s) - 1
          /\ Head(s) = s[1] /\ \A i \in 1 .. Len(s) - 1 : Tail(s)[i] = s[i+1]
      BY <3>1, TailOfSequence
    <3>4. \A i \in 1 .. Len(s) - 1 : i + 1 \in 1 .. Len(s)
      BY <3>3
    <3>5. TypedBlocks(Tail(s), x)
      BY <3>1, <3>3, <3>4 DEF TypedBlocks
    <3>6. TypedBlock(Head(s), x)
      BY <3>1, <3>3
    <3> QED BY <1>1, <2>3, <3>2, <3>5, <3>6 DEF s
  <2> QED BY <2>2, <2>3
<1>3. Filled(next)
  BY <1>1, <1>2 DEF Filled
<1>4. \A m \in Node : TypedBlock([kind |-> pc[n], body |-> Received(n, m)], m)
  BY <1>2 DEF TypedBlock, Received
<1> QED BY <1>3, <1>4 DEF next

-----------------------------------------------------------------------------
(* The calls of the tasks. *)

LEMMA CallTyped ==
  ASSUME TypeInv, NEW p, NEW call, MayCall(p, call),
         UNCHANGED <<pc, step, program, done, reg, requests, exch, chan, aborted>>,
         mem' \in Memory, local' \in [Global -> Queues], TablesTyped'
  PROVE  TypeInv'
<1>1. calls' \in 0 .. program.most
  BY ProgramTyped DEF TypeInv, ControlTyped, MayCall
<1>2. ControlTyped'
  BY <1>1 DEF TypeInv, ControlTyped
<1>3. ContextsOK'
  BY DEF TypeInv, ContextsOK
<1>4. Filled(chan')
  BY DEF TypeInv
<1>5. Filled(chan)'
  BY <1>4 DEF Filled
<1> QED BY <1>2, <1>3, <1>5 DEF TypeInv

LEMMA EnqueueTyped ==
  ASSUME TypeInv, NEW p, NEW call, MayCall(p, call), NEW l \in [Global -> Queues], Enqueue(l)
  PROVE  TypeInv'
<1>1. mem' \in Memory /\ TablesTyped'
  BY DEF TypeInv, ContextsOK, TablesTyped, Enqueue, table
<1> QED BY <1>1, CallTyped DEF Enqueue

LEMMA StoreTyped ==
  ASSUME TypeInv, NEW p, NEW call, MayCall(p, call), NEW m \in Memory, Store(m)
  PROVE  TypeInv'
<1>1. local' \in [Global -> Queues] /\ TablesTyped'
  BY DEF TypeInv, ContextsOK, TablesTyped, Store, table
<1> QED BY <1>1, CallTyped DEF Store

LEMMA TabulateTyped ==
  ASSUME TypeInv, NEW p, NEW call, MayCall(p, call),
         NEW del \in [Node -> [Node -> Deliveries]], NEW req \in [Node -> [Node -> Seq(Copy)]],
         Tabulate(del, req)
  PROVE  TypeInv'
<1>1. mem' \in Memory /\ local' \in [Global -> Queues] /\ TablesTyped'
  BY DEF TypeInv, ContextsOK, TablesTyped, Tabulate
<1> QED BY <1>1, CallTyped DEF Tabulate

LEMMA FindTyped ==
  ASSUME TypeInv, NEW p \in Global, NEW q \in Global, NEW a, HasRow(reg[p], p, a)
  PROVE  Find(p, q, a) \in Location
<1>1. reg[p] \in Register
  BY DEF TypeInv, ContextsOK
<1>2. reg[p][Row(reg[p], p, a)].at[q] \in Addr
  BY <1>1, RowFound DEF Registered
<1> QED BY <1>2 DEF Find, Location

(* One more value, copy or message. *)
LEMMA AppendsTyped ==
  ASSUME TypeInv
  PROVE  /\ \A p \in Global, d \in Value : [local EXCEPT ![p].puts = Append(@, d)] \in [Global -> Queues]
         /\ \A p \in Global, c \in Copy : [local EXCEPT ![p].hpputs = Append(@, c)] \in [Global -> Queues]
         /\ \A p \in Global, s \in Letter : [local EXCEPT ![p].send = Append(@, s)] \in [Global -> Queues]
         /\ \A n, m \in Node, d \in Value :
              [delTab EXCEPT ![n][m].put = Append(@, d)] \in [Node -> [Node -> Deliveries]]
         /\ \A n, m \in Node, s \in Tagged :
              [delTab EXCEPT ![n][m].send = Append(@, s)] \in [Node -> [Node -> Deliveries]]
         /\ \A n, m \in Node, c \in Copy :
              [reqTab EXCEPT ![n][m] = Append(@, c)] \in [Node -> [Node -> Seq(Copy)]]
<1>1. local \in [Global -> Queues]
  BY DEF TypeInv, ContextsOK
<1>2. delTab \in [Node -> [Node -> Deliveries]] /\ reqTab \in [Node -> [Node -> Seq(Copy)]]
  BY DEF TypeInv, TablesTyped
<1>3. ASSUME NEW p \in Global, NEW d \in Value
      PROVE  [local EXCEPT ![p].puts = Append(@, d)] \in [Global -> Queues]
  <2>1. Append(local[p].puts, d) \in Seq(Value)
    BY <1>1, AppendProperties DEF Queues
  <2> QED BY <1>1, <2>1 DEF Queues
<1>4. ASSUME NEW p \in Global, NEW c \in Copy
      PROVE  [local EXCEPT ![p].hpputs = Append(@, c)] \in [Global -> Queues]
  <2>1. Append(local[p].hpputs, c) \in Seq(Copy)
    BY <1>1, AppendProperties DEF Queues
  <2> QED BY <1>1, <2>1 DEF Queues
<1>5. ASSUME NEW p \in Global, NEW s \in Letter
      PROVE  [local EXCEPT ![p].send = Append(@, s)] \in [Global -> Queues]
  <2>1. Append(local[p].send, s) \in Seq(Letter)
    BY <1>1, AppendProperties DEF Queues
  <2> QED BY <1>1, <2>1 DEF Queues
<1>6. ASSUME NEW n \in Node, NEW m \in Node, NEW d \in Value
      PROVE  [delTab EXCEPT ![n][m].put = Append(@, d)] \in [Node -> [Node -> Deliveries]]
  <2> DEFINE e == delTab[n][m]
             w == [e EXCEPT !.put = Append(@, d)]
  <2>1. e \in Deliveries
    BY <1>2
  <2>2. w \in Deliveries
    <3> HIDE DEF e
    <3> QED BY <2>1, AppendProperties DEF Deliveries
  <2>3. [delTab EXCEPT ![n][m] = w] \in [Node -> [Node -> Deliveries]]
    <3> HIDE DEF w
    <3> QED BY <1>2, <2>2
  <2> QED BY <2>3, Zenon
<1>7. ASSUME NEW n \in Node, NEW m \in Node, NEW s \in Tagged
      PROVE  [delTab EXCEPT ![n][m].send = Append(@, s)] \in [Node -> [Node -> Deliveries]]
  <2> DEFINE e == delTab[n][m]
             w == [e EXCEPT !.send = Append(@, s)]
  <2>1. e \in Deliveries
    BY <1>2
  <2>2. w \in Deliveries
    <3> HIDE DEF e
    <3> QED BY <2>1, AppendProperties DEF Deliveries
  <2>3. [delTab EXCEPT ![n][m] = w] \in [Node -> [Node -> Deliveries]]
    <3> HIDE DEF w
    <3> QED BY <1>2, <2>2
  <2> QED BY <2>3, Zenon
<1>8. ASSUME NEW n \in Node, NEW m \in Node, NEW c \in Copy
      PROVE  [reqTab EXCEPT ![n][m] = Append(@, c)] \in [Node -> [Node -> Seq(Copy)]]
  BY <1>2
<1> QED BY <1>3, <1>4, <1>5, <1>6, <1>7, <1>8

LEMMA RemoteTyped ==
  ASSUME TypeInv, NEW p \in Global, NEW q \in Global, NEW src \in Addr, NEW dst \in Addr,
         NEW call, MayCall(p, call)
  PROVE  /\ HasRow(reg[p], p, dst) /\ RemotePut(p, q, src, dst) => TypeInv'
         /\ HasRow(reg[p], p, src) /\ RemoteGet(p, q, src, dst) => TypeInv'
<1>1. Home(p) \in Node /\ Home(q) \in Node
  BY HomeAndLocal
<1>2. delTab \in [Node -> [Node -> Deliveries]] /\ reqTab \in [Node -> [Node -> Seq(Copy)]]
  BY DEF TypeInv, TablesTyped
<1>3. CASE HasRow(reg[p], p, dst) /\ RemotePut(p, q, src, dst)
  <2> DEFINE d == [dst |-> Find(p, q, dst), val |-> mem[p][src]]
  <2>1. d \in Value
    BY <1>3, FindTyped DEF Value, TypeInv, ContextsOK, Memory
  <2> HIDE DEF d
  <2>2. [delTab EXCEPT ![Home(p)][Home(q)].put = Append(@, d)] \in [Node -> [Node -> Deliveries]]
    BY <1>1, <2>1, AppendsTyped
  <2> QED BY <1>2, <1>3, <2>2, TabulateTyped DEF RemotePut, d
<1>4. CASE HasRow(reg[p], p, src) /\ RemoteGet(p, q, src, dst)
  <2> DEFINE c == [src |-> Find(p, q, src), dst |-> <<p, dst>>]
  <2>1. c \in Copy
    BY <1>4, FindTyped DEF Copy, Location
  <2> HIDE DEF c
  <2>2. [reqTab EXCEPT ![Home(p)][Home(q)] = Append(@, c)] \in [Node -> [Node -> Seq(Copy)]]
    BY <1>1, <2>1, AppendsTyped
  <2> QED BY <1>2, <1>4, <2>2, TabulateTyped DEF RemoteGet, c
<1> QED BY <1>3, <1>4

LEMMA DrmaTyped ==
  ASSUME TypeInv, NEW p \in Global, NEW q \in Global, NEW a \in Addr, NEW b \in Addr,
         Put(p, q, a, b) \/ Get(p, q, a, b) \/ HpPut(p, q, a, b) \/ HpGet(p, q, a, b)
  PROVE  TypeInv'
<1>1. mem \in Memory
  BY DEF TypeInv, ContextsOK
<1>2. <<p, a>> \in Location /\ <<p, b>> \in Location
  BY DEF Location
<1>3. CASE Put(p, q, a, b)
  <2> DEFINE d == [dst |-> Find(p, q, b), val |-> mem[p][a]]
  <2>1. MayCall(p, "put") /\ HasRow(reg[p], p, b)
    BY <1>3 DEF Put, MayCallFor
  <2>2. d \in Value
    BY <1>1, <2>1, FindTyped DEF Value, Memory
  <2> HIDE DEF d
  <2>3. [local EXCEPT ![p].puts = Append(@, d)] \in [Global -> Queues]
    BY <2>2, AppendsTyped
  <2>4. CASE Enqueue([local EXCEPT ![p].puts = Append(@, d)])
    BY <2>1, <2>3, <2>4, EnqueueTyped
  <2>5. CASE RemotePut(p, q, a, b)
    BY <2>1, <2>5, RemoteTyped
  <2> QED BY <1>3, <2>4, <2>5 DEF Put, d
<1>4. CASE Get(p, q, a, b)
  <2> DEFINE c == [src |-> Find(p, q, a), dst |-> <<p, b>>]
  <2>1. MayCall(p, "get") /\ HasRow(reg[p], p, a)
    BY <1>4 DEF Get, MayCallFor
  <2>2. c \in Copy
    BY <1>2, <2>1, FindTyped DEF Copy
  <2> HIDE DEF c
  <2>3. [local EXCEPT ![p].hpputs = Append(@, c)] \in [Global -> Queues]
    BY <2>2, AppendsTyped
  <2>4. CASE Enqueue([local EXCEPT ![p].hpputs = Append(@, c)])
    BY <2>1, <2>3, <2>4, EnqueueTyped
  <2>5. CASE RemoteGet(p, q, a, b)
    BY <2>1, <2>5, RemoteTyped
  <2> QED BY <1>4, <2>4, <2>5 DEF Get, c
<1>5. CASE HpPut(p, q, a, b)
  <2>1. MayCall(p, "hpput") /\ HasRow(reg[p], p, b)
    BY <1>5 DEF HpPut, MayCallFor
  <2>2. Find(p, q, b) \in Location /\ mem[p][a] \in Val
    BY <1>1, <2>1, FindTyped DEF Memory
  <2>3. Stored(mem, Find(p, q, b), mem[p][a]) \in Memory
    BY <1>1, <2>2, StoredTyped
  <2>4. CASE Store(Stored(mem, Find(p, q, b), mem[p][a]))
    BY <2>1, <2>3, <2>4, StoreTyped
  <2>5. CASE RemotePut(p, q, a, b)
    BY <2>1, <2>5, RemoteTyped
  <2> QED BY <1>5, <2>4, <2>5 DEF HpPut
<1>6. CASE HpGet(p, q, a, b)
  <2> DEFINE l == Find(p, q, a)
             v == At(mem, l)
  <2>1. MayCall(p, "hpget") /\ HasRow(reg[p], p, a)
    BY <1>6 DEF HpGet, MayCallFor
  <2>2. l \in Location
    BY <2>1, FindTyped
  <2> HIDE DEF l
  <2>3. v \in Val
    BY <1>1, <2>2, AtTyped
  <2> HIDE DEF v
  <2>4. Stored(mem, <<p, b>>, v) \in Memory
    BY <1>1, <1>2, <2>3, StoredTyped
  <2>5. CASE Store(Stored(mem, <<p, b>>, v))
    BY <2>1, <2>4, <2>5, StoreTyped
  <2>6. CASE RemoteGet(p, q, a, b)
    BY <2>1, <2>6, RemoteTyped
  <2> QED BY <1>6, <2>5, <2>6 DEF HpGet, l, v
<1> QED BY <1>3, <1>4, <1>5, <1>6

LEMMA MessagesTyped ==
  ASSUME TypeInv, NEW p \in Global, NEW q \in Global, NEW body \in Payload,
         Send(p, q, body) \/ HpSend(p, q, body)
  PROVE  TypeInv'
<1> DEFINE s == Message(p, body)
           t == [lp |-> Local(q), message |-> s]
<1>1. s \in Letter
  BY DEF Message, Letter
<1>2. t \in Tagged
  BY <1>1, HomeAndLocal DEF Tagged
<1>3. Home(p) \in Node /\ Home(q) \in Node
  BY HomeAndLocal
<1>4. PICK call : MayCall(p, call)
  BY DEF Send, HpSend, MayCallFor
<1>5. reqTab \in [Node -> [Node -> Seq(Copy)]]
  BY DEF TypeInv, TablesTyped
<1>6. SendLocal(p, q, body) \/ \E c \in Node : SendRemote(p, q, c, body)
  BY <1>3 DEF Send, HpSend
<1> HIDE DEF s
<1>7. CASE SendLocal(p, q, body)
  <2>1. [local EXCEPT ![q].send = Append(@, s)] \in [Global -> Queues]
    BY <1>1, AppendsTyped
  <2> QED BY <1>4, <1>7, <2>1, EnqueueTyped DEF SendLocal, s
<1> HIDE DEF t
<1>8. ASSUME NEW c \in Node, SendRemote(p, q, c, body) PROVE TypeInv'
  <2>1. [delTab EXCEPT ![Home(p)][c].send = Append(@, t)] \in [Node -> [Node -> Deliveries]]
    BY <1>2, <1>3, AppendsTyped
  <2> QED BY <1>4, <1>5, <1>8, <2>1, TabulateTyped DEF SendRemote, t, s
<1> QED BY <1>6, <1>7, <1>8

LEMMA WriteTyped ==
  ASSUME TypeInv, NEW p \in Global, NEW a \in Addr, NEW v \in NewVal, Write(p, a, v)
  PROVE  TypeInv'
<1>1. <<p, a>> \in Location /\ v \in Val /\ mem \in Memory
  BY MemAssumption DEF Location, TypeInv, ContextsOK
<1>2. Stored(mem, <<p, a>>, v) \in Memory
  BY <1>1, StoredTyped
<1> QED BY <1>2, StoreTyped DEF Write

LEMMA MoveTyped ==
  ASSUME TypeInv, NEW p \in Global, Move(p)
  PROVE  TypeInv'
<1>1. local \in [Global -> Queues]
  BY DEF TypeInv, ContextsOK
<1>2. local[p].move \in Seq(Letter) /\ local[p].move # <<>>
  BY <1>1 DEF Queues, Move
<1>3. Tail(local[p].move) \in Seq(Letter)
  BY <1>2, HeadTailProperties
<1>4. [local EXCEPT ![p].move = Tail(@)] \in [Global -> Queues]
  BY <1>1, <1>3 DEF Queues
<1> QED BY <1>4, EnqueueTyped DEF Move

(* Registrations, and exceptions. *)
LEMMA AbortTyped ==
  ASSUME TypeInv, Abort
  PROVE  TypeInv'
<1>1. ControlTyped' /\ TablesTyped' /\ ContextsOK' /\ chan' = chan
  BY DEF TypeInv, ControlTyped, TablesTyped, ContextsOK, Abort, table
<1>2. Filled(chan)'
  BY <1>1 DEF Filled, TypeInv
<1> QED BY <1>1, <1>2 DEF TypeInv

LEMMA RequestTyped ==
  ASSUME TypeInv, NEW p \in Global, NEW r \in Requested, Request(p, r)
  PROVE  TypeInv'
<1>1. ControlTyped'
  BY DEF TypeInv, ControlTyped, Request
<1>2. TablesTyped' /\ chan' = chan
  BY DEF TypeInv, TablesTyped, Request, table
<1>3. ContextsOK'
  BY DEF TypeInv, ContextsOK, Request
<1>4. Filled(chan)'
  BY <1>2 DEF Filled, TypeInv
<1> QED BY <1>1, <1>2, <1>3, <1>4 DEF TypeInv

LEMMA RegistrationTyped ==
  ASSUME TypeInv, NEW p \in Global, Computing(Home(p)),
         done[p] < Len(program.coll[step[Home(p)] + 1][p])
  PROVE  NextAddr(p) \in Addr
<1>1. Home(p) \in Node
  BY HomeAndLocal
<1> DEFINE s == step[Home(p)] + 1
           list == program.coll[s][p]
<1>2. program \in Programs /\ s \in 1 .. Len(program.coll) /\ done[p] \in Nat
  BY <1>1, ProgramTyped DEF TypeInv, ControlTyped, Computing
<1>3. list \in Seq(Registration)
  BY <1>2, ProgramTyped
<1>4. done[p] + 1 \in 1 .. Len(list)
  <2>1. done[p] < Len(list)
    OBVIOUS
  <2> HIDE DEF list
  <2>2. Len(list) \in Nat
    BY <1>3, LenProperties
  <2> QED BY <1>2, <2>1, <2>2
<1>5. list[done[p] + 1] \in Registration
  BY <1>3, <1>4, ElementOfSeq
<1> QED BY <1>5 DEF NextAddr, Registration

LEMMA PushPopTyped ==
  ASSUME TypeInv, NEW p \in Global, PushReg(p) \/ PopReg(p)
  PROVE  TypeInv'
<1>1. NextAddr(p) \in Addr
  BY RegistrationTyped DEF PushReg, PopReg, MustCall
<1>2. reg[p] \in Register /\ requests[p] \in Seq(Requested)
  BY DEF TypeInv, ContextsOK
<1>3. CASE PushReg(p)
  <2>1. NewSerial(p) \in Nat
    <3> DEFINE i == Len(reg[p])
               j == Len(requests[p])
    <3>1. i \in Nat /\ j \in Nat
      BY <1>2, LenProperties DEF Register
    <3>2. i + j \in Nat
      <4> HIDE DEF i, j
      <4> QED BY <3>1
    <3> QED BY <3>2 DEF NewSerial
  <2>2. [addr |-> NextAddr(p), serial |-> NewSerial(p), push |-> TRUE] \in Requested
    BY <1>1, <2>1 DEF Requested
  <2> QED BY <1>3, <2>2, RequestTyped DEF PushReg
<1>4. CASE PopReg(p) /\ HasRow(reg[p], p, NextAddr(p))
  <2> DEFINE r == reg[p][Row(reg[p], p, NextAddr(p))]
  <2>1. r.serial \in Nat
    BY <1>2, <1>4, RowFound DEF Registered
  <2>2. [addr |-> NextAddr(p), push |-> FALSE, serial |-> r.serial] \in Requested
    BY <1>1, <2>1 DEF Requested
  <2> QED BY <1>4, <2>2, RequestTyped DEF PopReg
<1>5. CASE PopReg(p) /\ ~HasRow(reg[p], p, NextAddr(p))
  BY <1>5, AbortTyped DEF PopReg
<1> QED BY <1>3, <1>4, <1>5

-----------------------------------------------------------------------------
(* bsp_sync.                                                               *)

LEMMA EnterSyncTyped ==
  ASSUME TypeInv, NEW n \in Node, EnterSync(n)
  PROVE  TypeInv'
<1>1. CASE Abort
  BY <1>1, AbortTyped
<1>2. CASE ~Abort
  <2>1. /\ Computing(n)
        /\ mem' = FoldLeft(Execute, mem, Contexts(n))
        /\ local' = [p \in Global |->
             IF p \in On(n) THEN [local[p] EXCEPT !.hpputs = <<>>, !.puts = <<>>] ELSE local[p]]
        /\ pc' = [pc EXCEPT ![n] = "info"]
        /\ UNCHANGED <<step, program, calls, done, reg, requests, table, exch, aborted>>
    BY <1>2 DEF EnterSync
  <2>2. PICK blocks : chan' = Sent(chan, n, "info", blocks)
    BY <1>2 DEF EnterSync
  <2>3. ControlTyped'
    BY <2>1 DEF TypeInv, ControlTyped, Computing
  <2>4. TablesTyped'
    BY <2>1 DEF TypeInv, TablesTyped, table
  <2>5. mem' \in Memory
    BY <2>1, ContextsTyped, QueuesTyped DEF TypeInv, ContextsOK
  <2>6. local' \in [Global -> Queues]
    <3>1. local \in [Global -> Queues]
      BY DEF TypeInv, ContextsOK
    <3>2. ASSUME NEW p \in Global
          PROVE  [local[p] EXCEPT !.hpputs = <<>>, !.puts = <<>>] \in Queues
      <4> DEFINE e == local[p]
      <4>1. e \in Queues
        BY <3>1
      <4>2. <<>> \in Seq(Copy) /\ <<>> \in Seq(Value)
        OBVIOUS
      <4> HIDE DEF e
      <4>3. [e EXCEPT !.hpputs = <<>>, !.puts = <<>>] \in Queues
        BY <4>1, <4>2 DEF Queues
      <4> QED BY <4>3 DEF e
    <3> QED BY <2>1, <3>1, <3>2
  <2>7. ContextsOK'
    BY <2>1, <2>5, <2>6 DEF TypeInv, ContextsOK
  <2>8. Filled(chan')
    <3>1. \A m \in Node : TypedBlock([kind |-> "info", body |-> blocks[m]], n)
      BY DEF TypedBlock
    <3> QED BY <2>2, <3>1, SentTyped DEF TypeInv
  <2>9. Filled(chan)'
    BY <2>8 DEF Filled
  <2> QED BY <2>3, <2>4, <2>7, <2>9 DEF TypeInv
<1> QED BY <1>1, <1>2

(* What all ways to go on in bsp_sync, or to leave it, have in common. *)
Going(n) ==
  /\ pc[n] # "compute" /\ CanLeave(n)
  /\ UNCHANGED <<program, calls, aborted>>
  /\ exch' \in [Node -> [gets : BOOLEAN, msgs : BOOLEAN]]
  /\ reg' \in [Global -> Register] /\ requests' \in [Global -> Seq(Requested)]

LEMMA GoingOnTyped ==
  ASSUME TypeInv, CollectivesMatch, NEW n \in Node, Going(n),
         NEW kind, kind \in {"reg", "req", "deliv"}, pc' = [pc EXCEPT ![n] = kind],
         NEW blocks, \A m \in Node : TypedBlock([kind |-> kind, body |-> blocks[m]], n),
         chan' = Sent(Taken(n), n, kind, blocks),
         UNCHANGED <<step, done, mem, local>>, TablesTyped'
  PROVE  TypeInv'
<1>1. ControlTyped'
  BY DEF TypeInv, ControlTyped, Going
<1>2. ContextsOK'
  BY DEF TypeInv, ContextsOK, Going
<1>3. Filled(Taken(n))
  BY TakenTyped DEF TypeInv, Going
<1>4. Filled(chan')
  BY <1>3, SentTyped
<1>5. Filled(chan)'
  BY <1>4 DEF Filled
<1> QED BY <1>1, <1>2, <1>5 DEF TypeInv

LEMMA FinishTyped ==
  ASSUME TypeInv, CollectivesMatch, NEW n \in Node, Going(n),
         NEW l \in [Global -> Queues], NEW m \in Memory, Finish(n, l, m)
  PROVE  TypeInv'
<1>1. /\ mem' = m
      /\ local' = [p \in Global |-> IF p \in On(n) THEN Switched(l[p]) ELSE l[p]]
      /\ reqTab' = [reqTab EXCEPT ![n] = EmptyRequests]
      /\ delTab' = [delTab EXCEPT ![n] = EmptyDeliveries]
      /\ chan' = Taken(n)
      /\ pc' = [pc EXCEPT ![n] = "compute"]
      /\ step' = [step EXCEPT ![n] = @ + 1]
      /\ done' = [p \in Global |-> IF p \in On(n) THEN 0 ELSE done[p]]
  BY DEF Finish
<1>2. ControlTyped'
  <2>1. program \in Programs /\ step \in [Node -> 0 .. Len(program.coll)]
        /\ step[n] < Len(program.coll) /\ Len(program.coll) \in Nat
    BY ProgramTyped DEF TypeInv, ControlTyped, Going
  <2>2. step' \in [Node -> 0 .. Len(program.coll)] /\ \A x \in Node \ {n} : step'[x] = step[x]
    BY <1>1, <2>1
  <2>3. done' \in [Global -> Nat]
    BY <1>1 DEF TypeInv, ControlTyped
  <2>4. pc' \in [Node -> {"compute", "info", "reg", "req", "deliv"}]
    BY <1>1 DEF TypeInv, ControlTyped
  <2>5. \A x \in Node : pc'[x] # "compute" => step'[x] < Len(program.coll)
    BY <1>1, <2>2 DEF TypeInv, ControlTyped
  <2> QED BY <2>2, <2>3, <2>4, <2>5 DEF TypeInv, ControlTyped, Going
<1>3. TablesTyped'
  <2>1. EmptyRequests \in [Node -> Seq(Copy)] /\ EmptyDeliveries \in [Node -> Deliveries]
    BY DEF EmptyRequests, EmptyDeliveries, Deliveries
  <2> QED BY <1>1, <2>1 DEF TypeInv, TablesTyped
<1>4. local' \in [Global -> Queues]
  <2>1. ASSUME NEW p \in Global PROVE Switched(l[p]) \in Queues
    <3> DEFINE e == l[p]
    <3>1. e \in Queues /\ <<>> \in Seq(Letter)
      OBVIOUS
    <3> HIDE DEF e
    <3>2. Switched(e) \in Queues
      BY <3>1 DEF Switched, Queues
    <3> QED BY <3>2 DEF e
  <2> QED BY <1>1, <2>1
<1>5. ContextsOK'
  BY <1>1, <1>4 DEF ContextsOK, Going
<1>6. Filled(chan')
  BY <1>1, TakenTyped DEF TypeInv, Going
<1>7. Filled(chan)'
  BY <1>6 DEF Filled
<1> QED BY <1>2, <1>3, <1>5, <1>7 DEF TypeInv

LEMMA ProceedTyped ==
  ASSUME TypeInv, CollectivesMatch, NEW n \in Node, Going(n), Proceed(n)
  PROVE  TypeInv'
<1>0. reqTab[n] \in [Node -> Seq(Copy)] /\ delTab[n] \in [Node -> Deliveries]
  BY DEF TypeInv, TablesTyped
<1>1. CASE exch'[n].gets
  <2>1. /\ chan' = Sent(Taken(n), n, "req", reqTab[n]) /\ pc' = [pc EXCEPT ![n] = "req"]
        /\ UNCHANGED <<step, done, mem, local, table>>
    BY <1>1 DEF Proceed
  <2>2. TablesTyped'
    BY <2>1 DEF TypeInv, TablesTyped, table
  <2>3. \A m \in Node : TypedBlock([kind |-> "req", body |-> reqTab[n][m]], n)
    BY <1>0 DEF TypedBlock
  <2> QED BY <2>1, <2>2, <2>3, GoingOnTyped
<1>2. CASE ~exch'[n].gets /\ exch'[n].msgs
  <2>1. /\ chan' = Sent(Taken(n), n, "deliv", delTab[n]) /\ pc' = [pc EXCEPT ![n] = "deliv"]
        /\ UNCHANGED <<step, done, mem, local, table>>
    BY <1>2 DEF Proceed
  <2>2. TablesTyped'
    BY <2>1 DEF TypeInv, TablesTyped, table
  <2>3. \A m \in Node : TypedBlock([kind |-> "deliv", body |-> delTab[n][m]], n)
    BY <1>0 DEF TypedBlock
  <2> QED BY <2>1, <2>2, <2>3, GoingOnTyped
<1>3. CASE ~exch'[n].gets /\ ~exch'[n].msgs
  <2>1. Finish(n, local, mem)
    BY <1>3 DEF Proceed
  <2> QED BY <2>1, FinishTyped DEF TypeInv, ContextsOK
<1> QED BY <1>1, <1>2, <1>3

LEMMA LeaveInfoTyped ==
  ASSUME TypeInv, CollectivesMatch, NEW n \in Node, LeaveInfo(n)
  PROVE  TypeInv'
<1>1. requests \in [Global -> Seq(Requested)] /\ reg \in [Global -> Register]
  BY DEF TypeInv, ContextsOK
<1>2. requests' \in [Global -> Seq(Requested)]
  <2>1. \/ requests' = [p \in Global |-> IF p \in On(n) THEN <<>> ELSE requests[p]]
        \/ requests' = requests
    BY DEF LeaveInfo
  <2>2. <<>> \in Seq(Requested)
    OBVIOUS
  <2> QED BY <1>1, <2>1, <2>2
<1>3. Going(n)
  <2>1. Flags(n) \in [gets : BOOLEAN, msgs : BOOLEAN]
    BY Zenon DEF Flags
  <2>2. exch' = [exch EXCEPT ![n] = Flags(n)]
    BY DEF LeaveInfo
  <2>3. exch' \in [Node -> [gets : BOOLEAN, msgs : BOOLEAN]]
    BY <2>1, <2>2 DEF TypeInv, ControlTyped
  <2> QED BY <1>1, <1>2, <2>3 DEF Going, LeaveInfo
<1>4. CASE Registrations(n) > 0
  <2> DEFINE blocks == [m \in Node |-> [p \in On(n) |-> requests[p]]]
  <2>1. /\ chan' = Sent(Taken(n), n, "reg", blocks) /\ pc' = [pc EXCEPT ![n] = "reg"]
        /\ UNCHANGED <<step, done, mem, local, table>>
    BY <1>4 DEF LeaveInfo
  <2>2. TablesTyped'
    BY <2>1 DEF TypeInv, TablesTyped, table
  <2>3. ASSUME NEW m \in Node PROVE TypedBlock([kind |-> "reg", body |-> blocks[m]], n)
    <3>1. blocks[m] \in [On(n) -> Seq(Requested)]
      BY <1>1 DEF On
    <3> QED BY <3>1 DEF TypedBlock
  <2> HIDE DEF blocks
  <2> QED BY <1>3, <2>1, <2>2, <2>3, GoingOnTyped
<1>5. CASE ~(Registrations(n) > 0)
  <2>1. Proceed(n)
    BY <1>5 DEF LeaveInfo
  <2> QED BY <1>3, <2>1, ProceedTyped
<1> QED BY <1>4, <1>5

(* All nodes receive the requests of all processors, completed to as many  *)
(* as the one with the most has made.                                      *)
LEMMA RequestsTyped ==
  ASSUME TypeInv, CollectivesMatch, NEW n \in Node, pc[n] = "reg", CanLeave(n)
  PROVE  Requests(n) \in [Global -> Seq(Requested)]
<1>1. ASSUME NEW p \in Global PROVE Received(n, Home(p))[p] \in Seq(Requested)
  <2> DEFINE body == Received(n, Home(p))
  <2>1. Home(p) \in Node /\ p \in On(Home(p))
    BY HomeAndLocal DEF On
  <2>2. TypedBlock([kind |-> "reg", body |-> body], Home(p))
    BY <2>1, TakenTyped DEF TypeInv
  <2> HIDE DEF body
  <2>3. body \in [On(Home(p)) -> Seq(Requested)]
    BY <2>2 DEF TypedBlock
  <2>4. body[p] \in Seq(Requested)
    BY <2>1, <2>3
  <2> QED BY <2>4 DEF body
<1> QED BY <1>1 DEF Requests

LEMMA RoundsAre ==
  ASSUME NEW all \in [Global -> Seq(Requested)], NEW o \in Global
  PROVE  \E m \in Nat : Rounds(all) = 1 .. m /\ \A p \in Global : Len(all[p]) <= m
<1>1. processors \in Nat \ {0}
  BY CountsAssumption DEF Global
<1> DEFINE f == [p \in 0 .. processors-1 |-> Len(all[p])]
           m == Max({f[p] : p \in 0 .. processors-1})
<1>2. \A p \in Global : Len(all[p]) \in Nat /\ DOMAIN all[p] = 1 .. Len(all[p])
  BY LenProperties
<1>3. f \in [0 .. processors-1 -> Nat]
  BY <1>2 DEF Global
<1>4. \A p \in Global : f[p] = Len(all[p])
  BY DEF Global
<1> HIDE DEF f
<1>5. IsLargest(m, f, Global)
  BY <1>1, <1>3, LargestOfFamily DEF Global
<1> HIDE DEF m
<1>6. m \in Nat /\ (\A p \in Global : Len(all[p]) <= m) /\ \E p \in Global : m = Len(all[p])
  BY <1>4, <1>5 DEF IsLargest
<1>7. PICK q \in Global : m = Len(all[q])
  BY <1>6
<1>8. Rounds(all) = 1 .. m
  <2>1. \A p \in Global : DOMAIN all[p] \subseteq 1 .. m
    BY <1>2, <1>6
  <2>2. DOMAIN all[q] = 1 .. m
    BY <1>2, <1>7
  <2>3. \A k \in Rounds(all) : k \in 1 .. m
    BY <2>1 DEF Rounds
  <2>4. \A k \in 1 .. m : k \in Rounds(all)
    BY <2>2 DEF Rounds
  <2> QED BY <2>3, <2>4
<1> QED BY <1>6, <1>8

LEMMA CompletedTyped ==
  ASSUME NEW all \in [Global -> Seq(Requested)], NEW stale \in Unwritten(all),
         NEW m \in Nat, Rounds(all) = 1 .. m, \A p \in Global : Len(all[p]) <= m
  PROVE  /\ Posed(m, Completed(all, stale))
         /\ \A p \in Global : /\ Completed(all, stale)[p] \in Seq(Requested)
                              /\ Len(Completed(all, stale)[p]) = m
<1> DEFINE full == Completed(all, stale)
<1>1. \A p \in Global : Len(all[p]) \in Nat /\ DOMAIN all[p] = 1 .. Len(all[p])
  BY LenProperties
<1>2. Cardinality(1 .. m) = m
  BY FS_Interval
<1>3. ASSUME NEW p \in Short(all) PROVE stale[p] \in Requested
  <2> DEFINE serials == UNION {{all[q][k].serial : k \in DOMAIN all[q]} : q \in Global}
  <2>1. stale[p] \in [addr : Addr, push : BOOLEAN, serial : serials]
    BY DEF Unwritten
  <2>2. ASSUME NEW q \in Global, NEW k \in DOMAIN all[q] PROVE all[q][k].serial \in Nat
    <3>1. all[q][k] \in Requested
      BY ElementOfSeq, <1>1
    <3> QED BY <3>1 DEF Requested
  <2>3. serials \subseteq Nat
    BY <2>2
  <2> HIDE DEF serials
  <2> QED BY <2>1, <2>3 DEF Requested
<1>4. ASSUME NEW p \in Global, NEW k \in 1 .. m
      PROVE  full[p][k] \in Requested
  <2>1. full[p][k] = IF k \in DOMAIN all[p] THEN all[p][k] ELSE stale[p]
    BY DEF Completed
  <2> HIDE DEF full
  <2>2. CASE k \in DOMAIN all[p]
    BY <1>1, <2>1, <2>2, ElementOfSeq
  <2>3. CASE k \notin DOMAIN all[p]
    <3>1. Len(all[p]) < m
      BY <1>1, <2>3
    <3>2. p \in Short(all)
      BY <1>2, <3>1 DEF Short
    <3> QED BY <1>3, <2>1, <2>3, <3>2
  <2> QED BY <2>2, <2>3
<1>5. ASSUME NEW p \in Global PROVE full[p] \in Seq(Requested) /\ Len(full[p]) = m
  <2>1. full[p] = [k \in 1 .. m |-> IF k \in DOMAIN all[p] THEN all[p][k] ELSE stale[p]]
    BY DEF Completed
  <2> DEFINE s == full[p]
  <2>2. DOMAIN s = 1 .. m /\ \A k \in 1 .. m : s[k] \in Requested
    BY <1>4, <2>1
  <2>3. s = [k \in 1 .. m |-> s[k]]
    BY <2>1
  <2> HIDE DEF s
  <2>4. s \in [1 .. m -> Requested]
    BY <2>2, <2>3
  <2>5. s \in Seq(Requested)
    BY <2>4, SeqDef
  <2>6. Len(s) = m
    BY <2>2, <2>5, LenProperties
  <2> QED BY <2>5, <2>6 DEF s
<1> HIDE DEF full
<1>6. Posed(m, full)
  BY <1>4 DEF Posed
<1> QED BY <1>5, <1>6 DEF full

LEMMA LeaveRegTyped ==
  ASSUME TypeInv, CollectivesMatch, NEW n \in Node, LeaveReg(n)
  PROVE  TypeInv'
<1>1. pc[n] = "reg" /\ CanLeave(n)
  BY DEF LeaveReg
<1>2. CASE Abort
  BY <1>2, AbortTyped
<1>3. CASE ~Abort
  <2>1. PICK stale \in Unwritten(Requests(n)) :
          /\ reg' = [p \in Global |->
               IF p \in On(n) THEN RegAfter(reg[p], p, Completed(Requests(n), stale),
                                            Len(Completed(Requests(n), stale)[p]))
               ELSE reg[p]]
          /\ UNCHANGED <<program, calls, requests, exch, aborted>>
          /\ Proceed(n)
    BY <1>3 DEF LeaveReg
  <2> DEFINE all == Completed(Requests(n), stale)
  <2>2. reg \in [Global -> Register] /\ requests \in [Global -> Seq(Requested)]
    BY DEF TypeInv, ContextsOK
  <2>3. ASSUME NEW p \in Global PROVE RegAfter(reg[p], p, all, Len(all[p])) \in Register
    <3>1. Requests(n) \in [Global -> Seq(Requested)]
      BY <1>1, RequestsTyped
    <3>2. PICK m \in Nat : /\ Rounds(Requests(n)) = 1 .. m
                           /\ \A q \in Global : Len(Requests(n)[q]) <= m
      BY <3>1, RoundsAre
    <3>3. Posed(m, all) /\ Len(all[p]) = m
      BY <3>1, <3>2, CompletedTyped
    <3> HIDE DEF all
    <3>4. reg[p] \in Register /\ m \in 0 .. m
      BY <2>2
    <3> QED BY <3>3, <3>4, RegisterSteps
  <2>4. reg' \in [Global -> Register]
    <3> HIDE DEF all
    <3>1. reg' = [p \in Global |->
            IF p \in On(n) THEN RegAfter(reg[p], p, all, Len(all[p])) ELSE reg[p]]
      BY <2>1 DEF all
    <3> QED BY <2>2, <2>3, <3>1
  <2>5. Going(n)
    BY <1>1, <2>1, <2>2, <2>4 DEF Going, TypeInv, ControlTyped
  <2> QED BY <2>1, <2>5, ProceedTyped
<1> QED BY <1>2, <1>3

LEMMA LeaveReqTyped ==
  ASSUME TypeInv, CollectivesMatch, NEW n \in Node, LeaveReq(n)
  PROVE  TypeInv'
<1>1. /\ pc[n] = "req" /\ CanLeave(n)
      /\ delTab' = [delTab EXCEPT ![n] = Answered(n)]
      /\ chan' = Sent(Taken(n), n, "deliv", delTab'[n])
      /\ pc' = [pc EXCEPT ![n] = "deliv"]
      /\ UNCHANGED <<step, program, calls, done, mem, reg, requests, local, reqTab, exch, aborted>>
  BY DEF LeaveReq
<1>2. Going(n)
  BY <1>1 DEF Going, TypeInv, ControlTyped, ContextsOK
<1>3. delTab \in [Node -> [Node -> Deliveries]] /\ reqTab \in [Node -> [Node -> Seq(Copy)]]
      /\ mem \in Memory
  BY DEF TypeInv, TablesTyped, ContextsOK
<1>4. Answered(n) \in [Node -> Deliveries]
  <2> DEFINE answers(m) == [i \in DOMAIN Received(n, m) |-> Answer(Received(n, m)[i])]
             filled(m) == [delTab[n][m] EXCEPT !.put = @ \o answers(m)]
  <2>1. ASSUME NEW m \in Node PROVE filled(m) \in Deliveries
    <3> DEFINE rs == Received(n, m)
               k == Len(rs)
               as == answers(m)
               e == delTab[n][m]
    <3>1. TypedBlock([kind |-> "req", body |-> rs], m)
      BY <1>1, TakenTyped DEF TypeInv
    <3> HIDE DEF rs
    <3>2. rs \in Seq(Copy)
      BY <3>1 DEF TypedBlock
    <3>3. k \in Nat /\ DOMAIN rs = 1 .. k /\ \A i \in 1 .. k : rs[i] \in Copy
      BY <3>2, LenProperties, ElementOfSeq
    <3>4. \A r \in Copy : Answer(r) \in Value
      BY <1>3, AtTyped DEF Answer, Copy, Value
    <3> HIDE DEF k
    <3>5. [i \in 1 .. k |-> Answer(rs[i])] \in Seq(Value)
      <4>1. \A i \in 1 .. k : Answer(rs[i]) \in Value
        BY <3>3, <3>4
      <4> QED BY <3>3, <4>1, IsASeq
    <3>6. as = [i \in 1 .. k |-> Answer(rs[i])]
      BY <3>3 DEF rs
    <3> HIDE DEF as
    <3>7. as \in Seq(Value)
      BY <3>5, <3>6
    <3>8. e \in Deliveries
      BY <1>3
    <3> HIDE DEF e
    <3>9. e.put \o as \in Seq(Value)
      BY <3>7, <3>8, ConcatProperties DEF Deliveries
    <3>10. [e EXCEPT !.put = @ \o as] \in Deliveries
      BY <3>8, <3>9 DEF Deliveries
    <3> QED BY <3>10 DEF e, as
  <2>2. Answered(n) = [m \in Node |-> filled(m)]
    BY DEF Answered
  <2> HIDE DEF filled
  <2> QED BY <2>1, <2>2
<1>5. delTab'[n] = Answered(n) /\ delTab' \in [Node -> [Node -> Deliveries]]
  <2> DEFINE w == Answered(n)
  <2> HIDE DEF w
  <2>1. delTab' = [delTab EXCEPT ![n] = w]
    BY <1>1 DEF w
  <2>2. w \in [Node -> Deliveries]
    BY <1>4 DEF w
  <2>3. delTab'[n] = w /\ delTab' \in [Node -> [Node -> Deliveries]]
    BY <1>3, <2>1, <2>2
  <2> QED BY <2>3 DEF w
<1>6. TablesTyped'
  BY <1>1, <1>3, <1>5 DEF TablesTyped
<1> DEFINE blocks == delTab'[n]
<1>7. ASSUME NEW m \in Node PROVE TypedBlock([kind |-> "deliv", body |-> blocks[m]], n)
  BY <1>4, <1>5 DEF TypedBlock
<1>8. chan' = Sent(Taken(n), n, "deliv", blocks)
  BY <1>1
<1> HIDE DEF blocks
<1> QED BY <1>1, <1>2, <1>6, <1>7, <1>8, GoingOnTyped

LEMMA LeaveDelivTyped ==
  ASSUME TypeInv, CollectivesMatch, NEW n \in Node, LeaveDeliv(n)
  PROVE  TypeInv'
<1>1. /\ pc[n] = "deliv" /\ CanLeave(n)
      /\ Finish(n, Split(n), AfterPuts(mem, Arrived(n, "put")))
      /\ UNCHANGED <<program, calls, reg, requests, exch, aborted>>
  BY DEF LeaveDeliv
<1>2. Going(n)
  BY <1>1 DEF Going, TypeInv, ControlTyped, ContextsOK
<1>3. mem \in Memory /\ local \in [Global -> Queues]
  BY DEF TypeInv, ContextsOK
<1>4. ASSUME NEW m \in Node
      PROVE  Received(n, m)["put"] \in Seq(Value) /\ Received(n, m)["send"] \in Seq(Tagged)
  <2> DEFINE body == Received(n, m)
  <2>1. TypedBlock([kind |-> "deliv", body |-> body], m)
    BY <1>1, TakenTyped DEF TypeInv
  <2> HIDE DEF body
  <2>2. body \in Deliveries
    BY <2>1 DEF TypedBlock
  <2>3. body["put"] \in Seq(Value) /\ body["send"] \in Seq(Tagged)
    BY <2>2 DEF Deliveries
  <2> QED BY <2>3 DEF body
<1>5. Arrived(n, "put") \in Seq(Value) /\ Arrived(n, "send") \in Seq(Tagged)
  BY <1>4, ArrivedTyped
<1>6. AfterPuts(mem, Arrived(n, "put")) \in Memory
  BY <1>3, <1>5, PutsTyped
<1>7. Split(n) \in [Global -> Queues]
  <2> DEFINE ms == Arrived(n, "send")
             moved(p) == [local[p] EXCEPT !.send = Behind(@, p, ms)]
  <2>1. ASSUME NEW p \in Global PROVE moved(p) \in Queues
    <3> DEFINE e == local[p]
    <3>1. e \in Queues
      BY <1>3
    <3> HIDE DEF e
    <3>2. Behind(e.send, p, ms) \in Seq(Letter)
      <4>1. ms \in Seq(Tagged) /\ e.send \in Seq(Letter)
        BY <1>5, <3>1 DEF Queues
      <4> HIDE DEF ms
      <4> QED BY <4>1, BehindTyped
    <3> HIDE DEF ms
    <3>3. [e EXCEPT !.send = Behind(@, p, ms)] \in Queues
      BY <3>1, <3>2 DEF Queues
    <3> QED BY <3>3 DEF e
  <2>2. Split(n) = [p \in Global |-> IF p \in On(n) THEN moved(p) ELSE local[p]]
    BY DEF Split
  <2> HIDE DEF moved
  <2> QED BY <1>3, <2>1, <2>2
<1> QED BY <1>1, <1>2, <1>6, <1>7, FinishTyped

LEMMA InitTyped == Init => TypeInv
<1> SUFFICES ASSUME Init PROVE TypeInv
  OBVIOUS
<1>1. ControlTyped
  <2>1. program \in Programs /\ program.most \in Nat /\ Len(program.coll) \in Nat
    BY ProgramTyped DEF Init
  <2>2. 0 \in 0 .. Len(program.coll) /\ 0 \in 0 .. program.most
    BY <2>1
  <2>3. /\ pc = [n \in Node |-> "compute"] /\ step = [n \in Node |-> 0] /\ calls = 0
        /\ done = [p \in Global |-> 0] /\ aborted = FALSE
        /\ exch = [n \in Node |-> [gets |-> FALSE, msgs |-> FALSE]]
    BY DEF Init
  <2> QED BY <2>1, <2>2, <2>3 DEF ControlTyped
<1>2. TablesTyped
  <2>1. EmptyRequests \in [Node -> Seq(Copy)] /\ EmptyDeliveries \in [Node -> Deliveries]
    BY DEF EmptyRequests, EmptyDeliveries, Deliveries
  <2> QED BY <2>1 DEF Init, TablesTyped
<1>3. ContextsOK
  <2>1. EmptyLocal \in Queues /\ <<>> \in Register /\ <<>> \in Seq(Requested)
    BY DEF EmptyLocal, Queues, Register
  <2> QED BY <2>1, MemAssumption DEF Init, ContextsOK, Memory
<1>4. Filled(chan)
  <2>1. DOMAIN chan = Node /\ \A n \in Node : DOMAIN chan[n] = Node
    BY DEF Init
  <2>2. \A n, m \in Node : chan[n][m] = <<>>
    BY DEF Init
  <2>3. \A n \in Node : TypedBlocks(<<>>, n)
    BY EmptyIsSequence DEF TypedBlocks
  <2> QED BY <2>1, <2>2, <2>3 DEF Filled
<1> QED BY <1>1, <1>2, <1>3, <1>4 DEF TypeInv

LEMMA NextTyped == TypeInv /\ CollectivesMatch /\ [Next]_vars => TypeInv'
<1> SUFFICES ASSUME TypeInv, CollectivesMatch, [Next]_vars PROVE TypeInv'
  OBVIOUS
<1>1. CASE \E n \in Node : EnterSync(n) \/ InSync(n)
  BY <1>1, EnterSyncTyped, LeaveInfoTyped, LeaveRegTyped, LeaveReqTyped, LeaveDelivTyped DEF InSync
<1>2. CASE \E p, q \in Global, a, b \in Addr :
             Put(p, q, a, b) \/ Get(p, q, a, b) \/ HpPut(p, q, a, b) \/ HpGet(p, q, a, b)
  BY <1>2, DrmaTyped
<1>3. CASE \E p, q \in Global, body \in Payload : Send(p, q, body) \/ HpSend(p, q, body)
  BY <1>3, MessagesTyped
<1>4. CASE \E p \in Global, a \in Addr, v \in NewVal : Write(p, a, v)
  BY <1>4, WriteTyped
<1>5. CASE \E p \in Global : Move(p) \/ PushReg(p) \/ PopReg(p)
  BY <1>5, MoveTyped, PushPopTyped
<1>6. CASE Over \/ UNCHANGED vars
  <2>1. UNCHANGED vars
    BY <1>6 DEF Over
  <2>2. ControlTyped' /\ TablesTyped' /\ ContextsOK' /\ chan' = chan
    BY <2>1 DEF vars, table, TypeInv, ControlTyped, TablesTyped, ContextsOK
  <2>3. Filled(chan)'
    BY <2>2 DEF Filled, TypeInv
  <2> QED BY <2>2, <2>3 DEF TypeInv
<1> QED BY <1>1, <1>2, <1>3, <1>4, <1>5, <1>6 DEF Next

(* The state of the contexts and of the nodes is always of the types it    *)
(* was declared with: no location, row or queue is taken that is not       *)
(* there, and what a node finds in a collective is what was sent to that   *)
(* one.                                                                    *)
THEOREM TypesCorrect == Spec => []TypeOK
<1>1. TypeInv => TypeOK
  BY TypesMean DEF TypeInv
<1> QED BY <1>1, InitTyped, NextTyped, NodesMeet, PTL DEF Spec

-----------------------------------------------------------------------------
(***************************************************************************)
(* The registers of a program.                                             *)
(***************************************************************************)
Lists == [Global -> Seq(Registration)]

LEMMA AskedTyped ==
  ASSUME NEW rows \in Register, NEW list \in Lists
  PROVE  /\ Asked(rows, list) \in [Global -> Seq(Requested)]
         /\ \A p \in Global : /\ Len(list[p]) \in Nat /\ DOMAIN list[p] = 1 .. Len(list[p])
                              /\ Len(Asked(rows, list)[p]) = Len(list[p])
                              /\ \A k \in 1 .. Len(list[p]) :
                                   /\ list[p][k] \in Registration
                                   /\ Asked(rows, list)[p][k] = RequestFor(rows, p, list[p][k], k)
<1> DEFINE all == Asked(rows, list)
<1>1. ASSUME NEW p \in Global, NEW call \in Registration, NEW k \in Nat \ {0}
      PROVE  RequestFor(rows, p, call, k) \in Requested
  <2>1. call.addr \in Addr /\ Len(rows) \in Nat
    BY LenProperties DEF Registration, Register
  <2>2. CASE call.op = "push"
    <3> DEFINE i == Len(rows)
    <3>1. i + k - 1 \in Nat
      <4> HIDE DEF i
      <4> QED BY <2>1 DEF i
    <3> QED BY <2>1, <2>2, <3>1 DEF RequestFor, Requested
  <2>3. CASE call.op # "push"
    <3> DEFINE serial == IF HasRow(rows, p, call.addr) THEN rows[Row(rows, p, call.addr)].serial ELSE 0
    <3>1. serial \in Nat
      BY RowFound DEF Registered
    <3>2. RequestFor(rows, p, call, k) = [addr |-> call.addr, push |-> FALSE, serial |-> serial]
      BY <2>3 DEF RequestFor
    <3> HIDE DEF serial
    <3> QED BY <2>1, <3>1, <3>2 DEF Requested
  <2> QED BY <2>2, <2>3
<1>2. ASSUME NEW p \in Global
      PROVE  /\ Len(list[p]) \in Nat /\ DOMAIN list[p] = 1 .. Len(list[p])
             /\ \A k \in 1 .. Len(list[p]) : list[p][k] \in Registration
  BY LenProperties, ElementOfSeq DEF Lists
<1>3. ASSUME NEW p \in Global
      PROVE  /\ all[p] \in Seq(Requested) /\ Len(all[p]) = Len(list[p])
             /\ \A k \in 1 .. Len(list[p]) : all[p][k] = RequestFor(rows, p, list[p][k], k)
  <2> DEFINE n == Len(list[p])
             s == [k \in 1 .. n |-> RequestFor(rows, p, list[p][k], k)]
  <2>1. all[p] = s
    BY <1>2 DEF Asked
  <2>2. n \in Nat
    BY <1>2
  <2>3. \A k \in 1 .. n : RequestFor(rows, p, list[p][k], k) \in Requested
    <3> SUFFICES ASSUME NEW k \in 1 .. n PROVE RequestFor(rows, p, list[p][k], k) \in Requested
      OBVIOUS
    <3>1. list[p][k] \in Registration /\ k \in Nat \ {0}
      BY <1>2
    <3> QED BY <1>1, <3>1
  <2> HIDE DEF n
  <2>4. s \in [1 .. n -> Requested]
    BY <2>3
  <2>5. DOMAIN s = 1 .. n /\ \A k \in 1 .. n : s[k] = RequestFor(rows, p, list[p][k], k)
    OBVIOUS
  <2> HIDE DEF s
  <2>6. s \in Seq(Requested)
    BY <2>2, <2>4, SeqDef
  <2>7. Len(s) = n
    BY <2>2, <2>5, <2>6, LenProperties
  <2> QED BY <2>1, <2>5, <2>6, <2>7 DEF n
<1>4. all = [p \in Global |-> all[p]]
  BY DEF Asked
<1> HIDE DEF all
<1>5. all \in [Global -> Seq(Requested)]
  BY <1>3, <1>4
<1> QED BY <1>2, <1>3, <1>5 DEF all

LEMMA EvenPosed ==
  ASSUME NEW rows \in Register, NEW list \in Lists, Even(list), NEW o \in Global
  PROVE  Posed(Len(list[o]), Asked(rows, list))
<1> DEFINE all == Asked(rows, list)
<1>1. ASSUME NEW q \in Global, NEW k \in 1 .. Len(list[o]) PROVE all[q][k] \in Requested
  <2>1. all[q] \in Seq(Requested) /\ Len(all[q]) = Len(list[q]) /\ Len(list[q]) = Len(list[o])
    BY AskedTyped DEF Even
  <2> HIDE DEF all
  <2> QED BY <2>1, ElementOfSeq
<1> HIDE DEF all
<1> QED BY <1>1 DEF Posed, all

LEMMA RowsAfterTyped ==
  ASSUME NEW rows \in Register, NEW list \in Lists, 0 \in Global
  PROVE  RowsAfter(rows, list) \in Register
<1>1. CASE Even(list)
  <2> DEFINE m == Len(list[0])
             all == Asked(rows, list)
  <2>1. m \in Nat /\ Posed(m, all)
    BY <1>1, AskedTyped, EvenPosed
  <2> HIDE DEF m, all
  <2>2. RegAfter(rows, 0, all, m) \in Register
    <3>1. m \in 0 .. m
      BY <2>1
    <3> QED BY <2>1, <3>1, RegisterSteps
  <2> QED BY <1>1, <2>2 DEF RowsAfter, m, all
<1>2. CASE ~Even(list)
  BY <1>2 DEF RowsAfter
<1> QED BY <1>1, <1>2

LEMMA RowsOfProgram ==
  ASSUME NEW prog \in Programs, 0 \in Global
  PROVE  /\ Rows(prog)[0] = <<>>
         /\ \A s \in 0 .. Len(prog.coll) : Rows(prog)[s] \in Register
         /\ \A s \in 1 .. Len(prog.coll) : Rows(prog)[s] = RowsAfter(Rows(prog)[s-1], prog.coll[s])
<1> DEFINE n == Len(prog.coll)
           step1 == [k \in 1 .. n |-> [rows \in Register |-> RowsAfter(rows, prog.coll[k])]]
           P(f) == f = [s \in 0 .. n |-> IF s = 0 \/ Global = {} THEN <<>>
                                         ELSE RowsAfter(f[s-1], prog.coll[s])]
           none == <<>>
<1>1. n \in Nat /\ \A k \in 1 .. n : prog.coll[k] \in Lists
  BY ProgramTyped DEF Lists
<1>2. Rows(prog) = CHOOSE f : P(f)
  BY Zenon DEF Rows
<1> HIDE DEF n
<1>3. \A k \in 1 .. n, rows \in Register : RowsAfter(rows, prog.coll[k]) \in Register
  BY <1>1, RowsAfterTyped
<1>4. step1 \in StepOfEach(n, Register)
  BY <1>3 DEF StepOfEach
<1>5. \A k \in 1 .. n, rows \in Register : step1[k][rows] = RowsAfter(rows, prog.coll[k])
  OBVIOUS
<1> HIDE DEF step1
<1>6. none \in Register
  BY DEF Register
<1> HIDE DEF none
<1>7. PICK f : Iterates(f, n, Register, none, step1)
  BY <1>1, <1>4, <1>6, RecursiveFunction
<1>8. /\ f \in [0 .. n -> Register] /\ f[0] = none
      /\ \A k \in 1 .. n : f[k] = RowsAfter(f[k-1], prog.coll[k])
  <2>1. /\ f \in [0 .. n -> Register] /\ f[0] = none
        /\ \A k \in 1 .. n : f[k] = step1[k][f[k-1]]
    BY <1>7 DEF Iterates
  <2>2. ASSUME NEW k \in 1 .. n PROVE f[k] = RowsAfter(f[k-1], prog.coll[k])
    <3>1. k - 1 \in 0 .. n
      BY <1>1
    <3>2. f[k-1] \in Register
      BY <2>1, <3>1
    <3> QED BY <1>5, <2>1, <3>2
  <2> QED BY <2>1, <2>2
<1>9. P([s \in 0 .. n |-> f[s]])
  <2> DEFINE g == [s \in 0 .. n |-> f[s]]
  <2>1. ASSUME NEW s \in 0 .. n
        PROVE  g[s] = IF s = 0 \/ Global = {} THEN <<>> ELSE RowsAfter(g[s-1], prog.coll[s])
    <3>1. CASE s = 0
      BY <1>8, <3>1 DEF none
    <3>2. CASE s # 0
      <4>1. s \in 1 .. n /\ s - 1 \in 0 .. n
        BY <1>1, <3>2
      <4>2. g[s-1] = f[s-1] /\ g[s] = f[s]
        BY <4>1
      <4> HIDE DEF g
      <4> QED BY <1>8, <3>2, <4>1, <4>2
    <3> QED BY <3>1, <3>2
  <2> QED BY <2>1
<1>10. P(Rows(prog))
  <2> HIDE DEF P
  <2> QED BY <1>2, <1>9
<1> DEFINE r == Rows(prog)
<1>11. \A s \in 0 .. n : r[s] = IF s = 0 THEN <<>> ELSE RowsAfter(r[s-1], prog.coll[s])
  BY <1>10
<1> HIDE DEF P, r
<1>12. GoTogether(r, f, n)
  <2>1. r[0] = f[0]
    BY <1>1, <1>8, <1>11 DEF none
  <2>2. ASSUME NEW k \in 1 .. n, r[k-1] = f[k-1] PROVE r[k] = f[k]
    <3>1. k \in 0 .. n /\ k # 0
      OBVIOUS
    <3> QED BY <1>8, <1>11, <2>2, <3>1
  <2> QED BY <2>1, <2>2 DEF GoTogether
<1>13. \A k \in 0 .. n : r[k] = f[k]
  BY <1>1, <1>12, RecursionsAgree
<1>14. ASSUME NEW s \in 1 .. n PROVE r[s] = RowsAfter(r[s-1], prog.coll[s])
  <2>1. s \in 0 .. n /\ s # 0
    OBVIOUS
  <2> QED BY <1>11, <2>1
<1>15. r[0] = <<>> /\ \A s \in 0 .. n : r[s] \in Register
  <2>1. 0 \in 0 .. n
    BY <1>1
  <2> QED BY <1>8, <1>11, <1>13, <2>1
<1> QED BY <1>14, <1>15 DEF n, r

(* Requests that are alike, and whose pops agree, do the same to the       *)
(* register of every processor.                                            *)
LEMMA SameRows ==
  ASSUME NEW rows \in Register, NEW list \in Lists, NEW p \in Global, 0 \in Global,
         Even(list), PopsAgree(rows, list),
         \A k \in 1 .. Len(list[0]) : Alike(Asked(rows, list), k)
  PROVE  RegAfter(rows, p, Asked(rows, list), Len(list[0])) = RowsAfter(rows, list)
<1> DEFINE all == Asked(rows, list)
           m == Len(list[0])
           at(q, k) == RegAfter(rows, q, all, k)
           T == {k \in 0 .. m : at(p, k) = at(0, k)}
<1>1. m \in Nat /\ Posed(m, all)
  BY AskedTyped, EvenPosed
<1>2. ASSUME NEW q \in Global, NEW k \in 1 .. m
      PROVE  /\ k \in DOMAIN list[q] /\ list[q][k] \in Registration
             /\ all[q][k] = RequestFor(rows, q, list[q][k], k)
  <2>1. Len(list[q]) = m /\ Len(list[q]) \in Nat /\ DOMAIN list[q] = 1 .. Len(list[q])
    BY AskedTyped DEF Even
  <2> HIDE DEF m
  <2> QED BY <2>1, AskedTyped
<1>3. \A k \in 1 .. m : Alike(all, k)
  OBVIOUS
<1>4. ASSUME NEW q \in Global
      PROVE  /\ at(q, 0) = rows /\ \A k \in 0 .. m : at(q, k) \in Register
             /\ \A k \in 1 .. m : at(q, k) = Processed(at(q, k-1), q, all, k)
  <2> HIDE DEF m, all
  <2> QED BY <1>1, RegisterSteps
<1>5. ASSUME NEW k \in 1 .. m, at(p, k-1) = at(0, k-1) PROVE at(p, k) = at(0, k)
  <2> DEFINE r == at(p, k-1)
  <2>1. at(p, k) = Processed(r, p, all, k) /\ at(0, k) = Processed(r, 0, all, k)
    BY <1>4, <1>5
  <2>2. r \in Register
    <3>1. k - 1 \in 0 .. m
      BY <1>1
    <3> HIDE DEF m
    <3> QED BY <1>4, <3>1
  <2>3. all[p][k].serial = all[0][k].serial /\ all[p][k].push = all[0][k].push
    BY <1>3 DEF Alike
  <2> DEFINE a == list[p][k].addr
             b == list[0][k].addr
  <2>4. ASSUME NEW q \in Global
        PROVE  /\ all[q][k].addr = list[q][k].addr
               /\ ~all[q][k].push => list[q][k].op = "pop"
    <3> DEFINE call == list[q][k]
    <3>1. call \in Registration /\ all[q][k] = RequestFor(rows, q, call, k)
      BY <1>2
    <3> HIDE DEF call, all
    <3>2. CASE call.op = "push"
      BY <3>1, <3>2 DEF RequestFor, call
    <3>3. CASE call.op = "pop"
      BY <3>1, <3>3 DEF RequestFor, call
    <3> QED BY <3>1, <3>2, <3>3 DEF Registration
  <2>5. CASE all[p][k].push
    <3> HIDE DEF at, all
    <3> QED BY <2>1, <2>3, <2>5 DEF Processed, PushRow
  <2>6. CASE ~all[p][k].push
    <3>1. list[p][k].op = "pop"
      <4> HIDE DEF all
      <4> QED BY <2>4, <2>6
    <3>2. RowOrNone(r, p, a) = RowOrNone(r, 0, b)
      <4>1. k \in DOMAIN list[p]
        BY <1>2
      <4>2. RowOrNone(at(p, k-1), p, a) = RowOrNone(at(0, k-1), 0, b)
        BY <3>1, <4>1 DEF PopsAgree
      <4> QED BY <1>5, <4>2
    <3> HIDE DEF r
    <3>3. PopAddress(r, p, a) = PopAddress(r, 0, b)
      <4> HIDE DEF a, b
      <4>1. HasRow(r, p, a) => Row(r, p, a) # 0
        BY <2>2, RowFound
      <4>2. HasRow(r, 0, b) => Row(r, 0, b) # 0
        BY <2>2, RowFound
      <4> QED BY <3>2, <4>1, <4>2 DEF PopAddress, RowOrNone
    <3>4. Processed(r, p, all, k) = PopAddress(r, p, a) /\ Processed(r, 0, all, k) = PopAddress(r, 0, b)
      <4>1. all[p][k].addr = a /\ all[0][k].addr = b
        BY <2>4
      <4> HIDE DEF all, a, b
      <4> QED BY <2>3, <2>6, <4>1 DEF Processed, PopRow
    <3> HIDE DEF at
    <3> QED BY <2>1, <3>3, <3>4
  <2> QED BY <2>5, <2>6
<1> HIDE DEF m, at
<1>6. 0 .. m \subseteq T
  <2>1. 0 \in T
    BY <1>1, <1>4
  <2>2. ASSUME NEW k \in 0 .. m-1, k \in T PROVE k + 1 \in T
    <3>1. k + 1 \in 1 .. m /\ (k + 1) - 1 = k /\ k + 1 \in 0 .. m
      BY <1>1
    <3>2. at(p, k) = at(0, k)
      BY <2>2
    <3>3. at(p, k+1) = at(0, k+1)
      BY <1>5, <3>1, <3>2
    <3> QED BY <3>1, <3>3
  <2> HIDE DEF T
  <2> QED BY <1>1, <2>1, <2>2, BoundedInduction
<1>7. at(p, m) = at(0, m)
  BY <1>1, <1>6
<1> QED BY <1>7 DEF at, m, RowsAfter

(* When there are none, the register stays as it is. *)
LEMMA NoRows ==
  ASSUME NEW rows \in Register, NEW list \in Lists, 0 \in Global, Len(list[0]) = 0
  PROVE  RowsAfter(rows, list) = rows
<1>1. CASE Even(list)
  <2>1. Posed(0, Asked(rows, list))
    BY DEF Posed
  <2>2. RegAfter(rows, 0, Asked(rows, list), 0) = rows
    BY <2>1, RegisterSteps
  <2> QED BY <1>1, <2>2 DEF RowsAfter
<1>2. CASE ~Even(list)
  BY <1>2 DEF RowsAfter
<1> QED BY <1>1, <1>2

(* Nothing is made up when all processors made as many requests. *)
LEMMA NothingStale ==
  ASSUME NEW all \in [Global -> Seq(Requested)], Even(all), NEW stale, NEW o \in Global
  PROVE  Completed(all, stale) = all /\ Rounds(all) = 1 .. Len(all[o])
<1> DEFINE m == Len(all[o])
<1>1. \A p \in Global : Len(all[p]) = m /\ DOMAIN all[p] = 1 .. m
  BY LenProperties DEF Even
<1> HIDE DEF m
<1>2. Rounds(all) = 1 .. m
  BY <1>1 DEF Rounds
<1>3. ASSUME NEW p \in Global PROVE Completed(all, stale)[p] = all[p]
  <2>1. Completed(all, stale)[p] = [k \in 1 .. m |-> all[p][k]]
    BY <1>1, <1>2 DEF Completed
  <2>2. all[p] = [k \in 1 .. m |-> all[p][k]]
    <3>1. all[p] \in Seq(Requested)
      OBVIOUS
    <3>2. all[p] = [k \in DOMAIN all[p] |-> all[p][k]]
      BY <3>1, SeqDef
    <3> QED BY <1>1, <3>2
  <2> QED BY <2>1, <2>2
<1>4. Completed(all, stale) = [p \in Global |-> Completed(all, stale)[p]]
  BY DEF Completed
<1>5. all = [p \in Global |-> all[p]]
  OBVIOUS
<1>6. Completed(all, stale) = all
  <2> DEFINE c == Completed(all, stale)
  <2>1. c = [p \in Global |-> c[p]] /\ \A p \in Global : c[p] = all[p]
    BY <1>3, <1>4
  <2> HIDE DEF c
  <2>2. c = all
    BY <1>5, <2>1
  <2> QED BY <2>2 DEF c
<1> QED BY <1>2, <1>6 DEF m

-----------------------------------------------------------------------------
(***************************************************************************)
(* What the nodes tell each other of the requests.  The blocks on their    *)
(* way from a node to another one follow the supersteps: "age" counts the  *)
(* exchanges of flags.                                                     *)
(***************************************************************************)
Told(b, n, s, prog) ==
  /\ b.kind = "info" => /\ EvenOn(n, prog.coll[s])
                        /\ b.body.regs = {Len(prog.coll[s][p]) : p \in On(n)}
  /\ b.kind = "reg" => /\ EvenOn(n, prog.coll[s])
                       /\ \A p \in On(n) : b.body[p] = AskedIn(prog, s)[p]
Older(b, s) == IF b.kind = "info" THEN s + 1 ELSE s
Ages(age, blocks, n, from, to, prog) ==
  /\ age \in [0 .. Len(blocks) -> Nat]
  /\ age[0] = from /\ age[Len(blocks)] = to
  /\ \A i \in 1 .. Len(blocks) : /\ age[i] = Older(blocks[i], age[i-1])
                                 /\ Told(blocks[i], n, age[i], prog)
Dated(blocks, n, from, to, prog) == \E age : Ages(age, blocks, n, from, to, prog)
Dates(ch, from, to, prog) == \A n, m \in Node : Dated(ch[n][m], n, from[m], to[n], prog)

LEMMA DatedAppend ==
  ASSUME NEW s, IsSequence(s), NEW n, NEW from, NEW to, NEW prog, Dated(s, n, from, to, prog),
         NEW b, NEW next \in Nat, next = Older(b, to), Told(b, n, next, prog)
  PROVE  Dated(Append(s, b), n, from, next, prog)
<1> DEFINE k == Len(s)
           t == Append(s, b)
<1>1. PICK age : Ages(age, s, n, from, to, prog)
  BY DEF Dated
<1>2. /\ k \in Nat /\ Len(t) = k + 1 /\ t[k+1] = b /\ \A i \in 1 .. k : t[i] = s[i]
  BY AppendToSequence
<1> HIDE DEF t
<1>3. /\ age \in [0 .. k -> Nat] /\ age[0] = from /\ age[k] = to
      /\ \A i \in 1 .. k : age[i] = Older(s[i], age[i-1]) /\ Told(s[i], n, age[i], prog)
  BY <1>1 DEF Ages
<1> HIDE DEF k
<1> DEFINE later == [i \in 0 .. k+1 |-> IF i = k+1 THEN next ELSE age[i]]
<1>4. later \in [0 .. k+1 -> Nat] /\ later[k+1] = next /\ \A i \in 0 .. k : later[i] = age[i]
  BY <1>2, <1>3
<1> HIDE DEF later
<1>5. later[0] = from
  BY <1>2, <1>3, <1>4
<1>6. ASSUME NEW i \in 1 .. k+1
      PROVE  later[i] = Older(t[i], later[i-1]) /\ Told(t[i], n, later[i], prog)
  <2>1. i - 1 \in 0 .. k /\ (i = k + 1 \/ (i \in 1 .. k /\ i \in 0 .. k))
    BY <1>2
  <2>2. CASE i = k + 1
    <3>1. later[i-1] = to
      BY <1>2, <1>3, <1>4, <2>1, <2>2
    <3> QED BY <1>2, <1>4, <2>2, <3>1
  <2>3. CASE i \in 1 .. k
    BY <1>2, <1>3, <1>4, <2>1, <2>3
  <2> QED BY <2>1, <2>2, <2>3
<1>7. Ages(later, t, n, from, next, prog)
  BY <1>2, <1>4, <1>5, <1>6 DEF Ages
<1> QED BY <1>7 DEF Dated, t

LEMMA DatedTail ==
  ASSUME NEW s, IsSequence(s), s # <<>>, NEW n, NEW from, NEW to, NEW prog,
         Dated(s, n, from, to, prog), NEW next, next = Older(Head(s), from)
  PROVE  Told(Head(s), n, next, prog) /\ Dated(Tail(s), n, next, to, prog)
<1> DEFINE k == Len(s)
           t == Tail(s)
<1>1. PICK age : Ages(age, s, n, from, to, prog)
  BY DEF Dated
<1>2. /\ k \in Nat \ {0} /\ Len(t) = k - 1 /\ Head(s) = s[1]
      /\ \A i \in 1 .. k - 1 : t[i] = s[i+1]
  BY TailOfSequence
<1> HIDE DEF t
<1>3. /\ age \in [0 .. k -> Nat] /\ age[0] = from /\ age[k] = to
      /\ \A i \in 1 .. k : age[i] = Older(s[i], age[i-1]) /\ Told(s[i], n, age[i], prog)
  BY <1>1 DEF Ages
<1> HIDE DEF k
<1>4. age[1] = next /\ Told(s[1], n, next, prog)
  <2>1. 1 \in 1 .. k /\ 1 - 1 = 0
    BY <1>2
  <2> QED BY <1>2, <1>3, <2>1
<1> DEFINE later == [i \in 0 .. k-1 |-> age[i+1]]
<1>5. later \in [0 .. k-1 -> Nat] /\ \A i \in 0 .. k-1 : later[i] = age[i+1]
  <2>1. \A i \in 0 .. k-1 : i + 1 \in 0 .. k
    BY <1>2
  <2> QED BY <1>3, <2>1
<1> HIDE DEF later
<1>6. later[0] = next /\ later[k-1] = to
  BY <1>2, <1>3, <1>4, <1>5
<1>7. ASSUME NEW i \in 1 .. k-1
      PROVE  later[i] = Older(t[i], later[i-1]) /\ Told(t[i], n, later[i], prog)
  <2>1. i \in 0 .. k-1 /\ i - 1 \in 0 .. k-1 /\ i + 1 \in 1 .. k /\ (i + 1) - 1 = i /\ (i - 1) + 1 = i
    BY <1>2
  <2>2. later[i] = age[i+1] /\ later[i-1] = age[i] /\ t[i] = s[i+1]
    BY <1>2, <1>5, <2>1
  <2>3. age[i+1] = Older(s[i+1], age[i]) /\ Told(s[i+1], n, age[i+1], prog)
    BY <1>3, <2>1
  <2> QED BY <2>2, <2>3
<1>8. Ages(later, t, n, next, to, prog)
  BY <1>2, <1>5, <1>6, <1>7 DEF Ages
<1> QED BY <1>2, <1>4, <1>8 DEF Dated, t

LEMMA SentDated ==
  ASSUME NEW ch, Filled(ch), NEW from, NEW to, NEW prog, Dates(ch, from, to, prog),
         NEW n \in Node, NEW kind, NEW blocks, NEW next,
         \A x \in Node : x # n => next[x] = to[x],
         next[n] \in Nat, next[n] = IF kind = "info" THEN to[n] + 1 ELSE to[n],
         \A m \in Node : Told([kind |-> kind, body |-> blocks[m]], n, next[n], prog)
  PROVE  Dates(Sent(ch, n, kind, blocks), from, next, prog)
<1> DEFINE sent == Sent(ch, n, kind, blocks)
           block(m) == [kind |-> kind, body |-> blocks[m]]
<1>1. \A x, m \in Node : sent[x][m] = IF x = n THEN Append(ch[x][m], block(m)) ELSE ch[x][m]
  BY DEF Sent, Filled
<1>2. \A m \in Node : Told(block(m), n, next[n], prog) /\ next[n] = Older(block(m), to[n])
  BY DEF Older
<1> HIDE DEF sent, block
<1>3. ASSUME NEW x \in Node, NEW m \in Node PROVE Dated(sent[x][m], x, from[m], next[x], prog)
  <2>1. Dated(ch[x][m], x, from[m], to[x], prog) /\ IsSequence(ch[x][m])
    BY DEF Dates, Filled, TypedBlocks
  <2>2. CASE x # n
    BY <1>1, <2>1, <2>2
  <2>3. CASE x = n
    <3>1. Dated(Append(ch[x][m], block(m)), x, from[m], next[x], prog)
      BY <1>2, <2>1, <2>3, DatedAppend
    <3> QED BY <1>1, <2>3, <3>1
  <2> QED BY <2>2, <2>3
<1> QED BY <1>3 DEF Dates, sent

LEMMA TakenDated ==
  ASSUME Filled(chan), CollectivesMatch, NEW n \in Node, pc[n] # "compute", CanLeave(n),
         NEW from, NEW to, NEW prog, Dates(chan, from, to, prog), NEW next,
         \A x \in Node : x # n => next[x] = from[x],
         next[n] = IF pc[n] = "info" THEN from[n] + 1 ELSE from[n]
  PROVE  /\ Dates(Taken(n), next, to, prog)
         /\ \A m \in Node : Told([kind |-> pc[n], body |-> Received(n, m)], m, next[n], prog)
<1> DEFINE taken == Taken(n)
<1>1. \A x, m \in Node : taken[x][m] = IF m = n THEN Tail(chan[x][m]) ELSE chan[x][m]
  BY DEF Taken, Filled
<1> HIDE DEF taken
<1>2. ASSUME NEW x \in Node, NEW m \in Node
      PROVE  /\ Dated(taken[x][m], x, next[m], to[x], prog)
             /\ m = n => Told(Head(chan[x][n]), x, next[n], prog) /\ Head(chan[x][n]).kind = pc[n]
  <2>1. Dated(chan[x][m], x, from[m], to[x], prog) /\ IsSequence(chan[x][m])
    BY DEF Dates, Filled, TypedBlocks
  <2>2. CASE m # n
    BY <1>1, <2>1, <2>2
  <2>3. CASE m = n
    <3> DEFINE s == chan[x][n]
    <3>1. s # <<>> /\ Head(s).kind = pc[n]
      BY DEF CanLeave, CollectivesMatch
    <3>2. Dated(s, x, from[n], to[x], prog) /\ IsSequence(s)
      BY <2>1, <2>3
    <3> HIDE DEF s
    <3>3. next[n] = Older(Head(s), from[n])
      BY <3>1 DEF Older
    <3>4. Told(Head(s), x, next[n], prog) /\ Dated(Tail(s), x, next[n], to[x], prog)
      BY <3>1, <3>2, <3>3, DatedTail
    <3> QED BY <1>1, <2>3, <3>1, <3>4 DEF s
  <2> QED BY <2>2, <2>3
<1>3. Dates(taken, next, to, prog)
  BY <1>2 DEF Dates
<1>4. \A m \in Node : Told([kind |-> pc[n], body |-> Received(n, m)], m, next[n], prog)
  BY <1>2 DEF Told, Received
<1> QED BY <1>3, <1>4 DEF taken

-----------------------------------------------------------------------------
(***************************************************************************)
(* Why the registers agree: every context follows the program.  It has the *)
(* register the supersteps its node has completed leave, and has requested *)
(* what it registered; a node in bsp_sync found its contexts even.         *)
(***************************************************************************)
Took == [n \in Node |-> IF pc[n] \in {"compute", "info"} THEN step[n] ELSE step[n] + 1]
Gave == [n \in Node |-> IF pc[n] = "compute" THEN step[n] ELSE step[n] + 1]

Processing(n) == pc[n] \in {"req", "deliv"}
Accords(p) ==
  LET n == Home(p) IN
  /\ reg[p] = Rows(program)[IF Processing(n) THEN step[n] + 1 ELSE step[n]]
  /\ pc[n] = "compute" /\ step[n] < Len(program.coll) =>
       /\ done[p] <= Len(program.coll[step[n] + 1][p])
       /\ requests[p] = SubSeq(AskedIn(program, step[n] + 1)[p], 1, done[p])
  /\ pc[n] = "info" => requests[p] = AskedIn(program, step[n] + 1)[p]
  /\ pc[n] = "reg" \/ Processing(n) => requests[p] = <<>>
FoundEven(n) == pc[n] # "compute" => EvenOn(n, program.coll[step[n] + 1])

AccordInv == /\ Dates(chan, Took, Gave, program)
             /\ \A p \in Global : Accords(p)
             /\ \A n \in Node : FoundEven(n)

LEMMA FirstOfAll == ASSUME NEW p \in Global PROVE 0 \in Global
BY CountsAssumption DEF Global

(* The registrations of a superstep, and the requests that come of them. *)
LEMMA Superstep ==
  ASSUME TypeInv, NEW p \in Global, NEW s \in Nat, s < Len(program.coll)
  PROVE  /\ s \in 0 .. Len(program.coll) /\ s + 1 \in 1 .. Len(program.coll) /\ (s + 1) - 1 = s
         /\ program.coll[s+1] \in Lists /\ Rows(program)[s] \in Register
         /\ AskedIn(program, s+1) = Asked(Rows(program)[s], program.coll[s+1])
         /\ AskedIn(program, s+1) \in [Global -> Seq(Requested)]
         /\ Len(program.coll[s+1][p]) \in Nat
         /\ Len(AskedIn(program, s+1)[p]) = Len(program.coll[s+1][p])
         /\ Rows(program)[s+1] = RowsAfter(Rows(program)[s], program.coll[s+1])
<1>1. program \in Programs /\ 0 \in Global
  BY FirstOfAll DEF TypeInv, ControlTyped
<1>2. /\ s \in 0 .. Len(program.coll) /\ s + 1 \in 1 .. Len(program.coll) /\ (s + 1) - 1 = s
      /\ program.coll[s+1] \in Lists
  BY <1>1, ProgramTyped DEF Lists
<1>3. /\ Rows(program)[s] \in Register
      /\ Rows(program)[s+1] = RowsAfter(Rows(program)[s], program.coll[s+1])
  BY <1>1, <1>2, RowsOfProgram
<1>4. AskedIn(program, s+1) = Asked(Rows(program)[s], program.coll[s+1])
  BY <1>2 DEF AskedIn
<1> QED BY <1>2, <1>3, <1>4, AskedTyped

LEMMA Asks ==
  ASSUME TypeInv, NEW p \in Global, NEW s \in Nat, s < Len(program.coll),
         NEW k \in 1 .. Len(program.coll[s+1][p])
  PROVE  /\ program.coll[s+1][p][k] \in Registration
         /\ AskedIn(program, s+1)[p][k] =
              RequestFor(Rows(program)[s], p, program.coll[s+1][p][k], k)
<1>1. /\ program.coll[s+1] \in Lists /\ Rows(program)[s] \in Register
      /\ AskedIn(program, s+1) = Asked(Rows(program)[s], program.coll[s+1])
  BY Superstep
<1> QED BY <1>1, AskedTyped

LEMMA InitAccords == Init => AccordInv
<1> SUFFICES ASSUME Init PROVE AccordInv
  OBVIOUS
<1>1. TypeInv
  BY InitTyped
<1>2. /\ pc = [n \in Node |-> "compute"] /\ step = [n \in Node |-> 0]
      /\ done = [p \in Global |-> 0] /\ reg = [p \in Global |-> <<>>]
      /\ requests = [p \in Global |-> <<>>] /\ chan = [n \in Node |-> [m \in Node |-> <<>>]]
  BY DEF Init
<1>3. ASSUME NEW p \in Global PROVE Accords(p)
  <2>1. Home(p) \in Node /\ 0 \in Global /\ program \in Programs
    BY <1>1, HomeAndLocal, FirstOfAll DEF TypeInv, ControlTyped
  <2>2. Rows(program)[0] = <<>>
    BY <2>1, RowsOfProgram
  <2>3. CASE 0 < Len(program.coll)
    <3>1. /\ Len(program.coll[0+1][p]) \in Nat
          /\ AskedIn(program, 0+1)[p] \in Seq(Requested)
      BY <1>1, <2>3, Superstep
    <3>2. SubSeq(AskedIn(program, 0+1)[p], 1, 0) = <<>>
      BY SubSeqEmpty
    <3> QED BY <1>2, <2>1, <2>2, <3>1, <3>2 DEF Accords, Processing
  <2> QED BY <1>2, <2>1, <2>2, <2>3 DEF Accords, Processing
<1>4. ASSUME NEW n \in Node, NEW m \in Node PROVE Dated(chan[n][m], n, Took[m], Gave[n], program)
  <2> DEFINE age == [i \in 0 .. 0 |-> 0]
  <2>1. Took[m] = 0 /\ Gave[n] = 0 /\ chan[n][m] = <<>> /\ Len(<<>>) = 0
    BY <1>2 DEF Took, Gave
  <2>2. Ages(age, <<>>, n, 0, 0, program)
    BY <2>1 DEF Ages
  <2> QED BY <2>1, <2>2 DEF Dated
<1> QED BY <1>2, <1>3, <1>4 DEF AccordInv, Dates, FoundEven

-----------------------------------------------------------------------------
(* Calls. *)

LEMMA OthersAccord ==
  ASSUME NEW p \in Global, Accords(p), pc'[Home(p)] = pc[Home(p)], step'[Home(p)] = step[Home(p)],
         program' = program, done'[p] = done[p], reg'[p] = reg[p], requests'[p] = requests[p]
  PROVE  Accords(p)'
BY DEF Accords, Processing

LEMMA CallAccords ==
  ASSUME AccordInv, UNCHANGED <<pc, step, program, done, reg, requests, chan>>
  PROVE  AccordInv'
<1>1. Took' = Took /\ Gave' = Gave
  BY DEF Took, Gave
<1>2. Dates(chan, Took, Gave, program)'
  BY <1>1 DEF AccordInv
<1>3. ASSUME NEW p \in Global PROVE Accords(p)'
  BY OthersAccord DEF AccordInv
<1>4. ASSUME NEW n \in Node PROVE FoundEven(n)'
  BY DEF AccordInv, FoundEven
<1> QED BY <1>2, <1>3, <1>4 DEF AccordInv

(* A registration asks what the program asks for next. *)
LEMMA RequestAccords ==
  ASSUME TypeInv, AccordInv, NEW p \in Global, NEW r, Request(p, r), Computing(Home(p)),
         done[p] < Len(program.coll[step[Home(p)] + 1][p]),
         r = AskedIn(program, step[Home(p)] + 1)[p][done[p] + 1]
  PROVE  AccordInv'
<1> DEFINE n == Home(p)
           s == step[n]
           asked == AskedIn(program, s + 1)[p]
           d == done[p]
<1>1. /\ done' = [done EXCEPT ![p] = @ + 1] /\ requests' = [requests EXCEPT ![p] = Append(@, r)]
      /\ UNCHANGED <<pc, step, program, reg, chan>>
  BY DEF Request
<1>2. Took' = Took /\ Gave' = Gave
  BY <1>1 DEF Took, Gave
<1>3. Dates(chan, Took, Gave, program)'
  BY <1>1, <1>2 DEF AccordInv
<1>4. n \in Node /\ s \in Nat /\ s < Len(program.coll) /\ d \in Nat /\ pc[n] = "compute"
      /\ p \in DOMAIN done /\ p \in DOMAIN requests
  BY HomeAndLocal DEF TypeInv, ControlTyped, ContextsOK, Computing
<1>5. asked \in Seq(Requested) /\ Len(asked) = Len(program.coll[s+1][p]) /\ Len(asked) \in Nat
  BY <1>4, Superstep
<1>6. Accords(p)'
  <2>1. d + 1 <= Len(asked) /\ r = asked[d+1]
    BY <1>4, <1>5
  <2>2. requests[p] = SubSeq(asked, 1, d)
    BY <1>4 DEF AccordInv, Accords
  <2>3. SubSeq(asked, 1, d + 1) = Append(SubSeq(asked, 1, d), r)
    <3> HIDE DEF asked, d
    <3>1. 1 \in 1 .. Len(asked) /\ d + 1 \in 1 .. Len(asked) /\ (d + 1) - 1 = d
      BY <1>4, <1>5, <2>1
    <3>2. SubSeq(asked, 1, d + 1) = SubSeq(asked, 1, d) \o <<asked[d+1]>>
      BY <1>5, <3>1, SubSeqRecursiveSecond
    <3>3. SubSeq(asked, 1, d) \in Seq(Requested) /\ r \in Requested
      <4>1. \A i \in 1 .. d+1 : asked[i] \in Requested
        BY <1>5, <3>1, ElementOfSeq
      <4> QED BY <1>4, <2>1, <3>1, <4>1, SubSeqProperties
    <3> QED BY <2>1, <3>2, <3>3, AppendIsConcat
  <2>4. done'[p] = d + 1 /\ requests'[p] = Append(requests[p], r)
    BY <1>1, <1>4
  <2>5. reg[p] = Rows(program)[s]
    BY <1>4 DEF AccordInv, Accords, Processing
  <2>6. d + 1 <= Len(program.coll[s+1][p])
    BY <1>5, <2>1
  <2>7. /\ reg'[p] = Rows(program')[step'[n]] /\ pc'[n] = "compute"
        /\ done'[p] <= Len(program'.coll[step'[n]+1][p])
        /\ requests'[p] = SubSeq(AskedIn(program', step'[n]+1)[p], 1, done'[p])
    BY <1>1, <1>4, <2>2, <2>3, <2>4, <2>5, <2>6
  <2> HIDE DEF s, asked, d
  <2> QED BY <2>7 DEF Accords, Processing
<1>7. ASSUME NEW q \in Global, q # p PROVE Accords(q)'
  <2>1. done'[q] = done[q] /\ requests'[q] = requests[q]
    BY <1>1, <1>7 DEF TypeInv, ControlTyped, ContextsOK
  <2> QED BY <1>1, <2>1, OthersAccord DEF AccordInv
<1>8. ASSUME NEW m \in Node PROVE FoundEven(m)'
  BY <1>1 DEF AccordInv, FoundEven
<1> QED BY <1>3, <1>6, <1>7, <1>8 DEF AccordInv

LEMMA PushPopAccords ==
  ASSUME TypeInv, AccordInv, NEW p \in Global, PushReg(p) \/ PopReg(p)
  PROVE  AccordInv'
<1> DEFINE n == Home(p)
           s == step[n]
           d == done[p]
           list == program.coll[s+1][p]
           rows == reg[p]
           asked == AskedIn(program, s + 1)[p]
<1>1. /\ n \in Node /\ s \in Nat /\ s < Len(program.coll) /\ d \in Nat /\ pc[n] = "compute"
      /\ d < Len(list) /\ Computing(n)
  BY HomeAndLocal DEF TypeInv, ControlTyped, Computing, PushReg, PopReg, MustCall
<1>2. Len(list) \in Nat /\ Len(asked) = Len(list) /\ asked \in Seq(Requested)
  BY <1>1, Superstep
<1>3. rows = Rows(program)[s] /\ rows \in Register /\ requests[p] = SubSeq(asked, 1, d)
  BY <1>1, Superstep DEF AccordInv, Accords, Processing
<1>4. d + 1 \in 1 .. Len(list)
  <2> HIDE DEF d, list
  <2> QED BY <1>1, <1>2
<1>5. list[d+1] \in Registration /\ asked[d+1] = RequestFor(rows, p, list[d+1], d+1)
  BY <1>1, <1>3, <1>4, Asks
<1>6. NextAddr(p) = list[d+1].addr
  BY DEF NextAddr
<1>7. CASE PushReg(p)
  <2>1. list[d+1].op = "push" /\ Request(p, [addr |-> NextAddr(p), serial |-> NewSerial(p), push |-> TRUE])
    BY <1>7 DEF PushReg, MustCall
  <2>2. NewSerial(p) = Len(rows) + (d + 1) - 1
    <3>1. Len(requests[p]) = d
      <4> HIDE DEF asked, d, list
      <4>1. \A i \in 1 .. d : asked[i] \in Requested
        <5>1. \A i \in 1 .. d : i \in 1 .. Len(asked)
          BY <1>1, <1>2, <1>4
        <5> QED BY <1>2, <5>1, ElementOfSeq
      <4> QED BY <1>1, <1>3, <4>1, SubSeqProperties
    <3>2. Len(rows) \in Nat
      BY <1>3, LenProperties DEF Register
    <3>3. NewSerial(p) = Len(rows) + d
      BY <3>1 DEF NewSerial
    <3> HIDE DEF rows, d
    <3> QED BY <1>1, <3>2, <3>3
  <2>3. asked[d+1] = [addr |-> NextAddr(p), serial |-> NewSerial(p), push |-> TRUE]
    <3> HIDE DEF asked, list, rows, d
    <3> QED BY <1>5, <1>6, <2>1, <2>2 DEF RequestFor
  <2> QED BY <1>1, <2>1, <2>3, RequestAccords
<1>8. CASE PopReg(p) /\ HasRow(reg[p], p, NextAddr(p))
  <2> DEFINE serial == rows[Row(rows, p, NextAddr(p))].serial
  <2>1. /\ list[d+1].op = "pop"
        /\ Request(p, [addr |-> NextAddr(p), push |-> FALSE, serial |-> serial])
    BY <1>8 DEF PopReg, MustCall
  <2>2. asked[d+1] = [addr |-> NextAddr(p), push |-> FALSE, serial |-> serial]
    <3>1. HasRow(rows, p, NextAddr(p))
      BY <1>8
    <3> HIDE DEF asked, list, rows, d
    <3> QED BY <1>5, <1>6, <2>1, <3>1 DEF RequestFor
  <2> QED BY <1>1, <2>1, <2>2, RequestAccords
<1>9. CASE PopReg(p) /\ ~HasRow(reg[p], p, NextAddr(p))
  <2>1. Abort
    BY <1>9 DEF PopReg
  <2> QED BY <2>1, CallAccords DEF Abort
<1> QED BY <1>7, <1>8, <1>9

-----------------------------------------------------------------------------
(* bsp_sync: what a node learns, and what it does with the registers.      *)

LEMMA EnterSyncAccords ==
  ASSUME TypeInv, AccordInv, NEW n \in Node, EnterSync(n)
  PROVE  AccordInv'
<1>1. CASE Abort
  BY <1>1, CallAccords DEF Abort
<1>2. CASE ~Abort
  <2> DEFINE s == step[n]
             list == program.coll[s+1]
             said == [m \in Node |-> [gets |-> Requesting(n), msgs |-> Delivering(n),
                                      regs |-> {Len(requests[p]) : p \in On(n)}]]
  <2>1. /\ Computing(n)
        /\ \A p \in On(n) : done[p] = Len(list[p])
        /\ \A p, q \in On(n) : Len(requests[p]) = Len(requests[q])
        /\ chan' = Sent(chan, n, "info", said)
        /\ pc' = [pc EXCEPT ![n] = "info"]
        /\ UNCHANGED <<step, program, done, reg, requests>>
    BY <1>2 DEF EnterSync
  <2>2. s \in Nat /\ s < Len(program.coll) /\ pc[n] = "compute" /\ n \in DOMAIN pc
    BY <2>1 DEF Computing, TypeInv, ControlTyped
  <2>3. ASSUME NEW p \in On(n)
        PROVE  /\ p \in Global /\ Home(p) = n /\ requests[p] = AskedIn(program, s+1)[p]
               /\ Len(requests[p]) = Len(list[p])
    <3> DEFINE asked == AskedIn(program, s+1)[p]
    <3>1. p \in Global /\ Home(p) = n
      BY DEF On
    <3>2. asked \in Seq(Requested) /\ Len(asked) = Len(list[p])
      BY <2>2, <3>1, Superstep
    <3>3. requests[p] = SubSeq(asked, 1, done[p])
      BY <2>2, <3>1 DEF AccordInv, Accords
    <3>4. done[p] = Len(asked)
      BY <2>1, <3>2
    <3> HIDE DEF asked, list
    <3>5. requests[p] = asked
      BY <3>2, <3>3, <3>4, SubSeqFull
    <3> QED BY <3>1, <3>2, <3>5 DEF asked
  <2>4. EvenOn(n, list)
    <3> HIDE DEF list
    <3> QED BY <2>1, <2>3 DEF EvenOn
  <2>5. {Len(requests[p]) : p \in On(n)} = {Len(list[p]) : p \in On(n)}
    <3> HIDE DEF list
    <3> QED BY <2>3
  <2>6. Took' = Took
    BY <2>1, <2>2 DEF Took, TypeInv, ControlTyped
  <2>7. /\ \A x \in Node : x # n => Gave'[x] = Gave[x]
        /\ Gave'[n] = s + 1 /\ Gave[n] = s
    BY <2>1, <2>2 DEF Gave, TypeInv, ControlTyped
  <2>8. \A m \in Node : Told([kind |-> "info", body |-> said[m]], n, s + 1, program)
    <3> HIDE DEF s
    <3> QED BY <2>4, <2>5 DEF Told
  <2>9. Dates(Sent(chan, n, "info", said), Took, Gave', program)
    <3>1. Filled(chan) /\ Dates(chan, Took, Gave, program) /\ s + 1 \in Nat
      BY <2>2 DEF TypeInv, AccordInv
    <3> HIDE DEF said, s
    <3> QED BY <2>7, <2>8, <3>1, SentDated
  <2>10. Dates(chan, Took, Gave, program)'
    BY <2>1, <2>6, <2>9
  <2>11. ASSUME NEW p \in Global PROVE Accords(p)'
    <3>1. CASE p \in On(n)
      <4>1. Home(p) = n /\ requests[p] = AskedIn(program, s+1)[p]
        BY <2>3, <3>1
      <4>2. reg[p] = Rows(program)[s]
        BY <2>2, <4>1 DEF AccordInv, Accords, Processing
      <4>3. pc'[n] = "info"
        BY <2>1, <2>2
      <4> QED BY <2>1, <4>1, <4>2, <4>3 DEF Accords, Processing
    <3>2. CASE p \notin On(n)
      <4>1. Home(p) # n /\ Home(p) \in Node
        BY <3>2, HomeAndLocal DEF On
      <4>2. pc'[Home(p)] = pc[Home(p)]
        BY <2>1, <4>1 DEF TypeInv, ControlTyped
      <4> QED BY <2>1, <4>2, OthersAccord DEF AccordInv
    <3> QED BY <3>1, <3>2
  <2>12. ASSUME NEW m \in Node PROVE FoundEven(m)'
    <3>1. CASE m = n
      BY <2>1, <2>4, <3>1 DEF FoundEven
    <3>2. CASE m # n
      <4>1. pc'[m] = pc[m]
        BY <2>1, <3>2 DEF TypeInv, ControlTyped
      <4> QED BY <2>1, <4>1 DEF AccordInv, FoundEven
    <3> QED BY <3>1, <3>2
  <2> QED BY <2>10, <2>11, <2>12 DEF AccordInv
<1> QED BY <1>1, <1>2

(* The node has taken a block from every node, the next one of each.       *)
LEMMA TakesNext ==
  ASSUME TypeInv, AccordInv, CollectivesMatch, NEW n \in Node, pc[n] # "compute", CanLeave(n),
         NEW took, \A x \in Node : x # n => took[x] = Took[x], took[n] = step[n] + 1
  PROVE  /\ Dates(Taken(n), took, Gave, program)
         /\ \A m \in Node : Told([kind |-> pc[n], body |-> Received(n, m)], m, step[n] + 1, program)
<1>1. took[n] = IF pc[n] = "info" THEN Took[n] + 1 ELSE Took[n]
  BY DEF Took
<1>2. Filled(chan) /\ Dates(chan, Took, Gave, program)
  BY DEF TypeInv, AccordInv
<1> QED BY <1>1, <1>2, TakenDated

(* The node has gone on to another exchange of this superstep. *)
LEMMA GoingOnAccords ==
  ASSUME TypeInv, AccordInv, CollectivesMatch, NEW n \in Node, pc[n] # "compute", CanLeave(n),
         NEW kind \in {"reg", "req", "deliv"}, NEW blocks,
         chan' = Sent(Taken(n), n, kind, blocks), pc' = [pc EXCEPT ![n] = kind],
         UNCHANGED <<step, program, done>>,
         kind = "reg" => \A m \in Node : \A p \in On(n) : blocks[m][p] = AskedIn(program, step[n] + 1)[p],
         \A p \in Global : p \notin On(n) => reg'[p] = reg[p] /\ requests'[p] = requests[p],
         \A p \in On(n) : /\ requests'[p] = <<>>
                          /\ reg'[p] = Rows(program)[IF kind = "reg" THEN step[n] ELSE step[n] + 1]
  PROVE  AccordInv'
<1> DEFINE s == step[n]
<1>1. s \in Nat /\ pc' \in [Node -> {"compute", "info", "reg", "req", "deliv"}] /\ pc'[n] = kind
  BY DEF TypeInv, ControlTyped
<1>2. /\ \A x \in Node : x # n => pc'[x] = pc[x]
      /\ \A x \in Node : x # n => Took'[x] = Took[x]
      /\ Took'[n] = s + 1
  BY <1>1 DEF Took, TypeInv, ControlTyped
<1>3. Gave'[n] = s + 1 /\ Gave[n] = s + 1 /\ \A x \in Node : x # n => Gave'[x] = Gave[x]
  BY <1>1, <1>2 DEF Gave
<1>4. EvenOn(n, program.coll[s+1])
  BY DEF AccordInv, FoundEven
<1>5. \A m \in Node : Told([kind |-> kind, body |-> blocks[m]], n, Gave'[n], program)
  BY <1>3, <1>4 DEF Told
<1>6. Dates(Sent(Taken(n), n, kind, blocks), Took', Gave', program)
  <2>1. Dates(Taken(n), Took', Gave, program)
    <3> HIDE DEF s
    <3> QED BY <1>2, TakesNext DEF s
  <2>2. Filled(Taken(n))
    BY TakenTyped DEF TypeInv
  <2>3. Gave'[n] \in Nat /\ Gave'[n] = IF kind = "info" THEN Gave[n] + 1 ELSE Gave[n]
    BY <1>1, <1>3
  <2> QED BY <1>3, <1>5, <2>1, <2>2, <2>3, SentDated
<1>7. Dates(chan, Took, Gave, program)'
  BY <1>6
<1>8. ASSUME NEW p \in Global PROVE Accords(p)'
  <2>1. CASE p \in On(n)
    <3>1. Home(p) = n /\ requests'[p] = <<>>
          /\ reg'[p] = Rows(program)[IF kind = "reg" THEN step[n] ELSE step[n] + 1]
      BY <2>1 DEF On
    <3> QED BY <1>1, <3>1 DEF Accords, Processing
  <2>2. CASE p \notin On(n)
    <3>1. Home(p) # n /\ Home(p) \in Node
      BY <2>2, HomeAndLocal DEF On
    <3> QED BY <1>2, <2>2, <3>1, OthersAccord DEF AccordInv
  <2> QED BY <2>1, <2>2
<1>9. ASSUME NEW m \in Node PROVE FoundEven(m)'
  <2>1. CASE m = n
    BY <1>4, <2>1 DEF FoundEven
  <2>2. CASE m # n
    BY <1>2, <2>2 DEF AccordInv, FoundEven
  <2> QED BY <2>1, <2>2
<1> QED BY <1>7, <1>8, <1>9 DEF AccordInv

(* The node has completed the superstep. *)
LEMMA FinishAccords ==
  ASSUME TypeInv, AccordInv, CollectivesMatch, NEW n \in Node, pc[n] # "compute", CanLeave(n),
         NEW l, NEW m, Finish(n, l, m), program' = program,
         \A p \in Global : p \notin On(n) => reg'[p] = reg[p] /\ requests'[p] = requests[p],
         \A p \in On(n) : requests'[p] = <<>> /\ reg'[p] = Rows(program)[step[n] + 1]
  PROVE  AccordInv'
<1> DEFINE s == step[n]
<1>1. /\ chan' = Taken(n) /\ pc' = [pc EXCEPT ![n] = "compute"] /\ step' = [step EXCEPT ![n] = @ + 1]
      /\ done' = [p \in Global |-> IF p \in On(n) THEN 0 ELSE done[p]]
  BY DEF Finish
<1>2. s \in Nat /\ pc'[n] = "compute" /\ step'[n] = s + 1
  BY <1>1 DEF TypeInv, ControlTyped
<1>3. \A x \in Node : x # n => pc'[x] = pc[x] /\ step'[x] = step[x]
  BY <1>1 DEF TypeInv, ControlTyped
<1>4. (\A x \in Node : x # n => Took'[x] = Took[x]) /\ Took'[n] = s + 1
  BY <1>2, <1>3 DEF Took
<1>5. Gave' = Gave
  BY <1>2, <1>3 DEF Gave
<1>6. Dates(Taken(n), Took', Gave, program)
  <2> HIDE DEF s
  <2> QED BY <1>4, TakesNext DEF s
<1>7. Dates(chan, Took, Gave, program)'
  BY <1>1, <1>5, <1>6
<1>8. ASSUME NEW p \in Global PROVE Accords(p)'
  <2>1. CASE p \in On(n)
    <3>1. Home(p) = n /\ requests'[p] = <<>> /\ reg'[p] = Rows(program)[s+1] /\ done'[p] = 0
      BY <1>1, <2>1 DEF On
    <3>2. CASE s + 1 < Len(program.coll)
      <4>1. Len(program.coll[(s+1)+1][p]) \in Nat
        BY <1>2, <3>2, Superstep
      <4>2. 0 <= Len(program.coll[(s+1)+1][p])
        <5> DEFINE k == Len(program.coll[(s+1)+1][p])
        <5> HIDE DEF k
        <5>1. 0 <= k
          BY <4>1 DEF k
        <5> QED BY <5>1 DEF k
      <4>3. SubSeq(AskedIn(program, (s+1)+1)[p], 1, 0) = <<>>
        BY SubSeqEmpty
      <4> HIDE DEF s
      <4> QED BY <1>2, <3>1, <4>2, <4>3 DEF Accords, Processing
    <3>3. CASE ~(s + 1 < Len(program.coll))
      <4> HIDE DEF s
      <4> QED BY <1>2, <3>1, <3>3 DEF Accords, Processing
    <3> QED BY <3>2, <3>3
  <2>2. CASE p \notin On(n)
    <3>1. Home(p) # n /\ Home(p) \in Node
      BY <2>2, HomeAndLocal DEF On
    <3>2. done'[p] = done[p]
      BY <1>1, <2>2
    <3> QED BY <1>3, <2>2, <3>1, <3>2, OthersAccord DEF AccordInv
  <2> QED BY <2>1, <2>2
<1>9. ASSUME NEW x \in Node PROVE FoundEven(x)'
  BY <1>2, <1>3 DEF AccordInv, FoundEven
<1> QED BY <1>7, <1>8, <1>9 DEF AccordInv

LEMMA ProceedAccords ==
  ASSUME TypeInv, AccordInv, CollectivesMatch, NEW n \in Node, pc[n] # "compute", CanLeave(n),
         Proceed(n), program' = program,
         \A p \in Global : p \notin On(n) => reg'[p] = reg[p] /\ requests'[p] = requests[p],
         \A p \in On(n) : requests'[p] = <<>> /\ reg'[p] = Rows(program)[step[n] + 1]
  PROVE  AccordInv'
<1>1. CASE exch'[n].gets
  <2>1. /\ chan' = Sent(Taken(n), n, "req", reqTab[n]) /\ pc' = [pc EXCEPT ![n] = "req"]
        /\ UNCHANGED <<step, program, done>>
    BY <1>1 DEF Proceed
  <2> QED BY <2>1, GoingOnAccords
<1>2. CASE ~exch'[n].gets /\ exch'[n].msgs
  <2>1. /\ chan' = Sent(Taken(n), n, "deliv", delTab[n]) /\ pc' = [pc EXCEPT ![n] = "deliv"]
        /\ UNCHANGED <<step, program, done>>
    BY <1>2 DEF Proceed
  <2> QED BY <2>1, GoingOnAccords
<1>3. CASE ~exch'[n].gets /\ ~exch'[n].msgs
  <2>1. Finish(n, local, mem)
    BY <1>3 DEF Proceed
  <2> QED BY <2>1, FinishAccords
<1> QED BY <1>1, <1>2, <1>3

(* Nobody has anything to process: nobody registered anything.             *)
LEMMA NoneToProcess ==
  ASSUME TypeInv, AccordInv, CollectivesMatch, NEW n \in Node, pc[n] = "info", CanLeave(n),
         ~(Registrations(n) > 0)
  PROVE  \A p \in Global : Len(program.coll[step[n] + 1][p]) = 0
<1> DEFINE s == step[n]
           list == program.coll[s+1]
           asked == AskedIn(program, s+1)
           all == {0} \union UNION {Received(n, m).regs : m \in Node}
<1> SUFFICES ASSUME NEW p \in Global PROVE Len(list[p]) = 0
  OBVIOUS
<1>1. s \in Nat /\ s < Len(program.coll)
  BY DEF TypeInv, ControlTyped
<1>2. ASSUME NEW m \in Node PROVE Received(n, m).regs = {Len(list[q]) : q \in On(m)}
  <2> DEFINE took == [x \in Node |-> IF x = n THEN s + 1 ELSE Took[x]]
             body == Received(n, m)
  <2>1. (\A x \in Node : x # n => took[x] = Took[x]) /\ took[n] = step[n] + 1
    OBVIOUS
  <2> HIDE DEF took
  <2>2. Told([kind |-> pc[n], body |-> Received(n, m)], m, step[n] + 1, program)
    BY <2>1, TakesNext
  <2>3. Told([kind |-> "info", body |-> body], m, s + 1, program)
    BY <2>2
  <2> HIDE DEF body, s
  <2> QED BY <2>3 DEF Told, body
<1>3. /\ asked \in [Global -> Seq(Requested)]
      /\ \A q \in Global : Len(asked[q]) = Len(list[q]) /\ Len(list[q]) \in Nat
  BY <1>1, Superstep
<1>4. PICK k \in Nat : \A q \in Global : Len(asked[q]) <= k
  BY <1>3, RoundsAre
<1> HIDE DEF s, asked, list
<1>5. ASSUME NEW q \in Global PROVE Len(list[q]) \in all
  <2>1. Home(q) \in Node /\ q \in On(Home(q))
    BY HomeAndLocal DEF On
  <2> QED BY <1>2, <2>1
<1>6. all \in SUBSET (0 .. k) /\ all # {}
  <2>1. \A q \in Global : Len(list[q]) \in 0 .. k
    BY <1>3, <1>4
  <2>2. \A m \in Node : Received(n, m).regs \subseteq 0 .. k
    BY <1>2, <2>1 DEF On
  <2>3. 0 \in 0 .. k
    BY <1>4
  <2> QED BY <2>2, <2>3
<1>7. Registrations(n) = Max(all)
  BY DEF Registrations
<1> HIDE DEF all
<1>8. Max(all) \in 0 .. k /\ \A j \in all : j <= Max(all)
  BY <1>4, <1>6, MaxOfInterval
<1>9. Len(list[p]) <= Max(all) /\ ~(Max(all) > 0) /\ Max(all) \in Nat
  BY <1>4, <1>5, <1>7, <1>8
<1> QED BY <1>3, <1>9

LEMMA LeaveInfoAccords ==
  ASSUME TypeInv, AccordInv, CollectivesMatch, NEW n \in Node, LeaveInfo(n)
  PROVE  AccordInv'
<1> DEFINE s == step[n]
           list == program.coll[s+1]
           asked == AskedIn(program, s+1)
           blocks == [m \in Node |-> [p \in On(n) |-> requests[p]]]
<1>1. /\ pc[n] = "info" /\ CanLeave(n) /\ program' = program /\ reg' = reg
      /\ s \in Nat /\ s < Len(program.coll)
  BY DEF LeaveInfo, TypeInv, ControlTyped
<1>2. ASSUME NEW p \in On(n)
      PROVE  p \in Global /\ requests[p] = asked[p] /\ reg[p] = Rows(program)[s]
  BY <1>1 DEF On, AccordInv, Accords, Processing
<1>3. CASE Registrations(n) > 0
  <2>1. /\ chan' = Sent(Taken(n), n, "reg", blocks)
        /\ requests' = [p \in Global |-> IF p \in On(n) THEN <<>> ELSE requests[p]]
        /\ pc' = [pc EXCEPT ![n] = "reg"] /\ UNCHANGED <<step, done>>
    BY <1>3 DEF LeaveInfo
  <2>2. \A m \in Node : \A p \in On(n) : blocks[m][p] = asked[p]
    BY <1>2
  <2>3. \A p \in Global : p \notin On(n) => reg'[p] = reg[p] /\ requests'[p] = requests[p]
    BY <1>1, <2>1
  <2>4. \A p \in On(n) : requests'[p] = <<>> /\ reg'[p] = Rows(program)[s]
    BY <1>1, <1>2, <2>1
  <2> DEFINE kind == "reg"
  <2>5. /\ kind \in {"reg", "req", "deliv"} /\ pc[n] # "compute" /\ CanLeave(n)
        /\ chan' = Sent(Taken(n), n, kind, blocks) /\ pc' = [pc EXCEPT ![n] = kind]
        /\ UNCHANGED <<step, program, done>>
        /\ kind = "reg" => \A m \in Node : \A p \in On(n) : blocks[m][p] = AskedIn(program, step[n] + 1)[p]
        /\ \A p \in On(n) : /\ requests'[p] = <<>>
                            /\ reg'[p] = Rows(program)[IF kind = "reg" THEN step[n] ELSE step[n] + 1]
    BY <1>1, <2>1, <2>2, <2>4
  <2> HIDE DEF blocks, kind
  <2> QED BY <2>3, <2>5, GoingOnAccords
<1>4. CASE ~(Registrations(n) > 0)
  <2>1. Proceed(n) /\ requests' = requests
    BY <1>4 DEF LeaveInfo
  <2>2. ASSUME NEW p \in On(n) PROVE requests'[p] = <<>> /\ reg'[p] = Rows(program)[s+1]
    <3>1. p \in Global /\ 0 \in Global
      BY <1>2, FirstOfAll
    <3>2. Len(list[p]) = 0 /\ Len(list[0]) = 0
      BY <1>1, <1>4, <3>1, NoneToProcess
    <3>3. /\ asked[p] \in Seq(Requested) /\ Len(asked[p]) = Len(list[p])
          /\ list \in Lists /\ Rows(program)[s] \in Register
          /\ Rows(program)[s+1] = RowsAfter(Rows(program)[s], list)
      BY <1>1, <3>1, Superstep
    <3> HIDE DEF list, asked, s
    <3>4. asked[p] = <<>>
      BY <3>2, <3>3, EmptySeq
    <3>5. Rows(program)[s+1] = Rows(program)[s]
      BY <3>1, <3>2, <3>3, NoRows
    <3> QED BY <1>1, <1>2, <2>1, <3>4, <3>5
  <2> QED BY <1>1, <2>1, <2>2, ProceedAccords
<1> QED BY <1>3, <1>4

(* All nodes process the same requests, those of the program, and nothing  *)
(* that was not written.                                                   *)
LEMMA LeaveRegAccords ==
  ASSUME LegalPrograms, TypeInv, AccordInv, CollectivesMatch, NEW n \in Node, LeaveReg(n)
  PROVE  AccordInv'
<1> DEFINE s == step[n]
           list == program.coll[s+1]
           asked == AskedIn(program, s+1)
<1>1. /\ pc[n] = "reg" /\ CanLeave(n) /\ s \in Nat /\ s < Len(program.coll)
  BY DEF LeaveReg, TypeInv, ControlTyped
<1>2. CASE Abort
  BY <1>2, CallAccords DEF Abort
<1>3. CASE ~Abort
  <2>1. PICK stale \in Unwritten(Requests(n)) :
          /\ ~Throws(n, Completed(Requests(n), stale))
          /\ reg' = [p \in Global |->
               IF p \in On(n) THEN RegAfter(reg[p], p, Completed(Requests(n), stale),
                                            Len(Completed(Requests(n), stale)[p]))
               ELSE reg[p]]
          /\ UNCHANGED <<program, requests>>
          /\ Proceed(n)
    BY <1>3 DEF LeaveReg
  <2>2. ASSUME NEW m \in Node
        PROVE  EvenOn(m, list) /\ \A p \in On(m) : Received(n, m)[p] = asked[p]
    <3> DEFINE took == [x \in Node |-> IF x = n THEN s + 1 ELSE Took[x]]
               body == Received(n, m)
    <3>1. (\A x \in Node : x # n => took[x] = Took[x]) /\ took[n] = step[n] + 1
      OBVIOUS
    <3> HIDE DEF took
    <3>2. Told([kind |-> pc[n], body |-> Received(n, m)], m, step[n] + 1, program)
      BY <1>1, <3>1, TakesNext
    <3>3. Told([kind |-> "reg", body |-> body], m, s + 1, program)
      BY <1>1, <3>2
    <3> HIDE DEF body, s
    <3> QED BY <3>3 DEF Told, body
  <2>3. ASSUME NEW p \in On(n) PROVE requests'[p] = <<>> /\ reg'[p] = Rows(program)[s+1]
    <3>1. p \in Global /\ Home(p) = n /\ 0 \in Global
      BY FirstOfAll DEF On
    <3>2. requests[p] = <<>> /\ reg[p] = Rows(program)[s]
      BY <1>1, <3>1 DEF AccordInv, Accords, Processing
    <3>3. /\ list \in Lists /\ Rows(program)[s] \in Register
          /\ asked = Asked(Rows(program)[s], list) /\ asked \in [Global -> Seq(Requested)]
          /\ Rows(program)[s+1] = RowsAfter(Rows(program)[s], list)
          /\ s + 1 \in 1 .. Len(program.coll) /\ (s + 1) - 1 = s
      BY <1>1, <3>1, Superstep
    <3>4. \A q \in Global : Len(asked[q]) = Len(list[q])
      BY <1>1, Superstep
    <3>5. Requests(n) = asked
      <4>1. \A q \in Global : Received(n, Home(q))[q] = asked[q]
        BY <2>2, HomeAndLocal DEF On
      <4>2. Requests(n) = [q \in Global |-> asked[q]]
        BY <4>1 DEF Requests
      <4> HIDE DEF asked
      <4> QED BY <3>3, <4>2
    <3>6. Even(list) /\ PopsAgree(Rows(program)[s], list)
      <4>1. Legal(program)
        BY DEF LegalPrograms, TypeInv, ControlTyped
      <4>2. s + 1 \in DOMAIN program.coll
        <5>1. program.coll \in Seq([Global -> Seq(Registration)])
          BY ProgramsAssumption DEF TypeInv, ControlTyped
        <5> HIDE DEF s
        <5> QED BY <3>3, <5>1, LenProperties
      <4>3. /\ Even(program.coll[s+1])
            /\ PopsAgree(Rows(program)[(s+1)-1], program.coll[s+1])
        <5> HIDE DEF s
        <5> QED BY <2>2, <4>1, <4>2 DEF Legal
      <4> QED BY <3>3, <4>3
    <3> HIDE DEF s, list, asked
    <3>7. Even(asked)
      BY <3>4, <3>6 DEF Even
    <3>8. Completed(Requests(n), stale) = asked /\ Rounds(asked) = 1 .. Len(asked[0])
      BY <3>1, <3>3, <3>5, <3>7, NothingStale
    <3>9. \A k \in 1 .. Len(list[0]) : Alike(asked, k)
      BY <2>1, <3>1, <3>4, <3>8 DEF Throws
    <3>10. RegAfter(Rows(program)[s], p, asked, Len(list[0])) = Rows(program)[s+1]
      BY <3>1, <3>3, <3>6, <3>9, SameRows
    <3>11. Len(asked[p]) = Len(list[0])
      BY <3>1, <3>4, <3>6 DEF Even
    <3>12. reg'[p] = RegAfter(reg[p], p, asked, Len(asked[p]))
      BY <2>1, <3>1, <3>8
    <3> QED BY <2>1, <3>2, <3>10, <3>11, <3>12
  <2>4. \A p \in Global : p \notin On(n) => reg'[p] = reg[p] /\ requests'[p] = requests[p]
    BY <2>1
  <2> QED BY <1>1, <2>1, <2>3, <2>4, ProceedAccords
<1> QED BY <1>2, <1>3

LEMMA LaterAccords ==
  ASSUME TypeInv, AccordInv, CollectivesMatch, NEW n \in Node, LeaveReq(n) \/ LeaveDeliv(n)
  PROVE  AccordInv'
<1>1. /\ pc[n] \in {"req", "deliv"} /\ CanLeave(n)
      /\ UNCHANGED <<program, reg, requests>>
  BY DEF LeaveReq, LeaveDeliv
<1>2. ASSUME NEW p \in On(n) PROVE requests'[p] = <<>> /\ reg'[p] = Rows(program)[step[n] + 1]
  BY <1>1 DEF On, AccordInv, Accords, Processing
<1>3. CASE LeaveReq(n)
  <2>1. PICK blocks : chan' = Sent(Taken(n), n, "deliv", blocks)
    BY <1>3 DEF LeaveReq
  <2>2. pc' = [pc EXCEPT ![n] = "deliv"] /\ UNCHANGED <<step, done>>
    BY <1>3 DEF LeaveReq
  <2> QED BY <1>1, <1>2, <2>1, <2>2, GoingOnAccords
<1>4. CASE LeaveDeliv(n)
  <2>1. PICK l, m : Finish(n, l, m)
    BY <1>4 DEF LeaveDeliv
  <2> QED BY <1>1, <1>2, <2>1, FinishAccords
<1> QED BY <1>3, <1>4

LEMMA NextAccords ==
  ASSUME LegalPrograms, TypeInv, AccordInv, CollectivesMatch, [Next]_vars
  PROVE  AccordInv'
<1>1. CASE \E n \in Node : EnterSync(n) \/ InSync(n)
  BY <1>1, EnterSyncAccords, LeaveInfoAccords, LeaveRegAccords, LaterAccords DEF InSync
<1>2. CASE \E p \in Global : PushReg(p) \/ PopReg(p)
  BY <1>2, PushPopAccords
<1>3. CASE UNCHANGED <<pc, step, program, done, reg, requests, chan>>
  BY <1>3, CallAccords
<1>4. ASSUME NEW p \in Global, NEW q \in Global, NEW a \in Addr, NEW b \in Addr,
             Put(p, q, a, b) \/ Get(p, q, a, b) \/ HpPut(p, q, a, b) \/ HpGet(p, q, a, b)
      PROVE  UNCHANGED <<pc, step, program, done, reg, requests, chan>>
  BY <1>4 DEF Put, Get, HpPut, HpGet, RemotePut, RemoteGet, Enqueue, Store, Tabulate
<1>5. ASSUME NEW p \in Global, NEW q \in Global, NEW body \in Payload,
             Send(p, q, body) \/ HpSend(p, q, body)
      PROVE  UNCHANGED <<pc, step, program, done, reg, requests, chan>>
  BY <1>5 DEF Send, HpSend, SendLocal, SendRemote, Enqueue, Tabulate
<1>6. ASSUME NEW p \in Global, Move(p) \/ \E a \in Addr, v \in NewVal : Write(p, a, v)
      PROVE  UNCHANGED <<pc, step, program, done, reg, requests, chan>>
  BY <1>6 DEF Move, Write, Enqueue, Store
<1>7. CASE Over \/ UNCHANGED vars
  BY <1>3, <1>7 DEF Over, vars
<1> QED BY <1>1, <1>2, <1>3, <1>4, <1>5, <1>6, <1>7 DEF Next

(* Contexts that have completed the same supersteps have the same          *)
(* registers, whatever each node takes for itself from the blocks it       *)
(* receives and however far the others are: provided that the programs     *)
(* make their registrations collectively, as the library requires.         *)
THEOREM RegistersAlwaysAgree ==
  ASSUME LegalPrograms
  PROVE  Spec => []RegistersAgree
<1>1. AccordInv => RegistersAgree
  BY DEF AccordInv, Accords, Processing, RegistersAgree
<1>2. TypeInv /\ AccordInv /\ CollectivesMatch /\ [Next]_vars => AccordInv'
  BY NextAccords
<1> QED BY <1>1, <1>2, InitTyped, NextTyped, InitAccords, NodesMeet, PTL DEF Spec

=============================================================================
