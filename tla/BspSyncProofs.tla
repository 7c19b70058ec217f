---------------------------- MODULE BspSyncProofs ----------------------------
(***************************************************************************)
(* Proofs about BspSync, for any number of processes, any program and any  *)
(* number of supersteps: the processes always meet in the same collective, *)
(* bspx_sync is a barrier, the state keeps its types, and the registers    *)
(* and the tag sizes of all processes agree if the program is legal.  The  *)
(* second half proves that BspSync implements Bsplib.                      *)
(***************************************************************************)
EXTENDS BspSyncInv, BspSyncRef, SequenceTheorems, Recursion, TLAPS

-----------------------------------------------------------------------------
(* Short sequences. *)

LEMMA AppendToOne ==
  ASSUME NEW a, NEW b
  PROVE  Append(<<a>>, b) = <<a, b>>
<1> DEFINE S == {a, b}
           s == Append(<<a>>, b)
           t == <<a, b>>
<1>1. <<a>> \in Seq(S) /\ t \in Seq(S) /\ b \in S
  OBVIOUS
<1>2. s \in Seq(S) /\ Len(s) = 2 /\ Len(t) = 2
  BY <1>1
<1>3. s[1] = a /\ s[2] = b
  BY <1>1
<1>4. t[1] = a /\ t[2] = b
  OBVIOUS
<1>5. \A i \in 1 .. Len(s) : s[i] = t[i]
  <2> HIDE DEF s, t
  <2> QED BY <1>2, <1>3, <1>4
<1> HIDE DEF S, s, t
<1>6. s = t
  BY <1>1, <1>2, <1>5, SeqEqual
<1> QED BY <1>6 DEF s, t

LEMMA AppendToNone ==
  ASSUME NEW b
  PROVE  Append(<<>>, b) = <<b>>
OBVIOUS

LEMMA OfOne ==
  ASSUME NEW a
  PROVE  /\ Len(<<a>>) = 1 /\ <<a>> # <<>>
         /\ <<a>>[1] = a /\ Head(<<a>>) = a /\ Tail(<<a>>) = <<>>
OBVIOUS

LEMMA OfTwo ==
  ASSUME NEW a, NEW b
  PROVE  /\ Len(<<a, b>>) = 2 /\ <<a, b>> # <<>>
         /\ <<a, b>>[1] = a /\ <<a, b>>[2] = b
         /\ Head(<<a, b>>) = a /\ Tail(<<a, b>>) = <<b>>
OBVIOUS

-----------------------------------------------------------------------------
(* What entering and leaving a collective does to the blocks on their way. *)

LEMMA EnterChan ==
  ASSUME ControlTypeOK, NEW p \in Proc, NEW blocks, Enter(p, blocks)
  PROVE  /\ DOMAIN chan' = Proc /\ \A q \in Proc : DOMAIN chan'[q] = Proc
         /\ \A q, r \in Proc : chan'[q][r] = IF q = p THEN Append(chan[q][r], blocks[r])
                                                     ELSE chan[q][r]
BY DEF ControlTypeOK, Enter

LEMMA LeaveAndEnterChan ==
  ASSUME ControlTypeOK, NEW p \in Proc, NEW blocks, LeaveAndEnter(p, blocks)
  PROVE  /\ DOMAIN chan' = Proc /\ \A q \in Proc : DOMAIN chan'[q] = Proc
         /\ \A q, r \in Proc :
              chan'[q][r] = LET rest == IF r = p THEN Tail(chan[q][r]) ELSE chan[q][r]
                            IN  IF q = p THEN Append(rest, blocks[r]) ELSE rest
BY DEF ControlTypeOK, LeaveAndEnter

LEMMA LeaveChan ==
  ASSUME ControlTypeOK, NEW p \in Proc, Leave(p)
  PROVE  /\ DOMAIN chan' = Proc /\ \A q \in Proc : DOMAIN chan'[q] = Proc
         /\ \A q, r \in Proc : chan'[q][r] = IF r = p THEN Tail(chan[q][r]) ELSE chan[q][r]
BY DEF ControlTypeOK, Leave

(* The blocks from q to r that a step leaves alone. *)
LEMMA SameBlocks ==
  ASSUME NEW q, NEW r, chan'[q][r] = chan[q][r], IssuedGets(q)' = IssuedGets(q)
  PROVE  /\ None(q, r)' <=> None(q, r)
         /\ \A k : One(q, r, k)' <=> One(q, r, k)
         /\ \A k, l : Two(q, r, k, l)' <=> Two(q, r, k, l)
<1>1. \A b, k : IsBlock(b, q, k)' <=> IsBlock(b, q, k)
  BY DEF IsBlock, IssuedGets
<1>2. None(q, r)' <=> None(q, r)
  BY DEF None
<1>3. ASSUME NEW k PROVE One(q, r, k)' <=> One(q, r, k)
  BY <1>1 DEF One
<1>4. ASSUME NEW k, NEW l PROVE Two(q, r, k, l)' <=> Two(q, r, k, l)
  BY <1>1 DEF Two
<1> QED BY <1>2, <1>3, <1>4

LEMMA DelivStays ==
  ASSUME NEW q, NEW r, chan'[q][r] = chan[q][r], One(q, r, "deliv")
  PROVE  One(q, r, "deliv")'
BY DEF One, IsBlock

(* What taking the first block, giving another one, or both, leaves on the *)
(* way from q to r.                                                        *)
LEMMA TakeOne ==
  ASSUME NEW q, NEW r, NEW k, One(q, r, k), chan'[q][r] = Tail(chan[q][r])
  PROVE  None(q, r)'
BY OfOne DEF One, None

LEMMA TakeOfTwo ==
  ASSUME NEW q, NEW r, NEW k, NEW l, Two(q, r, k, l), chan'[q][r] = Tail(chan[q][r]),
         l = "info" => (IssuedGets(q)' = IssuedGets(q))
  PROVE  One(q, r, l)'
<1>1. PICK a, b : chan[q][r] = <<a, b>> /\ IsBlock(b, q, l)
  BY DEF Two
<1>2. IsBlock(b, q, l)'
  BY <1>1 DEF IsBlock
<1>3. chan'[q][r] = <<b>>
  BY <1>1, OfTwo
<1> QED BY <1>2, <1>3, OfOne DEF One

LEMMA GiveToNone ==
  ASSUME NEW q, NEW r, NEW k, NEW b, None(q, r), chan'[q][r] = Append(chan[q][r], b),
         IsBlock(b, q, k)'
  PROVE  One(q, r, k)'
BY AppendToNone, OfOne DEF One, None

LEMMA GiveToOne ==
  ASSUME NEW q, NEW r, NEW k, NEW l, NEW b, One(q, r, k), chan'[q][r] = Append(chan[q][r], b),
         IsBlock(b, q, l)', k = "info" => (IssuedGets(q)' = IssuedGets(q))
  PROVE  Two(q, r, k, l)'
<1>1. PICK a : chan[q][r] = <<a>> /\ IsBlock(a, q, k)
  BY DEF One
<1>2. IsBlock(a, q, k)'
  BY <1>1 DEF IsBlock
<1>3. chan'[q][r] = <<a, b>>
  BY <1>1, AppendToOne
<1> QED BY <1>2, <1>3, OfTwo DEF Two

LEMMA TakeAndGive ==
  ASSUME NEW q, NEW r, NEW k, NEW l, NEW b, One(q, r, k),
         chan'[q][r] = Append(Tail(chan[q][r]), b), IsBlock(b, q, l)'
  PROVE  One(q, r, l)'
<1>1. chan'[q][r] = <<b>>
  BY AppendToNone, OfOne DEF One
<1> QED BY <1>1, OfOne DEF One

-----------------------------------------------------------------------------
(* The invariant holds at the start, and every step keeps it. *)

LEMMA InitControl == Init => ControlInv
<1> SUFFICES ASSUME Init PROVE ControlInv
  OBVIOUS
<1>1. ControlTypeOK
  BY DEF Init, ControlTypeOK, Kinds
<1>2. InStep
  BY DEF Init, InStep, Meeting, SameStep, None, Agreement, Decided
<1> QED BY <1>1, <1>2 DEF ControlInv

(* What the calls of the program leave alone. *)
LEMMA CallsKeepControl ==
  ASSUME ControlInv, UNCHANGED <<pc, step, chan, anyGets, reqTab>>
  PROVE  ControlInv'
<1>1. ControlTypeOK'
  BY DEF ControlInv, ControlTypeOK
<1>2. \A p \in Proc : IssuedGets(p)' = IssuedGets(p)
  BY DEF IssuedGets
<1>3. ASSUME NEW p \in Proc, NEW q \in Proc PROVE Meeting(p, q)' /\ Agreement(p, q)'
  <2>1. Meeting(p, q) /\ Agreement(p, q)
    BY DEF ControlInv, InStep
  <2>2. Meeting(p, q)'
    BY <2>1, <1>2, SameBlocks DEF Meeting, SameStep, Ahead, Behind
  <2>3. Agreement(p, q)'
    BY <2>1, <1>2 DEF Agreement, Decided, SomeIssued
  <2> QED BY <2>2, <2>3
<1> QED BY <1>1, <1>3 DEF ControlInv, InStep

(* A process in the program has no block of the exchange of sizes on its   *)
(* way, and no process that decided is in its superstep.                   *)
LEMMA GetKeepsControl ==
  ASSUME ControlInv, NEW p \in Proc, NEW q \in Proc, NEW a, NEW b, Get(p, q, a, b)
  PROVE  ControlInv'
<1>1. /\ pc[p] = "compute" /\ UNCHANGED <<pc, step, chan, anyGets>>
      /\ DOMAIN reqTab' = Proc
      /\ \A r \in Proc \ {p} : reqTab'[r] = reqTab[r]
  BY DEF ControlInv, ControlTypeOK, Get, MayCall, Computing
<1>2. ControlTypeOK'
  BY <1>1 DEF ControlInv, ControlTypeOK
<1>3. ASSUME NEW r \in Proc, NEW s \in Proc PROVE Meeting(r, s)'
  <2>1. Meeting(r, s)
    BY DEF ControlInv, InStep
  <2>2. CASE r = p
    BY <2>1, <2>2, <1>1 DEF Meeting, SameStep, Ahead, Behind, None, One, IsBlock
  <2>3. CASE r # p
    <3>1. IssuedGets(r)' = IssuedGets(r)
      BY <2>3, <1>1 DEF IssuedGets
    <3>2. chan'[r][s] = chan[r][s]
      BY <1>1
    <3>3. /\ None(r, s)' <=> None(r, s)
          /\ \A k : One(r, s, k)' <=> One(r, s, k)
          /\ \A k, l : Two(r, s, k, l)' <=> Two(r, s, k, l)
      BY <3>1, <3>2, SameBlocks
    <3>4. UNCHANGED <<pc[r], pc[s], step[r], step[s], anyGets[r], anyGets[s]>>
      BY <1>1
    <3> QED BY <2>1, <3>3, <3>4 DEF Meeting, SameStep, Ahead, Behind
  <2> QED BY <2>2, <2>3
<1>4. ASSUME NEW r \in Proc, NEW s \in Proc PROVE Agreement(r, s)'
  <2>1. Agreement(r, s) /\ Meeting(r, p) /\ Meeting(s, p)
    BY DEF ControlInv, InStep
  <2>2. ~(step[r] = step[s] /\ Decided(r) /\ pc[s] = "info")
    BY <2>1, <1>1 DEF Meeting, SameStep, Ahead, Behind, Decided, ControlInv, ControlTypeOK
  <2> QED BY <2>1, <2>2, <1>1 DEF Agreement, Decided
<1> QED BY <1>2, <1>3, <1>4 DEF ControlInv, InStep

(* EnterSync: the others in the superstep of p are in the program too, or  *)
(* have just entered the exchange of sizes.                                *)
LEMMA EnterSyncKeepsControl ==
  ASSUME ControlInv, NEW p \in Proc, EnterSync(p)
  PROVE  ControlInv'
<1>1. /\ ControlTypeOK
      /\ \A q, r \in Proc : Meeting(q, r) /\ Agreement(q, r)
  BY DEF ControlInv, InStep
<1>2. /\ pc[p] = "compute" /\ pc' = [pc EXCEPT ![p] = "info"]
      /\ anyGets' = [anyGets EXCEPT ![p] = IssuedGets(p)]
      /\ UNCHANGED <<step, reqTab>>
  BY DEF EnterSync, Computing
<1>b. PICK blocks : /\ Enter(p, blocks)
                    /\ \A q \in Proc : blocks[q] = Block("info", anyGets'[p])
  BY DEF EnterSync
<1>3. /\ DOMAIN chan' = Proc /\ \A q \in Proc : DOMAIN chan'[q] = Proc
      /\ \A q, r \in Proc : chan'[q][r] = IF q = p THEN Append(chan[q][r], blocks[r])
                                                  ELSE chan[q][r]
  BY <1>1, <1>b, EnterChan
<1>4. \A r \in Proc : IsBlock(blocks[r], p, "info")'
  <2> SUFFICES ASSUME NEW r \in Proc PROVE IsBlock(blocks[r], p, "info")'
    OBVIOUS
  <2>1. blocks[r].kind = "info" /\ blocks[r].body = anyGets'[p]
    BY <1>b DEF Block
  <2>2. anyGets'[p] = IssuedGets(p)
    BY <1>1, <1>2 DEF ControlTypeOK
  <2>3. IssuedGets(p)' = IssuedGets(p)
    BY <1>2 DEF IssuedGets
  <2> QED BY <2>1, <2>2, <2>3 DEF IsBlock
<1>5. \A q \in Proc : IssuedGets(q)' = IssuedGets(q)
  BY <1>2 DEF IssuedGets
<1>6. ControlTypeOK'
  BY <1>1, <1>2, <1>3 DEF ControlTypeOK, Kinds, IssuedGets
<1>7. ASSUME NEW q \in Proc, NEW r \in Proc PROVE Meeting(q, r)'
  <2>1. Meeting(q, r)
    BY <1>1
  <2>2. CASE q # p
    <3>1. chan'[q][r] = chan[q][r]
      BY <2>2, <1>3
    <3> QED BY <2>1, <2>2, <3>1, <1>1, <1>2, <1>5, SameBlocks
            DEF Meeting, SameStep, Ahead, Behind, ControlTypeOK
  <2>3. CASE q = p
    <3>1. chan'[p][r] = Append(chan[p][r], blocks[r])
      BY <1>3
    <3>2. \/ /\ step[p] = step[r] /\ pc[r] \in {"compute", "info"} /\ None(p, r)
          \/ /\ step[p] = step[r] + 1 /\ pc[r] = "deliv" /\ One(p, r, "deliv")
      BY <2>1, <2>3, <1>2 DEF Meeting, SameStep, Ahead, Behind
    <3>3. CASE step[p] = step[r] /\ pc[r] \in {"compute", "info"} /\ None(p, r)
      <4>1. One(p, r, "info")'
        BY <3>1, <3>3, <1>4, AppendToNone, OfOne DEF None, One
      <4> QED BY <4>1, <3>3, <2>3, <1>1, <1>2 DEF Meeting, SameStep, ControlTypeOK
    <3>4. CASE step[p] = step[r] + 1 /\ pc[r] = "deliv" /\ One(p, r, "deliv")
      <4>1. Two(p, r, "deliv", "info")'
        BY <3>1, <3>4, <1>4, AppendToOne, OfTwo DEF One, Two, IsBlock
      <4> QED BY <4>1, <3>4, <2>3, <1>1, <1>2 DEF Meeting, Ahead, ControlTypeOK
    <3> QED BY <3>2, <3>3, <3>4
  <2> QED BY <2>2, <2>3
<1>8. ASSUME NEW q \in Proc, NEW r \in Proc PROVE Agreement(q, r)'
  <2>1. Agreement(q, r) /\ Meeting(q, p)
    BY <1>1
  <2>2. SomeIssued' <=> SomeIssued
    BY <1>5 DEF SomeIssued
  <2>3. ~(step[q] = step[p] /\ Decided(q))
    BY <2>1, <1>1, <1>2 DEF Meeting, SameStep, Ahead, Behind, Decided, ControlTypeOK
  <2> QED BY <2>1, <2>2, <2>3, <1>1, <1>2 DEF Agreement, Decided, ControlTypeOK
<1> QED BY <1>6, <1>7, <1>8 DEF ControlInv, InStep

(* LeaveReq: all other processes are in the exchange of requests, or have  *)
(* gone on from it.                                                        *)
LEMMA LeaveReqKeepsControl ==
  ASSUME ControlInv, NEW p \in Proc, LeaveReq(p)
  PROVE  ControlInv'
<1>1. /\ ControlTypeOK
      /\ \A q, r \in Proc : Meeting(q, r) /\ Agreement(q, r)
  BY DEF ControlInv, InStep
<1>2. /\ pc[p] = "req" /\ pc' = [pc EXCEPT ![p] = "deliv"]
      /\ \A q \in Proc : chan[q][p] # <<>>
      /\ UNCHANGED <<step, reqTab, anyGets>>
  BY DEF LeaveReq, CanLeave
<1>3. PICK blocks : /\ LeaveAndEnter(p, blocks)
                    /\ \A q \in Proc : blocks[q].kind = "deliv"
  BY DEF LeaveReq, Block
<1>4. /\ DOMAIN chan' = Proc /\ \A q \in Proc : DOMAIN chan'[q] = Proc
      /\ \A q, r \in Proc :
              chan'[q][r] = LET rest == IF r = p THEN Tail(chan[q][r]) ELSE chan[q][r]
                            IN  IF q = p THEN Append(rest, blocks[r]) ELSE rest
  BY <1>1, <1>3, LeaveAndEnterChan
<1>5. \A q \in Proc : IsBlock(blocks[q], p, "deliv")'
  BY <1>3 DEF IsBlock
<1>6. \A q \in Proc : IssuedGets(q)' = IssuedGets(q)
  BY <1>2 DEF IssuedGets
<1>7. \A q \in Proc : step[q] = step[p] /\ pc[q] \in {"req", "deliv"}
  <2> SUFFICES ASSUME NEW q \in Proc PROVE step[q] = step[p] /\ pc[q] \in {"req", "deliv"}
    OBVIOUS
  <2>1. Meeting(q, p)
    BY <1>1
  <2> QED BY <2>1, <1>2 DEF Meeting, SameStep, Ahead, Behind, None
<1>8. ControlTypeOK'
  BY <1>1, <1>2, <1>4 DEF ControlTypeOK, Kinds
<1>9. ASSUME NEW q \in Proc, NEW r \in Proc PROVE Meeting(q, r)'
  <2>1. SameStep(q, r)
    BY <1>1, <1>7 DEF Meeting, Ahead, Behind, ControlTypeOK
  <2>2. CASE q # p /\ r # p
    <3>1. chan'[q][r] = chan[q][r]
      BY <2>2, <1>4
    <3> QED BY <2>1, <2>2, <3>1, <1>1, <1>2, <1>6, SameBlocks DEF Meeting, SameStep, ControlTypeOK
  <2>3. CASE q = p /\ r = p
    <3>1. One(p, p, "req") /\ chan'[p][p] = Append(Tail(chan[p][p]), blocks[p])
      BY <2>1, <2>3, <1>2, <1>4 DEF SameStep
    <3>2. One(p, p, "deliv")'
      BY <3>1, <1>5, TakeAndGive
    <3> QED BY <3>2, <2>3, <1>1, <1>2 DEF Meeting, SameStep, ControlTypeOK
  <2>4. CASE q = p /\ r # p
    <3>1. chan'[p][r] = Append(chan[p][r], blocks[r])
      BY <2>4, <1>4
    <3>2. CASE pc[r] = "req"
      <4>1. One(p, r, "req")
        BY <2>1, <2>4, <3>2, <1>2 DEF SameStep
      <4>2. Two(p, r, "req", "deliv")'
        BY <4>1, <3>1, <1>5, GiveToOne
      <4> QED BY <4>2, <2>1, <2>4, <3>2, <1>1, <1>2 DEF Meeting, SameStep, ControlTypeOK
    <3>3. CASE pc[r] = "deliv"
      <4>1. None(p, r)
        BY <2>1, <2>4, <3>3, <1>2 DEF SameStep
      <4>2. One(p, r, "deliv")'
        BY <4>1, <3>1, <1>5, GiveToNone
      <4> QED BY <4>2, <2>1, <2>4, <3>3, <1>1, <1>2 DEF Meeting, SameStep, ControlTypeOK
    <3> QED BY <3>2, <3>3, <1>7
  <2>5. CASE q # p /\ r = p
    <3>1. chan'[q][p] = Tail(chan[q][p])
      BY <2>5, <1>4
    <3>2. CASE pc[q] = "req"
      <4>1. One(q, p, "req")
        BY <2>1, <2>5, <3>2, <1>2 DEF SameStep
      <4>2. None(q, p)'
        BY <4>1, <3>1, TakeOne
      <4> QED BY <4>2, <2>1, <2>5, <3>2, <1>1, <1>2 DEF Meeting, SameStep, ControlTypeOK
    <3>3. CASE pc[q] = "deliv"
      <4>1. Two(q, p, "req", "deliv")
        BY <2>1, <2>5, <3>3, <1>2 DEF SameStep
      <4>2. One(q, p, "deliv")'
        BY <4>1, <3>1, TakeOfTwo
      <4> QED BY <4>2, <2>1, <2>5, <3>3, <1>1, <1>2 DEF Meeting, SameStep, ControlTypeOK
    <3> QED BY <3>2, <3>3, <1>7
  <2> QED BY <2>2, <2>3, <2>4, <2>5
<1>10. ASSUME NEW q \in Proc, NEW r \in Proc PROVE Agreement(q, r)'
  <2>1. Agreement(q, r)
    BY <1>1
  <2>2. pc'[r] # "info" /\ step'[q] = step[q] /\ Decided(q) /\ Decided(r) /\ step[q] = step[r]
    BY <1>1, <1>2, <1>7 DEF Decided, ControlTypeOK
  <2>3. pc'[q] = "req" => pc[q] = "req"
    BY <1>1, <1>2 DEF ControlTypeOK
  <2> QED BY <2>1, <2>2, <2>3, <1>2 DEF Agreement
<1> QED BY <1>8, <1>9, <1>10 DEF ControlInv, InStep

(* LeaveInfo: all other processes are in the superstep of p, and p decides *)
(* from the flags of all of them.                                          *)
LEMMA LeaveInfoKeepsControl ==
  ASSUME ControlInv, NEW p \in Proc, LeaveInfo(p)
  PROVE  ControlInv'
<1>1. /\ ControlTypeOK
      /\ \A q, r \in Proc : Meeting(q, r) /\ Agreement(q, r)
  BY DEF ControlInv, InStep
<1>2. /\ pc[p] = "info"
      /\ \A q \in Proc : chan[q][p] # <<>>
      /\ anyGets' = [anyGets EXCEPT ![p] = AnyGets(p)]
      /\ UNCHANGED <<step, reqTab>>
  BY DEF LeaveInfo, CanLeave
<1>3. PICK next, blocks :
        /\ next = IF anyGets'[p] THEN "req" ELSE "deliv"
        /\ pc' = [pc EXCEPT ![p] = next]
        /\ LeaveAndEnter(p, blocks)
        /\ \A q \in Proc : blocks[q].kind = next
  BY DEF LeaveInfo, Block
<1>4. /\ DOMAIN chan' = Proc /\ \A q \in Proc : DOMAIN chan'[q] = Proc
      /\ \A q, r \in Proc :
              chan'[q][r] = LET rest == IF r = p THEN Tail(chan[q][r]) ELSE chan[q][r]
                            IN  IF q = p THEN Append(rest, blocks[r]) ELSE rest
  BY <1>1, <1>3, LeaveAndEnterChan
<1>5. \A q \in Proc : IsBlock(blocks[q], p, next)'
  BY <1>3 DEF IsBlock
<1>6. \A q \in Proc : IssuedGets(q)' = IssuedGets(q)
  BY <1>2 DEF IssuedGets
<1>7. ASSUME NEW q \in Proc
      PROVE  /\ step[q] = step[p] /\ SameStep(q, p) /\ SameStep(p, q)
             /\ \/ pc[q] = "info" /\ One(q, p, "info")
                \/ pc[q] = "req" /\ Two(q, p, "info", "req")
                \/ pc[q] = "deliv" /\ Two(q, p, "info", "deliv")
  <2>1. Meeting(q, p) /\ Meeting(p, q)
    BY <1>1
  <2>2. step[p] \in Nat /\ step[q] \in Nat
    BY <1>1 DEF ControlTypeOK
  <2>3. SameStep(q, p)
    BY <2>1, <1>2 DEF Meeting, Ahead, Behind, None
  <2>4. SameStep(p, q)
    BY <2>1, <2>2, <2>3 DEF Meeting, SameStep, Ahead, Behind
  <2> QED BY <2>3, <2>4, <1>2 DEF SameStep, None
<1>8. anyGets'[p] = SomeIssued
  <2>1. \A q \in Proc : Received(p, q) = IssuedGets(q)
    BY <1>7, OfOne, OfTwo DEF Received, One, Two, IsBlock
  <2>2. AnyGets(p) <=> SomeIssued
    BY <2>1 DEF AnyGets, SomeIssued
  <2>3. anyGets'[p] = AnyGets(p)
    BY <1>1, <1>2 DEF ControlTypeOK
  <2> QED BY <2>2, <2>3 DEF AnyGets, SomeIssued
<1>9. /\ next \in {"req", "deliv"} /\ anyGets'[p] \in BOOLEAN
      /\ next = "req" <=> anyGets'[p]
      /\ \A q \in Proc \ {p} : anyGets'[q] = anyGets[q]
  BY <1>1, <1>2, <1>3, <1>8 DEF ControlTypeOK, SomeIssued
<1>10. ASSUME NEW q \in Proc PROVE pc[q] # "info" => next = pc[q]
  <2>1. Agreement(q, p) /\ step[q] = step[p] /\ SameStep(q, p)
    BY <1>1, <1>7
  <2>2. pc[q] \in {"req", "deliv"} => anyGets'[p] = anyGets[q]
    BY <2>1, <1>2, <1>8 DEF Agreement, Decided
  <2>3. pc[q] = "req" => anyGets[q] = TRUE
    BY <2>1 DEF Agreement
  <2>4. pc[q] = "deliv" => ~anyGets[q]
    BY <2>1, <1>2 DEF SameStep
  <2> QED BY <2>2, <2>3, <2>4, <1>7, <1>9
<1>11. ControlTypeOK'
  BY <1>1, <1>2, <1>3, <1>4, <1>9 DEF ControlTypeOK, Kinds, AnyGets
<1>12. ASSUME NEW q \in Proc, NEW r \in Proc PROVE Meeting(q, r)'
  <2>1. Meeting(q, r)
    BY <1>1
  <2>2. CASE q # p /\ r # p
    <3>1. chan'[q][r] = chan[q][r]
      BY <2>2, <1>4
    <3>2. UNCHANGED <<pc[q], pc[r], step[q], step[r], anyGets[q], anyGets[r]>>
      BY <2>2, <1>1, <1>2, <1>3, <1>9 DEF ControlTypeOK
    <3> QED BY <2>1, <3>1, <3>2, <1>6, SameBlocks DEF Meeting, SameStep, Ahead, Behind
  <2>3. CASE q = p /\ r = p
    <3>1. One(p, p, "info") /\ chan'[p][p] = Append(Tail(chan[p][p]), blocks[p])
      BY <2>3, <1>2, <1>4, <1>7
    <3>2. One(p, p, next)'
      BY <3>1, <1>5, TakeAndGive
    <3> QED BY <3>2, <2>3, <1>1, <1>2, <1>3, <1>9 DEF Meeting, SameStep, ControlTypeOK
  <2>4. CASE q = p /\ r # p
    <3>1. chan'[p][r] = Append(chan[p][r], blocks[r]) /\ pc'[p] = next /\ pc'[r] = pc[r]
          /\ step'[p] = step'[r]
      BY <2>4, <1>1, <1>2, <1>3, <1>4, <1>7 DEF ControlTypeOK
    <3>2. CASE pc[r] = "info"
      <4>1. One(p, r, "info")
        BY <1>7, <3>2, <1>2 DEF SameStep
      <4>2. Two(p, r, "info", next)'
        BY <4>1, <3>1, <1>5, <1>6, GiveToOne
      <4> QED BY <4>2, <2>4, <3>1, <3>2, <1>9 DEF Meeting, SameStep
    <3>3. CASE pc[r] # "info"
      <4>1. None(p, r)
        BY <1>7, <3>3, <1>2 DEF SameStep
      <4>2. One(p, r, next)'
        BY <4>1, <3>1, <1>5, GiveToNone
      <4> QED BY <4>2, <2>4, <3>1, <3>3, <1>9, <1>10 DEF Meeting, SameStep
    <3> QED BY <3>2, <3>3
  <2>5. CASE q # p /\ r = p
    <3>1. chan'[q][p] = Tail(chan[q][p]) /\ pc'[p] = next /\ pc'[q] = pc[q]
          /\ step'[p] = step'[q]
      BY <2>5, <1>1, <1>2, <1>3, <1>4, <1>7 DEF ControlTypeOK
    <3>2. CASE pc[q] = "info"
      <4>1. One(q, p, "info")
        BY <1>7, <3>2
      <4>2. None(q, p)'
        BY <4>1, <3>1, TakeOne
      <4> QED BY <4>2, <2>5, <3>1, <3>2, <1>9 DEF Meeting, SameStep
    <3>3. CASE pc[q] # "info"
      <4>1. Two(q, p, "info", next) /\ next = pc[q]
        BY <1>7, <1>10, <3>3
      <4>2. One(q, p, next)'
        BY <4>1, <3>1, <1>9, TakeOfTwo
      <4> QED BY <4>1, <4>2, <2>5, <3>1, <1>9 DEF Meeting, SameStep
    <3> QED BY <3>2, <3>3
  <2> QED BY <2>2, <2>3, <2>4, <2>5
<1>13. ASSUME NEW q \in Proc, NEW r \in Proc PROVE Agreement(q, r)'
  <2>1. Agreement(q, r) /\ Agreement(q, p) /\ Agreement(r, p)
    BY <1>1
  <2>2. SomeIssued' = SomeIssued
    BY <1>6 DEF SomeIssued
  <2>3. /\ step[q] = step[p] /\ step[r] = step[p]
        /\ step'[q] = step[q] /\ step'[r] = step[r]
    BY <1>2, <1>7
  <2>4. /\ Decided(q) => anyGets[q] = SomeIssued
        /\ Decided(r) => anyGets[r] = SomeIssued
    BY <2>1, <2>3, <1>2 DEF Agreement
  <2>5. /\ q # p => pc'[q] = pc[q] /\ anyGets'[q] = anyGets[q]
        /\ r # p => pc'[r] = pc[r] /\ anyGets'[r] = anyGets[r]
        /\ pc'[p] = next
    BY <1>1, <1>3, <1>9 DEF ControlTypeOK
  <2>6. /\ Decided(q)' => anyGets'[q] = SomeIssued
        /\ Decided(r)' => anyGets'[r] = SomeIssued
    BY <2>4, <2>5, <1>8 DEF Decided
  <2>7. pc'[q] = "req" => anyGets'[q] = TRUE
    BY <2>1, <2>5, <1>9 DEF Agreement
  <2> QED BY <2>2, <2>6, <2>7 DEF Agreement
<1> QED BY <1>11, <1>12, <1>13 DEF ControlInv, InStep

(* LeaveDeliv: every other process is about to leave the same exchange, or *)
(* has left it and is at most in the next exchange of sizes.               *)
LEMMA LeaveDelivKeepsControl ==
  ASSUME ControlInv, NEW p \in Proc, LeaveDeliv(p)
  PROVE  ControlInv'
<1>1. /\ ControlTypeOK
      /\ \A q, r \in Proc : Meeting(q, r) /\ Agreement(q, r)
  BY DEF ControlInv, InStep
<1>2. CASE UNCHANGED <<pc, step, chan, anyGets, reqTab>>
  BY <1>2, CallsKeepControl
<1>3. CASE ~UNCHANGED <<pc, step, chan, anyGets, reqTab>>
  <2>1. /\ pc[p] = "deliv" /\ pc' = [pc EXCEPT ![p] = "compute"]
        /\ \A q \in Proc : chan[q][p] # <<>>
        /\ step' = [step EXCEPT ![p] = @ + 1]
        /\ reqTab' = [reqTab EXCEPT ![p] = EmptyRequests]
        /\ UNCHANGED anyGets
        /\ Leave(p)
    BY <1>3 DEF LeaveDeliv, CanLeave
  <2>2. /\ DOMAIN chan' = Proc /\ \A q \in Proc : DOMAIN chan'[q] = Proc
        /\ \A q, r \in Proc : chan'[q][r] = IF r = p THEN Tail(chan[q][r]) ELSE chan[q][r]
    BY <1>1, <2>1, LeaveChan
  <2>3. ControlTypeOK'
    BY <1>1, <2>1, <2>2 DEF ControlTypeOK
  <2>4. /\ pc'[p] = "compute" /\ step'[p] = step[p] + 1
        /\ \A q \in Proc : step[q] \in Nat
        /\ \A q \in Proc \ {p} : pc'[q] = pc[q] /\ step'[q] = step[q] /\ reqTab'[q] = reqTab[q]
    BY <1>1, <2>1 DEF ControlTypeOK
  <2>5. \A q \in Proc \ {p} : IssuedGets(q)' = IssuedGets(q)
    BY <2>4 DEF IssuedGets
  <2>6. ASSUME NEW q \in Proc
        PROVE  \/ /\ step[q] = step[p] /\ pc[q] = "deliv"
                  /\ One(q, p, "deliv") /\ One(p, q, "deliv")
               \/ /\ step[q] = step[p] + 1 /\ None(p, q)
                  /\ \/ pc[q] = "compute" /\ One(q, p, "deliv")
                     \/ pc[q] = "info" /\ Two(q, p, "deliv", "info")
    <3>1. Meeting(q, p) /\ Meeting(p, q)
      BY <1>1
    <3>2. SameStep(q, p) \/ Ahead(q, p)
      BY <3>1, <2>1 DEF Meeting, Behind, None
    <3>3. CASE SameStep(q, p)
      <4>1. pc[q] = "deliv" /\ One(q, p, "deliv") /\ step[q] = step[p]
        BY <3>3, <2>1 DEF SameStep, None
      <4>2. One(p, q, "deliv")
        BY <4>1, <3>1, <2>1, <2>4 DEF Meeting, SameStep, Ahead, Behind
      <4> QED BY <4>1, <4>2
    <3>4. CASE Ahead(q, p)
      <4>1. None(p, q)
        BY <3>1, <3>4, <2>4 DEF Meeting, SameStep, Ahead, Behind
      <4> QED BY <4>1, <3>4 DEF Ahead
    <3> QED BY <3>2, <3>3, <3>4
  <2>7. ASSUME NEW q \in Proc, NEW r \in Proc PROVE Meeting(q, r)'
    <3>1. CASE q # p /\ r # p
      <4>1. Meeting(q, r) /\ chan'[q][r] = chan[q][r] /\ UNCHANGED <<anyGets[q], anyGets[r]>>
        BY <3>1, <1>1, <2>1, <2>2
      <4> QED BY <4>1, <3>1, <2>4, <2>5, SameBlocks DEF Meeting, SameStep, Ahead, Behind
    <3>2. CASE q = p /\ r = p
      <4>1. One(p, p, "deliv") /\ chan'[p][p] = Tail(chan[p][p])
        BY <2>2, <2>4, <2>6
      <4>2. None(p, p)'
        BY <4>1, TakeOne
      <4> QED BY <4>2, <3>2, <2>4 DEF Meeting, SameStep
    <3>3. CASE q = p /\ r # p
      <4>1. chan'[p][r] = chan[p][r]
        BY <3>3, <2>2
      <4>2. CASE step[r] = step[p] /\ pc[r] = "deliv" /\ One(p, r, "deliv")
        <5>1. One(p, r, "deliv")'
          BY <4>1, <4>2, DelivStays
        <5> QED BY <5>1, <4>2, <3>3, <2>4 DEF Meeting, Ahead
      <4>3. CASE step[r] = step[p] + 1 /\ None(p, r) /\ pc[r] \in {"compute", "info"}
        <5>1. None(p, r)'
          BY <4>1, <4>3 DEF None
        <5> QED BY <5>1, <4>3, <3>3, <2>4 DEF Meeting, SameStep
      <4> QED BY <4>2, <4>3, <2>6
    <3>4. CASE q # p /\ r = p
      <4>1. chan'[q][p] = Tail(chan[q][p])
        BY <3>4, <2>2
      <4>2. CASE step[q] = step[p] /\ pc[q] = "deliv" /\ One(q, p, "deliv")
        <5>1. None(q, p)'
          BY <4>1, <4>2, TakeOne
        <5> QED BY <5>1, <4>2, <3>4, <2>4 DEF Meeting, Behind
      <4>3. CASE step[q] = step[p] + 1 /\ pc[q] = "compute" /\ One(q, p, "deliv")
        <5>1. None(q, p)'
          BY <4>1, <4>3, TakeOne
        <5> QED BY <5>1, <4>3, <3>4, <2>4 DEF Meeting, SameStep
      <4>4. CASE step[q] = step[p] + 1 /\ pc[q] = "info" /\ Two(q, p, "deliv", "info")
        <5>1. One(q, p, "info")'
          BY <4>1, <4>4, <3>4, <2>5, TakeOfTwo
        <5> QED BY <5>1, <4>4, <3>4, <2>4 DEF Meeting, SameStep
      <4> QED BY <4>2, <4>3, <4>4, <2>6
    <3> QED BY <3>1, <3>2, <3>3, <3>4
  <2>8. ASSUME NEW q \in Proc, NEW r \in Proc PROVE Agreement(q, r)'
    <3>1. Agreement(q, r)
      BY <1>1
    <3>2. pc'[q] # "req"
      BY <2>4, <2>6
    <3>3. Decided(q)' => q # p /\ Decided(q) /\ step'[q] = step[p]
      BY <2>4, <2>6 DEF Decided
    <3>4. pc'[r] = "info" => step'[r] = step[p] + 1
      BY <2>4, <2>6
    <3>5. Decided(r)' => Decided(r) /\ step'[r] = step[p] /\ step'[r] = step[r]
      BY <2>4, <2>6 DEF Decided
    <3> QED BY <3>1, <3>2, <3>3, <3>4, <3>5, <2>1, <2>4 DEF Agreement
  <2> QED BY <2>3, <2>7, <2>8 DEF ControlInv, InStep
<1> QED BY <1>2, <1>3

-----------------------------------------------------------------------------
(* Every step keeps the invariant. *)
LEMMA NextControl == ControlInv /\ [Next]_vars => ControlInv'
<1> SUFFICES ASSUME ControlInv, [Next]_vars PROVE ControlInv'
  OBVIOUS
<1>1. ASSUME NEW p \in Proc, NEW q \in Proc, NEW a \in Addr, NEW b \in Addr, Put(p, q, a, b)
      PROVE  ControlInv'
  BY <1>1, CallsKeepControl DEF Put
<1>2. ASSUME NEW p \in Proc, NEW q \in Proc, NEW a \in Addr, NEW b \in Addr, Get(p, q, a, b)
      PROVE  ControlInv'
  BY <1>2, GetKeepsControl
<1>3. ASSUME NEW p \in Proc, NEW q \in Proc, NEW m \in Payload, Send(p, q, m)
      PROVE  ControlInv'
  BY <1>3, CallsKeepControl DEF Send
<1>4. ASSUME NEW p \in Proc, NEW a \in Addr, NEW v \in Val, Write(p, a, v)
      PROVE  ControlInv'
  BY <1>4, CallsKeepControl DEF Write
<1>5. ASSUME NEW p \in Proc, Move(p) \/ HpMove(p) \/ ResetBuffers(p)
      PROVE  ControlInv'
  BY <1>5, CallsKeepControl DEF Move, HpMove, ResetBuffers
<1>6. ASSUME NEW p \in Proc, PushReg(p) \/ PopReg(p) \/ SetTagsize(p)
      PROVE  ControlInv'
  BY <1>6, CallsKeepControl DEF PushReg, PopReg, SetTagsize
<1>7. ASSUME NEW p \in Proc, EnterSync(p)
      PROVE  ControlInv'
  BY <1>7, EnterSyncKeepsControl
<1>8. ASSUME NEW p \in Proc, InSync(p)
      PROVE  ControlInv'
  BY <1>8, LeaveInfoKeepsControl, LeaveReqKeepsControl, LeaveDelivKeepsControl DEF InSync
<1>9. ASSUME Over \/ UNCHANGED vars
      PROVE  ControlInv'
  BY <1>9, CallsKeepControl DEF Over, vars
<1> QED BY <1>1, <1>2, <1>3, <1>4, <1>5, <1>6, <1>7, <1>8, <1>9 DEF Next

(* The control state of every behaviour satisfies the invariant: in        *)
(* particular two processes are never more than one exchange apart, and    *)
(* all of them take the same branch on any_gets in bspx_sync.              *)
THEOREM ControlInvariant == Spec => []ControlInv
<1> QED BY InitControl, NextControl, PTL DEF Spec

LEMMA MatchByControl == ControlInv => CollectivesMatch
<1> SUFFICES ASSUME ControlInv, NEW p \in Proc, NEW q \in Proc,
                    pc[p] # "compute", chan[q][p] # <<>>
             PROVE  Head(chan[q][p]).kind = pc[p]
  BY DEF CollectivesMatch
<1>1. Meeting(q, p)
  BY DEF ControlInv, InStep
<1>2. \A k : One(q, p, k) => Head(chan[q][p]).kind = k
  BY OfOne DEF One, IsBlock
<1>3. \A k, l : Two(q, p, k, l) => Head(chan[q][p]).kind = k
  BY OfTwo DEF Two, IsBlock
<1>4. pc[p] \in Kinds \union {"compute"}
  BY DEF ControlInv, ControlTypeOK
<1> QED BY <1>1, <1>2, <1>3, <1>4 DEF Meeting, SameStep, Ahead, Behind, None, Kinds

(* The next block a process takes from another one in a collective of      *)
(* bspx_sync was given to that very collective.                            *)
THEOREM CollectivesAlwaysMatch == Spec => []CollectivesMatch
<1> QED BY MatchByControl, ControlInvariant, PTL

(* bspx_sync is a barrier for any number of processes: no step returns a   *)
(* process from it while another one has still to enter the exchange of    *)
(* deliveries of that superstep.                                           *)
THEOREM SyncIsBarrier == Spec => Barrier
<1> DEFINE Returns == \A p, q \in Proc : step'[p] > step[p] =>
                        step[q] > step[p] \/ (step[q] = step[p] /\ pc[q] = "deliv")
<1>1. ControlInv /\ [Next]_vars => [Returns]_vars
  <2> SUFFICES ASSUME ControlInv, Next, NEW p \in Proc, NEW q \in Proc, step'[p] > step[p]
               PROVE  step[q] > step[p] \/ (step[q] = step[p] /\ pc[q] = "deliv")
    BY DEF Returns
  <2>1. step \in [Proc -> Nat] /\ Meeting(q, p)
    BY DEF ControlInv, ControlTypeOK, InStep
  <2>2. step' # step
    BY <2>1
  <2>3. PICK r \in Proc : LeaveDeliv(r)
    BY <2>2, ZenonT(40) DEF Next, InSync, Put, Get, Send, Write, Move, HpMove, ResetBuffers,
                PushReg, PopReg, SetTagsize, EnterSync, LeaveInfo, LeaveReq, Over, vars
  <2>4. step' = [step EXCEPT ![r] = @ + 1] /\ pc[r] = "deliv" /\ CanLeave(r)
    BY <2>2, <2>3 DEF LeaveDeliv
  <2>5. r = p
    BY <2>1, <2>4
  <2>6. pc[p] = "deliv" /\ chan[q][p] # <<>>
    BY <2>4, <2>5 DEF CanLeave
  <2> QED BY <2>1, <2>6 DEF Meeting, SameStep, Ahead, Behind, None
<1>2. Spec => [][Returns]_vars
  <2> HIDE DEF Returns
  <2> QED BY <1>1, ControlInvariant, PTL DEF Spec
<1> QED BY <1>2 DEF Barrier, Returns

-----------------------------------------------------------------------------
(***************************************************************************)
(* The data: types, what the tables and the blocks hold, and why the       *)
(* registers and the tag sizes of all processes agree.                     *)
(***************************************************************************)
(* The recursive definitions about a program. *)

Arg(op) == IF op = "tag" THEN Nat ELSE Addr

LEMMA Typed ==
  ASSUME NEW prog \in Programs
  PROVE  /\ prog.coll \in Seq(Seq(Collective)) /\ Len(prog.coll) \in Nat
         /\ \A s \in 1 .. Len(prog.coll) : /\ prog.coll[s] \in Seq(Collective)
                                           /\ Len(prog.coll[s]) \in Nat
<1>1. prog.coll \in Seq(Seq(Collective))
  BY ProgramsAssumption
<1> QED BY <1>1

LEMMA CallTyped ==
  ASSUME NEW list \in Seq(Collective), NEW k \in 1 .. Len(list), NEW p \in Proc
  PROVE  list[k].at[p] \in Arg(list[k].op)
<1>1. list[k] \in Collective
  OBVIOUS
<1>2. CASE list[k] \in [op : {"push", "pop"}, at : [Proc -> Addr]]
  BY <1>2 DEF Arg
<1>3. CASE list[k] \in [op : {"tag"}, at : [Proc -> Nat]]
  BY <1>3 DEF Arg
<1> QED BY <1>1, <1>2, <1>3 DEF Collective

LEMMA ArgsFacts ==
  ASSUME NEW list \in Seq(Collective), NEW op, NEW p \in Proc
  PROVE  /\ Args(list, op, p) \in [0 .. Len(list) -> Seq(Arg(op))]
         /\ Args(list, op, p)[0] = <<>>
         /\ \A k \in 1 .. Len(list) :
              Args(list, op, p)[k] = IF list[k].op = op
                                     THEN Append(Args(list, op, p)[k-1], list[k].at[p])
                                     ELSE Args(list, op, p)[k-1]
<1> DEFINE n == Len(list)
           W == Seq(Arg(op))
           none == <<>>
           G(k, s) == IF list[k].op = op THEN Append(s, list[k].at[p]) ELSE s
           proceed == [k \in 1 .. n |-> [s \in W |-> G(k, s)]]
           Rec(f) == f = [k \in 0 .. n |-> IF k = 0 THEN <<>> ELSE G(k, f[k-1])]
<1>1. n \in Nat /\ <<>> \in W
  OBVIOUS
<1>2. ASSUME NEW k \in 1 .. n, NEW s \in W PROVE G(k, s) \in W
  <2>1. list[k].at[p] \in Arg(list[k].op)
    BY CallTyped
  <2> QED BY <2>1
<1>3. proceed \in StepOfEach(n, W)
  <2> HIDE DEF W, n, G
  <2> QED BY <1>2 DEF StepOfEach
<1>4. \A k \in 1 .. n : \A s \in W : proceed[k][s] = G(k, s)
  <2> HIDE DEF W, n, G
  <2> QED OBVIOUS
<1> HIDE DEF proceed
<1>5. PICK f : /\ f \in [0 .. n -> W] /\ f[0] = none
               /\ \A k \in 1 .. n : f[k] = proceed[k][f[k-1]]
  <2>1. none \in W
    OBVIOUS
  <2> HIDE DEF W, n, G, none
  <2>2. \E f : Iterates(f, n, W, none, proceed)
    BY <1>1, <1>3, <2>1, RecursiveFunction
  <2> QED BY <2>2 DEF Iterates
<1>6. \A k \in 1 .. n : f[k] = G(k, f[k-1])
  <2> SUFFICES ASSUME NEW k \in 1 .. n PROVE f[k] = G(k, f[k-1])
    OBVIOUS
  <2>1. f[k-1] \in W
    <3>1. k - 1 \in 0 .. n
      BY <1>1
    <3> HIDE DEF W, G, n
    <3> QED BY <1>5, <3>1
  <2> HIDE DEF W, n, G
  <2> QED BY <1>4, <1>5, <2>1
<1>7. Rec(f)
  <2> HIDE DEF W, G
  <2> QED BY <1>1, <1>5, <1>6
<1> DEFINE g == CHOOSE f2 : Rec(f2)
<1>8. Rec(g)
  <2> HIDE DEF Rec
  <2> QED BY <1>7
<1>9. g = Args(list, op, p)
  BY DEF Args
<1> HIDE DEF g
<1>10. g[0] = <<>> /\ \A k \in 1 .. n : g[k] = G(k, g[k-1])
  <2> HIDE DEF G
  <2> QED BY <1>1, <1>8
<1>11. \A k \in 0 .. n : g[k] = f[k]
  <2> HIDE DEF W, n, G, Rec
  <2>1. \A k \in 1 .. n : g[k-1] = f[k-1] => g[k] = f[k]
    BY <1>6, <1>10
  <2>2. g[0] = f[0] /\ n \in Nat
    BY <1>1, <1>5, <1>10
  <2>3. GoTogether(g, f, n)
    BY <2>1, <2>2 DEF GoTogether
  <2> QED BY <2>2, <2>3, RecursionsAgree
<1>12. g \in [0 .. n -> W]
  <2>1. DOMAIN g = 0 .. n /\ g = [k \in 0 .. n |-> g[k]]
    <3> HIDE DEF W, n, G
    <3> QED BY <1>8
  <2> HIDE DEF W, n, G, Rec
  <2>2. \A k \in 0 .. n : g[k] \in W
    BY <1>5, <1>11
  <2> QED BY <2>1, <2>2
<1> QED BY <1>9, <1>10, <1>12

(* How many calls there are does not depend on the process. *)
LEMMA SameNumber ==
  ASSUME NEW list \in Seq(Collective), NEW op, NEW p \in Proc, NEW q \in Proc
  PROVE  \A k \in 0 .. Len(list) : Len(Args(list, op, p)[k]) = Len(Args(list, op, q)[k])
<1> DEFINE n == Len(list)
           a == Args(list, op, p)
           b == Args(list, op, q)
           W == Seq(Arg(op))
           f == [k \in 0 .. n |-> Len(a[k])]
           g == [k \in 0 .. n |-> Len(b[k])]
<1>1. /\ a \in [0 .. n -> W] /\ b \in [0 .. n -> W] /\ a[0] = <<>> /\ b[0] = <<>> /\ n \in Nat
      /\ \A k \in 1 .. n :
           /\ a[k] = IF list[k].op = op THEN Append(a[k-1], list[k].at[p]) ELSE a[k-1]
           /\ b[k] = IF list[k].op = op THEN Append(b[k-1], list[k].at[q]) ELSE b[k-1]
  BY ArgsFacts
<1>2. ASSUME NEW k \in 1 .. n, f[k-1] = g[k-1] PROVE f[k] = g[k]
  <2>1. k - 1 \in 0 .. n /\ k \in 0 .. n
    BY <1>1
  <2>2. a[k-1] \in W /\ b[k-1] \in W
    <3> HIDE DEF W, a, b, n
    <3> QED BY <1>1, <2>1
  <2>3. Len(a[k-1]) = Len(b[k-1])
    <3> HIDE DEF W, a, b, n
    <3> QED BY <1>2, <2>1
  <2>4. list[k].at[p] \in Arg(list[k].op) /\ list[k].at[q] \in Arg(list[k].op)
    BY CallTyped
  <2>5. Len(a[k]) = Len(b[k])
    <3>1. CASE list[k].op = op
      <4> DEFINE u == list[k].at[p]
                 v == list[k].at[q]
                 S == Arg(op)
                 y == a[k-1]
                 z == b[k-1]
      <4>1. y \in Seq(S) /\ z \in Seq(S) /\ u \in S /\ v \in S /\ Len(y) = Len(z)
        BY <2>2, <2>3, <2>4, <3>1
      <4>2. a[k] = Append(y, u) /\ b[k] = Append(z, v)
        BY <1>1, <3>1
      <4> HIDE DEF u, v, S, y, z, a, b
      <4> QED BY <4>1, <4>2
    <3>2. CASE list[k].op # op
      <4>1. a[k] = a[k-1] /\ b[k] = b[k-1]
        BY <1>1, <3>2
      <4> QED BY <2>3, <4>1
    <3> QED BY <3>1, <3>2
  <2> HIDE DEF a, b, n
  <2> QED BY <2>1, <2>5
<1>3. f[0] = g[0] /\ n \in Nat
  <2> HIDE DEF a, b, n
  <2> QED BY <1>1
<1>4. GoTogether(f, g, n)
  <2> HIDE DEF f, g, n
  <2> QED BY <1>2, <1>3 DEF GoTogether
<1>5. \A k \in 0 .. n : f[k] = g[k]
  <2> HIDE DEF f, g, n
  <2> QED BY <1>3, <1>4, RecursionsAgree
<1> QED
  <2> HIDE DEF a, b, n
  <2>1. \A k \in 0 .. n : Len(a[k]) = Len(b[k])
    BY <1>5
  <2> QED BY <2>1 DEF a, b, n

LEMMA AllArgsTyped ==
  ASSUME NEW list \in Seq(Collective), NEW op, NEW p \in Proc, NEW q \in Proc
  PROVE  /\ AllArgs(list, op, p) \in Seq(Arg(op))
         /\ Len(AllArgs(list, op, p)) = Len(AllArgs(list, op, q))
<1> DEFINE n == Len(list)
           W == Seq(Arg(op))
<1>1. n \in 0 .. n
  OBVIOUS
<1>2. Args(list, op, p) \in [0 .. n -> W]
  BY ArgsFacts
<1>3. Len(Args(list, op, p)[n]) = Len(Args(list, op, q)[n])
  <2>1. \A k \in 0 .. n : Len(Args(list, op, p)[k]) = Len(Args(list, op, q)[k])
    BY SameNumber
  <2> HIDE DEF n
  <2> QED BY <1>1, <2>1
<1>4. Args(list, op, p)[n] \in W
  <2> HIDE DEF n, W
  <2> QED BY <1>1, <1>2
<1> QED BY <1>3, <1>4 DEF AllArgs

-----------------------------------------------------------------------------
(* Registers: columns of one length for all processes. *)

LEMMA ZeroIsProcess == 0 \in Proc
  BY NAssumption DEF Proc

LEMMA PushesTyped ==
  ASSUME NEW r \in Registers, NEW pushed \in Registers
  PROVE  /\ PushRows(r, pushed) \in Registers
         /\ \A q \in Proc : PushRows(r, pushed)[q] = r[q] \o pushed[q]
<1>1. r \in [Proc -> Seq(Addr)] /\ pushed \in [Proc -> Seq(Addr)] /\ DOMAIN r = Proc
  BY DEF Registers
<1>2. \A q \in Proc : PushRows(r, pushed)[q] = r[q] \o pushed[q]
  BY <1>1 DEF PushRows
<1>3. \A q \in Proc : /\ r[q] \o pushed[q] \in Seq(Addr)
                      /\ Len(r[q] \o pushed[q]) = Len(r[q]) + Len(pushed[q])
  BY <1>1
<1>4. PushRows(r, pushed) \in [Proc -> Seq(Addr)]
  BY <1>1, <1>3 DEF PushRows
<1>5. \A q \in Proc : Len(r[q]) = Len(r[0]) /\ Len(pushed[q]) = Len(pushed[0])
  BY DEF Registers
<1> QED BY <1>2, <1>3, <1>4, <1>5, ZeroIsProcess DEF Registers

Kept(r, removed) == DOMAIN r[0] \ removed
KthRow(r, removed, k) ==
  CHOOSE i \in Kept(r, removed) : Cardinality({j \in Kept(r, removed) : j <= i}) = k

LEMMA KeptRows ==
  ASSUME NEW r \in Registers, NEW removed
  PROVE  /\ Kept(r, removed) \in SUBSET (1 .. Len(r[0])) /\ Len(r[0]) \in Nat
         /\ IsFiniteSet(Kept(r, removed)) /\ Cardinality(Kept(r, removed)) \in Nat
         /\ \A k \in 1 .. Cardinality(Kept(r, removed)) :
              /\ KthRow(r, removed, k) \in Kept(r, removed)
              /\ Cardinality({j \in Kept(r, removed) : j <= KthRow(r, removed, k)}) = k
<1> DEFINE kept == Kept(r, removed)
           n == Len(r[0])
<1>1. kept \in SUBSET (1 .. n) /\ n \in Nat
  BY ZeroIsProcess DEF Kept, Registers
<1>2. IsFiniteSet(kept) /\ Cardinality(kept) \in Nat
  <2> HIDE DEF kept, n
  <2>1. IsFiniteSet(1 .. n)
    BY <1>1, FS_Interval
  <2>2. IsFiniteSet(kept)
    BY <1>1, <2>1, FS_Subset
  <2> QED BY <2>2, FS_CardinalityType
<1>3. ASSUME NEW k \in 1 .. Cardinality(kept)
      PROVE  /\ KthRow(r, removed, k) \in kept
             /\ Cardinality({j \in kept : j <= KthRow(r, removed, k)}) = k
  <2>1. \E i \in kept : Cardinality({j \in kept : j <= i}) = k
    <3> HIDE DEF kept, n
    <3> QED BY <1>1, KthElement
  <2>2. KthRow(r, removed, k) = CHOOSE i \in kept : Cardinality({j \in kept : j <= i}) = k
    BY DEF KthRow
  <2> HIDE DEF kept
  <2> QED BY <2>1, <2>2
<1> QED BY <1>1, <1>2, <1>3

LEMMA PackTyped ==
  ASSUME NEW r \in Registers, NEW removed
  PROVE  /\ Pack(r, removed) \in Registers
         /\ \A q \in Proc : /\ Len(Pack(r, removed)[q]) = Cardinality(Kept(r, removed))
                            /\ \A k \in 1 .. Cardinality(Kept(r, removed)) :
                                 Pack(r, removed)[q][k] = r[q][KthRow(r, removed, k)]
<1> DEFINE m == Cardinality(Kept(r, removed))
           Sent(q) == [k \in 1 .. m |-> r[q][KthRow(r, removed, k)]]
<1>1. Pack(r, removed) = [q \in Proc |-> Sent(q)]
  BY DEF Pack, Kept, KthRow, Registers
<1>2. m \in Nat
  BY KeptRows
<1>3. ASSUME NEW q \in Proc, NEW k \in 1 .. m PROVE r[q][KthRow(r, removed, k)] \in Addr
  <2>1. KthRow(r, removed, k) \in 1 .. Len(r[0])
    BY KeptRows
  <2>2. r[q] \in Seq(Addr) /\ Len(r[q]) = Len(r[0])
    BY DEF Registers
  <2> QED BY <2>1, <2>2
<1>4. ASSUME NEW q \in Proc PROVE Sent(q) \in Seq(Addr) /\ Len(Sent(q)) = m
  <2> HIDE DEF m
  <2> QED BY <1>2, <1>3
<1>5. \A q \in Proc : Pack(r, removed)[q] = Sent(q)
  BY <1>1
<1>6. Pack(r, removed) \in [Proc -> Seq(Addr)]
  <2> HIDE DEF Sent
  <2> QED BY <1>1, <1>4
<1>7. \A q \in Proc : Len(Pack(r, removed)[q]) = m
  <2> HIDE DEF Sent
  <2> QED BY <1>4, <1>5
<1>8. Pack(r, removed) \in Registers
  BY <1>6, <1>7, ZeroIsProcess DEF Registers
<1>9. \A q \in Proc : \A k \in 1 .. m : Pack(r, removed)[q][k] = r[q][KthRow(r, removed, k)]
  BY <1>5, ZenonT(40)
<1> QED BY <1>7, <1>8, <1>9

-----------------------------------------------------------------------------
(* The tag size and the register after some supersteps of a program. *)

LEMMA TagAfterTyped ==
  ASSUME NEW list \in Seq(Collective), NEW size \in Nat
  PROVE  TagAfter(size, list) \in Nat
<1> DEFINE sizes == AllArgs(list, "tag", 0)
<1>1. sizes \in Seq(Nat)
  BY AllArgsTyped, ZeroIsProcess DEF Arg
<1> HIDE DEF sizes
<1>2. sizes # <<>> => sizes[Len(sizes)] \in Nat
  BY <1>1
<1> QED BY <1>2 DEF TagAfter, sizes

LEMMA TagsFacts ==
  ASSUME NEW prog \in Programs
  PROVE  /\ Tags(prog) \in [0 .. Len(prog.coll) -> Nat] /\ Tags(prog)[0] = 0
         /\ \A s \in 1 .. Len(prog.coll) : Tags(prog)[s] = TagAfter(Tags(prog)[s-1], prog.coll[s])
<1> DEFINE n == Len(prog.coll)
           G(k, s) == TagAfter(s, prog.coll[k])
           proceed == [k \in 1 .. n |-> [s \in Nat |-> G(k, s)]]
           Rec(f) == f = [k \in 0 .. n |-> IF k = 0 THEN 0 ELSE G(k, f[k-1])]
<1>1. n \in Nat
  BY Typed
<1>2. ASSUME NEW k \in 1 .. n, NEW s \in Nat PROVE G(k, s) \in Nat
  BY Typed, TagAfterTyped
<1>3. proceed \in StepOfEach(n, Nat)
  <2> HIDE DEF n, G
  <2> QED BY <1>2 DEF StepOfEach
<1>4. \A k \in 1 .. n : \A s \in Nat : proceed[k][s] = G(k, s)
  <2> HIDE DEF n, G
  <2> QED OBVIOUS
<1> HIDE DEF proceed
<1>5. PICK f : /\ f \in [0 .. n -> Nat] /\ f[0] = 0
               /\ \A k \in 1 .. n : f[k] = proceed[k][f[k-1]]
  <2> HIDE DEF n, G
  <2>1. \E f : Iterates(f, n, Nat, 0, proceed)
    BY <1>1, <1>3, RecursiveFunction
  <2> QED BY <2>1 DEF Iterates
<1>6. ASSUME NEW k \in 1 .. n PROVE f[k] = G(k, f[k-1])
  <2>1. k - 1 \in 0 .. n
    BY <1>1
  <2> HIDE DEF n, G
  <2>2. f[k-1] \in Nat
    BY <1>5, <2>1
  <2> QED BY <1>4, <1>5, <2>2
<1>7. Rec(f)
  <2> HIDE DEF G
  <2> QED BY <1>1, <1>5, <1>6
<1> DEFINE g == CHOOSE f2 : Rec(f2)
<1>8. Rec(g)
  <2> HIDE DEF Rec
  <2> QED BY <1>7
<1>9. g = Tags(prog)
  BY DEF Tags
<1> HIDE DEF g
<1>10. DOMAIN g = 0 .. n /\ g[0] = 0 /\ \A k \in 1 .. n : g[k] = G(k, g[k-1])
  <2> HIDE DEF G
  <2>1. DOMAIN g = 0 .. n
    BY <1>8
  <2>2. \A k \in 0 .. n : g[k] = IF k = 0 THEN 0 ELSE G(k, g[k-1])
    BY <1>8
  <2>3. 0 \in 0 .. n /\ \A k \in 1 .. n : k \in 0 .. n /\ k # 0
    BY <1>1
  <2> HIDE DEF n, Rec
  <2> QED BY <2>1, <2>2, <2>3
<1>11. \A k \in 0 .. n : g[k] = f[k]
  <2> HIDE DEF n, G, Rec
  <2>1. \A k \in 1 .. n : g[k-1] = f[k-1] => g[k] = f[k]
    BY <1>6, <1>10
  <2>2. GoTogether(g, f, n)
    BY <1>5, <1>10, <2>1 DEF GoTogether
  <2> QED BY <1>1, <2>2, RecursionsAgree
<1>12. g \in [0 .. n -> Nat]
  <2>1. g = [k \in 0 .. n |-> g[k]]
    <3> HIDE DEF n, G
    <3> QED BY <1>8
  <2> HIDE DEF n, G, Rec
  <2>2. \A k \in 0 .. n : g[k] \in Nat
    BY <1>5, <1>11
  <2> QED BY <2>1, <2>2
<1> QED BY <1>9, <1>10, <1>12

LEMMA PushedTyped ==
  ASSUME NEW list \in Seq(Collective), NEW r \in Registers
  PROVE  /\ [p \in Proc |-> AllArgs(list, "push", p)] \in Registers
         /\ Pushed(r, list) \in Registers
<1>1. \A p \in Proc : AllArgs(list, "push", p) \in Seq(Addr)
  BY AllArgsTyped DEF Arg
<1>2. \A p \in Proc : Len(AllArgs(list, "push", p)) = Len(AllArgs(list, "push", 0))
  BY AllArgsTyped, ZeroIsProcess
<1>3. [p \in Proc |-> AllArgs(list, "push", p)] \in Registers
  BY <1>1, <1>2, ZeroIsProcess DEF Registers
<1> QED BY <1>3, PushesTyped DEF Pushed

LEMMA RowsFacts ==
  ASSUME NEW prog \in Programs
  PROVE  /\ Rows(prog) \in [0 .. Len(prog.coll) -> Registers]
         /\ Rows(prog)[0] = [q \in Proc |-> <<>>]
         /\ \A s \in 1 .. Len(prog.coll) : Rows(prog)[s] = RowsAfter(Rows(prog)[s-1], prog.coll[s])
<1> DEFINE n == Len(prog.coll)
           none == [q \in Proc |-> <<>>]
           G(k, s) == RowsAfter(s, prog.coll[k])
           proceed == [k \in 1 .. n |-> [s \in Registers |-> G(k, s)]]
           Rec(f) == f = [k \in 0 .. n |-> IF k = 0 THEN none ELSE G(k, f[k-1])]
<1>1. n \in Nat
  BY Typed
<1>2. ASSUME NEW k \in 1 .. n, NEW s \in Registers PROVE G(k, s) \in Registers
  BY Typed, PushedTyped, PackTyped DEF RowsAfter
<1>3. proceed \in StepOfEach(n, Registers)
  <2> HIDE DEF n, G
  <2> QED BY <1>2 DEF StepOfEach
<1>4. \A k \in 1 .. n : \A s \in Registers : proceed[k][s] = G(k, s)
  <2> HIDE DEF n, G
  <2> QED OBVIOUS
<1> HIDE DEF proceed
<1>5. PICK f : /\ f \in [0 .. n -> Registers] /\ f[0] = none
               /\ \A k \in 1 .. n : f[k] = proceed[k][f[k-1]]
  <2>0. none \in Registers
    BY ZeroIsProcess DEF Registers
  <2> HIDE DEF n, G, none
  <2>1. \E f : Iterates(f, n, Registers, none, proceed)
    BY <1>1, <1>3, <2>0, RecursiveFunction
  <2> QED BY <2>1 DEF Iterates
<1>6. ASSUME NEW k \in 1 .. n PROVE f[k] = G(k, f[k-1])
  <2>1. k - 1 \in 0 .. n
    BY <1>1
  <2> HIDE DEF n, G
  <2>2. f[k-1] \in Registers
    BY <1>5, <2>1
  <2> QED BY <1>4, <1>5, <2>2
<1>7. Rec(f)
  <2> HIDE DEF G, none
  <2> QED BY <1>1, <1>5, <1>6
<1> DEFINE g == CHOOSE f2 : Rec(f2)
<1>8. Rec(g)
  <2> HIDE DEF Rec
  <2> QED BY <1>7
<1>9. g = Rows(prog)
  BY DEF Rows
<1> HIDE DEF g
<1>10. DOMAIN g = 0 .. n /\ g[0] = none /\ \A k \in 1 .. n : g[k] = G(k, g[k-1])
  <2> HIDE DEF G, none
  <2>1. DOMAIN g = 0 .. n
    BY <1>8
  <2>2. \A k \in 0 .. n : g[k] = IF k = 0 THEN none ELSE G(k, g[k-1])
    BY <1>8
  <2>3. 0 \in 0 .. n /\ \A k \in 1 .. n : k \in 0 .. n /\ k # 0
    BY <1>1
  <2> HIDE DEF n, Rec
  <2> QED BY <2>1, <2>2, <2>3
<1>11. \A k \in 0 .. n : g[k] = f[k]
  <2> HIDE DEF n, G, Rec, none
  <2>1. \A k \in 1 .. n : g[k-1] = f[k-1] => g[k] = f[k]
    BY <1>6, <1>10
  <2>2. GoTogether(g, f, n)
    BY <1>5, <1>10, <2>1 DEF GoTogether
  <2> QED BY <1>1, <2>2, RecursionsAgree
<1>12. g \in [0 .. n -> Registers]
  <2>1. g = [k \in 0 .. n |-> g[k]]
    <3> HIDE DEF n, G, none
    <3> QED BY <1>8
  <2> HIDE DEF n, G, Rec, none
  <2>2. \A k \in 0 .. n : g[k] \in Registers
    BY <1>5, <1>11
  <2> QED BY <2>1, <2>2
<1> QED BY <1>9, <1>10, <1>12

-----------------------------------------------------------------------------
(* The counters of the message queue. *)

Ones(c) == [i \in DOMAIN c |-> 1]
Sizes(c) == [i \in DOMAIN c |-> c[i].size]

(* What each list of messages weighs, as a function. *)
Weighings == [Seq(Message) -> Nat]
Total(weigh, columns) == SumFunction([q \in Proc |-> weigh[columns[q]]])
Count == [c \in Seq(Message) |-> SumFunction(Ones(c))]
Weight == [c \in Seq(Message) |-> SumFunction(Sizes(c))]

LEMMA CountAndWeight ==
  /\ Count \in Weighings /\ Weight \in Weighings
  /\ Count[<<>>] = 0 /\ Weight[<<>>] = 0
  /\ \A c \in Seq(Message) : c # <<>> =>
       /\ Count[c] = 1 + Count[Tail(c)]
       /\ Weight[c] = Head(c).size + Weight[Tail(c)]
<1> DEFINE M == Message
<1>0. <<>> \in Seq(M)
  OBVIOUS
<1>1. ASSUME NEW c \in Seq(M), NEW n \in Nat, n = Len(c)
      PROVE  /\ Ones(c) \in Families(1 .. n) /\ Sizes(c) \in Families(1 .. n)
             /\ Small(1 .. n)
  <2>1. \A i \in 1 .. n : c[i].size \in Nat
    BY <1>1 DEF Message
  <2>2. 1 .. n \in SUBSET (0 .. n)
    OBVIOUS
  <2> HIDE DEF M
  <2> QED BY <1>1, <2>1, <2>2 DEF Ones, Sizes, Families, Small
<1>2. ASSUME NEW c \in Seq(M)
      PROVE  SumFunction(Ones(c)) \in Nat /\ SumFunction(Sizes(c)) \in Nat
  <2> DEFINE D == 1 .. Len(c)
  <2>1. Ones(c) \in Families(D) /\ Sizes(c) \in Families(D) /\ Small(D)
    BY <1>1
  <2> HIDE DEF D
  <2> QED BY <2>1, SumOfFamily
<1>3. SumFunction(Ones(<<>>)) = 0 /\ SumFunction(Sizes(<<>>)) = 0
  <2> DEFINE D == 1 .. 0
  <2>1. Ones(<<>>) \in Families(D) /\ Sizes(<<>>) \in Families(D) /\ Small(D)
    BY <1>0, <1>1
  <2>2. \A x \in D : Ones(<<>>)[x] = 0 /\ Sizes(<<>>)[x] = 0
    OBVIOUS
  <2> HIDE DEF D
  <2> QED BY <2>1, <2>2, SumOfZeros
<1>4. ASSUME NEW c \in Seq(M), c # <<>>
      PROVE  /\ SumFunction(Ones(c)) = 1 + SumFunction(Ones(Tail(c)))
             /\ SumFunction(Sizes(c)) = Head(c).size + SumFunction(Sizes(Tail(c)))
  <2> DEFINE n == Len(c)
             r == Tail(c)
             k == Len(r)
  <2>1. /\ n \in Nat \ {0} /\ r \in Seq(M) /\ k \in Nat /\ k = n - 1 /\ Head(c) = c[1]
        /\ \A i \in 1 .. k : r[i] = c[i+1]
    BY <1>4
  <2>2. /\ Ones(c) \in Families(1 .. n) /\ Sizes(c) \in Families(1 .. n)
        /\ Ones(r) \in Families(1 .. k) /\ Sizes(r) \in Families(1 .. k)
    <3> HIDE DEF r, n, k
    <3> QED BY <1>1, <2>1 DEF n, k
  <2>3. /\ DOMAIN c = 1 .. n /\ DOMAIN r = 1 .. k
        /\ \A i \in 1 .. n-1 : i \in 1 .. k /\ i+1 \in 1 .. n
    BY <2>1
  <2> HIDE DEF r, n, k
  <2>4. /\ \A i \in 1 .. n-1 : Ones(r)[i] = Ones(c)[i+1]
        /\ \A i \in 1 .. n-1 : Sizes(r)[i] = Sizes(c)[i+1]
    BY <2>1, <2>3 DEF Ones, Sizes
  <2>5. Ones(c)[1] = 1 /\ Sizes(c)[1] = Head(c).size
    BY <2>1, <2>3 DEF Ones, Sizes
  <2>6. Ones(r) \in Families(1 .. n-1) /\ Sizes(r) \in Families(1 .. n-1)
    BY <2>1, <2>2
  <2>7. SumFunction(Ones(c)) = Ones(c)[1] + SumFunction(Ones(r))
    BY <2>1, <2>2, <2>4, <2>6, SumOfTail
  <2>8. SumFunction(Sizes(c)) = Sizes(c)[1] + SumFunction(Sizes(r))
    BY <2>1, <2>2, <2>4, <2>6, SumOfTail
  <2> QED BY <2>5, <2>7, <2>8 DEF r
<1>5. Count \in Weighings /\ Weight \in Weighings
  BY <1>2 DEF Count, Weight, Weighings
<1>6. Count[<<>>] = 0 /\ Weight[<<>>] = 0
  BY <1>0, <1>3 DEF Count, Weight
<1>7. ASSUME NEW c \in Seq(M), c # <<>>
      PROVE  /\ Count[c] = 1 + Count[Tail(c)]
             /\ Weight[c] = Head(c).size + Weight[Tail(c)]
  <2>1. Tail(c) \in Seq(M)
    BY <1>7
  <2> QED BY <1>4, <1>7, <2>1 DEF Count, Weight
<1> QED BY <1>5, <1>6, <1>7

LEMMA CountersAre ==
  ASSUME NEW columns \in [Proc -> Seq(Message)]
  PROVE  Messages(columns) = Total(Count, columns) /\ Bytes(columns) = Total(Weight, columns)
<1> DEFINE f == [q \in Proc |-> SumFunction(Ones(columns[q]))]
           g == [q \in Proc |-> SumFunction(Sizes(columns[q]))]
<1>1. DOMAIN columns = Proc
  OBVIOUS
<1>2. Messages(columns) = SumFunction(f)
  BY <1>1, Zenon DEF Messages, SumOver, SumFunction, SumFunctionOnSet, FoldFunction, Ones
<1>3. Bytes(columns) = SumFunction(g)
  BY <1>1, Zenon DEF Bytes, SumOver, SumFunction, SumFunctionOnSet, FoldFunction, Sizes
<1>4. f = [q \in Proc |-> Count[columns[q]]] /\ g = [q \in Proc |-> Weight[columns[q]]]
  BY DEF Count, Weight
<1> HIDE DEF f, g
<1> QED BY <1>2, <1>3, <1>4 DEF Total

LEMMA ProcIsSmall == Small(Proc) /\ \A q \in Proc : q \in Nat /\ q < N
<1>1. Proc \in SUBSET (0 .. N) /\ N \in Nat
  BY NAssumption DEF Proc
<1> QED BY <1>1, NAssumption DEF Small, Proc

LEMMA TotalTyped ==
  ASSUME NEW weigh \in Weighings, NEW columns \in [Proc -> Seq(Message)]
  PROVE  [q \in Proc |-> weigh[columns[q]]] \in Families(Proc) /\ Total(weigh, columns) \in Nat
<1> DEFINE f == [q \in Proc |-> weigh[columns[q]]]
           S == Seq(Message)
<1>1. f \in Families(Proc)
  <2> HIDE DEF S
  <2>1. weigh \in [S -> Nat] /\ columns \in [Proc -> S]
    BY DEF Weighings, S
  <2> QED BY <2>1 DEF Families
<1>2. SumFunction(f) \in Nat
  <2> HIDE DEF f
  <2> QED BY <1>1, ProcIsSmall, SumOfFamily
<1> QED BY <1>1, <1>2 DEF Total

(* Empty lists weigh nothing, and a count that is not 0 means a message. *)
LEMMA TotalOfEmpty ==
  ASSUME NEW weigh \in Weighings, NEW columns \in [Proc -> Seq(Message)],
         weigh[<<>>] = 0, \A q \in Proc : columns[q] = <<>>
  PROVE  Total(weigh, columns) = 0
<1> DEFINE f == [q \in Proc |-> weigh[columns[q]]]
<1>1. f \in Families(Proc)
  BY TotalTyped
<1>2. \A q \in Proc : f[q] = 0
  OBVIOUS
<1>3. SumFunction(f) = 0
  <2> HIDE DEF f
  <2> QED BY <1>1, <1>2, ProcIsSmall, SumOfZeros
<1> QED BY <1>3 DEF Total

(* Taking the first message of one list, which weighs k. *)
Lighter(weigh, list, k) == weigh[list] = k + weigh[Tail(list)]
WithoutHead(columns, p) == [columns EXCEPT ![p] = Tail(@)]

LEMMA TotalOfTail ==
  ASSUME NEW weigh \in Weighings, NEW columns \in [Proc -> Seq(Message)], NEW p \in Proc,
         columns[p] # <<>>, NEW k \in Nat, Lighter(weigh, columns[p], k)
  PROVE  /\ WithoutHead(columns, p) \in [Proc -> Seq(Message)]
         /\ Total(weigh, columns) = k + Total(weigh, WithoutHead(columns, p))
<1> DEFINE after == WithoutHead(columns, p)
           f == [q \in Proc |-> weigh[columns[q]]]
           g == [q \in Proc |-> weigh[after[q]]]
<1>0. after \in [Proc -> Seq(Message)]
  BY DEF WithoutHead
<1>1. after[p] = Tail(columns[p]) /\ \A q \in Proc \ {p} : after[q] = columns[q]
  BY DEF WithoutHead
<1>2. f \in Families(Proc) /\ SumFunction(f) \in Nat
  BY TotalTyped DEF Total
<1>3. g \in Families(Proc) /\ SumFunction(g) \in Nat
  <2> HIDE DEF after
  <2> QED BY <1>0, TotalTyped DEF Total
<1>4. AgreeOn(f, g, Proc \ {p})
  <2> HIDE DEF after
  <2> QED BY <1>1 DEF AgreeOn
<1>5. f[p] = k + g[p]
  <2> HIDE DEF after
  <2> QED BY <1>1 DEF Lighter
<1>6. f[p] \in Nat /\ g[p] \in Nat
  <2> HIDE DEF f, g
  <2> QED BY <1>2, <1>3 DEF Families
<1>7. SumFunction(f) + g[p] = SumFunction(g) + f[p]
  <2> HIDE DEF f, g
  <2> QED BY <1>2, <1>3, <1>4, ProcIsSmall, SumWithOneChanged
<1> DEFINE s == SumFunction(f)
           t == SumFunction(g)
           u == f[p]
           v == g[p]
<1>8. s = k + t
  <2>1. s \in Nat /\ t \in Nat /\ u \in Nat /\ v \in Nat /\ u = k + v /\ s + v = t + u
    BY <1>2, <1>3, <1>5, <1>6, <1>7
  <2> HIDE DEF s, t, u, v
  <2> QED BY <2>1
<1> QED BY <1>0, <1>8 DEF Total

-----------------------------------------------------------------------------
(* What the operations of the queue do to it. *)

LEMMA QueueTyped ==
  ASSUME NEW m \in Queue
  PROVE  /\ m = [recv_tag_size |-> m.recv_tag_size, send_tag_size |-> m.send_tag_size,
                 n_mesg |-> m.n_mesg, accum_size |-> m.accum_size, pending |-> m.pending]
         /\ m.recv_tag_size \in Nat /\ m.send_tag_size \in Nat
         /\ m.n_mesg \in Nat /\ m.accum_size \in Nat
         /\ m.pending \in [Proc -> Seq(Message)]
         /\ m.n_mesg = Total(Count, m.pending) /\ m.accum_size >= Total(Weight, m.pending)
<1>1. m.pending \in [Proc -> Seq(Message)]
  BY DEF Queue
<1>2. Messages(m.pending) = Total(Count, m.pending) /\ Bytes(m.pending) = Total(Weight, m.pending)
  BY <1>1, CountersAre
<1> QED BY <1>1, <1>2 DEF Queue

LEMMA MakeQueue ==
  ASSUME NEW r \in Nat, NEW s \in Nat, NEW n \in Nat, NEW a \in Nat,
         NEW columns \in [Proc -> Seq(Message)],
         n = Total(Count, columns), a >= Total(Weight, columns)
  PROVE  [recv_tag_size |-> r, send_tag_size |-> s, n_mesg |-> n, accum_size |-> a,
          pending |-> columns] \in Queue
<1>1. Messages(columns) = Total(Count, columns) /\ Bytes(columns) = Total(Weight, columns)
  BY CountersAre
<1> QED BY <1>1 DEF Queue

LEMMA EmptyQueueTyped == EmptyQueue(Proc) \in Queue
<1> DEFINE none == [q \in Proc |-> <<>>]
<1>1. none \in [Proc -> Seq(Message)] /\ \A q \in Proc : none[q] = <<>>
  OBVIOUS
<1> HIDE DEF none
<1>2. Total(Count, none) = 0 /\ Total(Weight, none) = 0
  BY <1>1, CountAndWeight, TotalOfEmpty
<1>3. 0 \in Nat /\ 0 >= 0
  OBVIOUS
<1>4. [recv_tag_size |-> 0, send_tag_size |-> 0, n_mesg |-> 0, accum_size |-> 0,
       pending |-> none] \in Queue
  BY <1>1, <1>2, <1>3, MakeQueue
<1> QED BY <1>4 DEF EmptyQueue, none

LEMMA SyncTyped ==
  ASSUME NEW m \in Queue
  PROVE  /\ QueueSync(m) \in Queue
         /\ QueueSync(m).n_mesg = 0 /\ QueueSync(m).recv_tag_size = m.send_tag_size
         /\ QueueSync(m).send_tag_size = m.send_tag_size
         /\ \A q \in Proc : QueueSync(m).pending[q] = <<>>
<1> DEFINE none == [q \in Proc |-> <<>>]
<1>1. none \in [Proc -> Seq(Message)] /\ \A q \in Proc : none[q] = <<>>
  OBVIOUS
<1>2. QueueSync(m) = [recv_tag_size |-> m.send_tag_size, send_tag_size |-> m.send_tag_size,
                      n_mesg |-> 0, accum_size |-> 0, pending |-> none]
  <2>1. DOMAIN m.pending = Proc
    BY QueueTyped
  <2>2. none = [q \in DOMAIN m.pending |-> <<>>]
    BY <2>1
  <2> HIDE DEF none
  <2>3. QueueSync(m) = [m EXCEPT !.recv_tag_size = m.send_tag_size, !.n_mesg = 0, !.accum_size = 0,
                                 !.pending = none]
    BY <2>2, Zenon DEF QueueSync
  <2> DEFINE s == m.send_tag_size
  <2>4. m \in [recv_tag_size : Nat, send_tag_size : Nat, n_mesg : Nat, accum_size : Nat,
               pending : [Proc -> Seq(Message)]]
    BY DEF Queue
  <2> QED BY <2>3, <2>4
<1> HIDE DEF none
<1>3. Total(Count, none) = 0 /\ Total(Weight, none) = 0
  BY <1>1, CountAndWeight, TotalOfEmpty
<1>4. 0 \in Nat /\ 0 >= 0 /\ m.send_tag_size \in Nat
  BY QueueTyped
<1>5. QueueSync(m) \in Queue
  <2> DEFINE s == m.send_tag_size
  <2> HIDE DEF s
  <2>1. s \in Nat
    BY <1>4 DEF s
  <2>2. [recv_tag_size |-> s, send_tag_size |-> s, n_mesg |-> 0, accum_size |-> 0,
         pending |-> none] \in Queue
    BY <1>1, <1>3, <1>4, <2>1, MakeQueue
  <2> QED BY <1>2, <2>2 DEF s
<1> QED BY <1>1, <1>2, <1>5

LEMMA HeadExists ==
  ASSUME NEW m \in Queue, m.n_mesg > 0
  PROVE  /\ HeadColumn(m) \in Proc /\ m.pending[HeadColumn(m)] # <<>>
         /\ \A r \in Proc : m.pending[r] # <<>> => HeadColumn(m) <= r
<1> DEFINE T == {q \in Proc : m.pending[q] # <<>>}
<1>1. m.pending \in [Proc -> Seq(Message)] /\ m.n_mesg = Total(Count, m.pending)
  BY QueueTyped
<1>2. T # {}
  <2> SUFFICES ASSUME \A q \in Proc : m.pending[q] = <<>> PROVE FALSE
    OBVIOUS
  <2>1. Total(Count, m.pending) = 0
    BY <1>1, CountAndWeight, TotalOfEmpty
  <2> QED BY <1>1, <2>1
<1>3. T \in SUBSET Nat
  BY ProcIsSmall
<1>4. PICK q \in T : \A r \in T : q <= r
  <2> HIDE DEF T
  <2> QED BY <1>2, <1>3, LeastNumber
<1>5. /\ q \in DOMAIN m.pending /\ m.pending[q] # <<>>
      /\ \A r \in DOMAIN m.pending : m.pending[r] # <<>> => q <= r
  BY <1>1, <1>4
<1>6. /\ HeadColumn(m) \in DOMAIN m.pending /\ m.pending[HeadColumn(m)] # <<>>
      /\ \A r \in DOMAIN m.pending : m.pending[r] # <<>> => HeadColumn(m) <= r
  BY <1>5 DEF HeadColumn
<1> QED BY <1>1, <1>6

(* t is s, or s without its first message. *)
Loses(s, t) == t = s \/ (s # <<>> /\ t = Tail(s))

LEMMA DequeueTyped ==
  ASSUME NEW m \in Queue, m.n_mesg > 0, NEW bytes \in Nat, bytes <= HeadMessage(m).size
  PROVE  /\ Dequeue(m, bytes) \in Queue
         /\ Dequeue(m, bytes).recv_tag_size = m.recv_tag_size
         /\ Dequeue(m, bytes).send_tag_size = m.send_tag_size
         /\ \A q \in Proc : Loses(m.pending[q], Dequeue(m, bytes).pending[q])
<1> DEFINE h == HeadColumn(m)
           c == m.pending
           after == [c EXCEPT ![h] = Tail(@)]
           n == m.n_mesg - 1
           a == m.accum_size - bytes
           size == HeadMessage(m).size
<1>1. h \in Proc /\ c[h] # <<>> /\ c \in [Proc -> Seq(Message)]
  BY HeadExists, QueueTyped
<1>2. /\ m.n_mesg = Total(Count, c) /\ m.accum_size >= Total(Weight, c)
      /\ m.n_mesg \in Nat /\ m.accum_size \in Nat
      /\ m.recv_tag_size \in Nat /\ m.send_tag_size \in Nat
  BY QueueTyped
<1>3. size \in Nat /\ size = Head(c[h]).size
  <2> DEFINE M == Message
             s == c[h]
  <2>1. s \in Seq(M) /\ s # <<>>
    BY <1>1
  <2>2. Head(s) \in M
    <3> HIDE DEF s, M
    <3> QED BY <2>1
  <2> QED BY <2>2 DEF Message, HeadMessage
<1>4. /\ Count[c[h]] = 1 + Count[Tail(c[h])]
      /\ Weight[c[h]] = size + Weight[Tail(c[h])]
      /\ Count \in Weighings /\ Weight \in Weighings
  <2> HIDE DEF h, c, size
  <2>1. c[h] \in Seq(Message)
    BY <1>1
  <2> QED BY <1>1, <1>3, <2>1, CountAndWeight
<1>5. /\ after \in [Proc -> Seq(Message)] /\ Total(Count, c) = 1 + Total(Count, after)
      /\ Total(Weight, c) = size + Total(Weight, after)
      /\ Total(Count, after) \in Nat /\ Total(Weight, after) \in Nat
  <2>1. after \in [Proc -> Seq(Message)]
    <3> HIDE DEF h, c
    <3> QED BY <1>1
  <2> HIDE DEF h, c, size
  <2>2. /\ Total(Count, c) = 1 + Total(Count, after)
        /\ Total(Weight, c) = size + Total(Weight, after)
    <3>0. after = WithoutHead(c, h)
      BY DEF WithoutHead
    <3> HIDE DEF after
    <3>1. Lighter(Count, c[h], 1) /\ Lighter(Weight, c[h], size) /\ 1 \in Nat /\ size \in Nat
      BY <1>3, <1>4 DEF Lighter
    <3> QED BY <1>1, <1>4, <3>0, <3>1, TotalOfTail
  <2> HIDE DEF after
  <2>3. Total(Count, after) \in Nat /\ Total(Weight, after) \in Nat
    BY <1>4, <2>1, TotalTyped
  <2> QED BY <2>1, <2>2, <2>3
<1>6. n \in Nat /\ a \in Nat /\ n = Total(Count, after) /\ a >= Total(Weight, after)
  <2> DEFINE tc == Total(Count, after)
             tw == Total(Weight, after)
             uc == Total(Count, c)
             uw == Total(Weight, c)
  <2>1. /\ uc = 1 + tc /\ uw = size + tw /\ tc \in Nat /\ tw \in Nat /\ size \in Nat
        /\ m.n_mesg = uc /\ m.accum_size >= uw /\ bytes <= size
        /\ m.n_mesg \in Nat /\ m.accum_size \in Nat
    BY <1>2, <1>3, <1>5
  <2> HIDE DEF tc, tw, uc, uw, size
  <2>2. n \in Nat /\ a \in Nat /\ n = tc /\ a >= tw
    BY <2>1
  <2> QED BY <2>2 DEF tc, tw
<1>7. Dequeue(m, bytes) = [recv_tag_size |-> m.recv_tag_size, send_tag_size |-> m.send_tag_size,
                           n_mesg |-> n, accum_size |-> a, pending |-> after]
  <2>1. m \in [recv_tag_size : Nat, send_tag_size : Nat, n_mesg : Nat, accum_size : Nat,
               pending : [Proc -> Seq(Message)]]
    BY DEF Queue
  <2>2. Dequeue(m, bytes) = [m EXCEPT !.n_mesg = n, !.accum_size = a, !.pending = after]
    <3> HIDE DEF h
    <3> QED BY DEF Dequeue, h
  <2> HIDE DEF after, n, a, h, c
  <2> QED BY <2>1, <2>2
<1>8. Dequeue(m, bytes) \in Queue
  <2> HIDE DEF after, n, a, h, c
  <2> QED BY <1>2, <1>5, <1>6, <1>7, MakeQueue
<1>9. \A q \in Proc : Loses(c[q], after[q])
  <2> HIDE DEF h, c
  <2> QED BY <1>1 DEF Loses
<1> HIDE DEF after, n, a, h
<1> QED BY <1>7, <1>8, <1>9

LEMMA MovesTyped ==
  ASSUME NEW m \in Queue, m.n_mesg > 0
  PROVE  /\ HeadMessage(m) \in Message
         /\ HeadMessage(m).size \in Nat /\ HeadMessage(m).payload_size \in Nat
         /\ HeadMessage(m).payload_size <= HeadMessage(m).size
<1> DEFINE h == HeadColumn(m)
           s == m.pending[h]
           M == Message
<1>1. s \in Seq(M) /\ s # <<>>
  BY HeadExists, QueueTyped
<1>2. Head(s) \in M
  <2> HIDE DEF s, M
  <2> QED BY <1>1
<1> QED BY <1>2, PayloadAssumption DEF HeadMessage, Message

LEMMA GatherTyped ==
  ASSUME NEW m \in Queue, m.n_mesg = 0, NEW columns \in [Proc -> Seq(Message)]
  PROVE  /\ Gather(m, columns) \in Queue
         /\ Gather(m, columns).recv_tag_size = m.recv_tag_size
         /\ Gather(m, columns).send_tag_size = m.send_tag_size
         /\ Gather(m, columns).pending = columns
<1> DEFINE n == Messages(columns)
           b == Bytes(columns)
<1>1. /\ n = Total(Count, columns) /\ b = Total(Weight, columns) /\ n \in Nat /\ b \in Nat
  BY CountersAre, CountAndWeight, TotalTyped
<1>2. /\ m \in [recv_tag_size : Nat, send_tag_size : Nat, n_mesg : Nat, accum_size : Nat,
                pending : [Proc -> Seq(Message)]]
  BY DEF Queue
<1>3. Gather(m, columns) = [m EXCEPT !.n_mesg = m.n_mesg + n, !.accum_size = m.accum_size + b,
                                     !.pending = columns]
  BY Zenon DEF Gather, Messages, Bytes
<1> HIDE DEF n, b
<1>4. Gather(m, columns) =
        [recv_tag_size |-> m.recv_tag_size, send_tag_size |-> m.send_tag_size,
         n_mesg |-> m.n_mesg + n, accum_size |-> m.accum_size + b, pending |-> columns]
  BY <1>2, <1>3
<1> DEFINE k == m.n_mesg + n
           a == m.accum_size + b
<1>5. k \in Nat /\ a \in Nat /\ k = n /\ a >= b
  BY <1>1, <1>2
<1>6. Gather(m, columns) \in Queue
  <2>1. m.recv_tag_size \in Nat /\ m.send_tag_size \in Nat
    BY <1>2
  <2> HIDE DEF k, a
  <2>2. Gather(m, columns) = [recv_tag_size |-> m.recv_tag_size, send_tag_size |-> m.send_tag_size,
                              n_mesg |-> k, accum_size |-> a, pending |-> columns]
    BY <1>4 DEF k, a
  <2>3. k = Total(Count, columns) /\ a >= Total(Weight, columns)
    BY <1>1, <1>5
  <2> QED BY <1>5, <2>1, <2>2, <2>3, MakeQueue
<1> QED BY <1>4, <1>6

LEMMA SetTagsTyped ==
  ASSUME NEW m \in Queue, NEW sizes \in Seq(Nat)
  PROVE  /\ SetTags(m, sizes) \in Queue
         /\ SetTags(m, sizes).recv_tag_size = m.recv_tag_size
         /\ SetTags(m, sizes).pending = m.pending
         /\ SetTags(m, sizes).send_tag_size
              = IF sizes = <<>> THEN m.send_tag_size ELSE sizes[Len(sizes)]
<1>1. CASE sizes = <<>>
  BY <1>1 DEF SetTags
<1>2. CASE sizes # <<>>
  <2> DEFINE last == sizes[Len(sizes)]
  <2>1. last \in Nat
    BY <1>2
  <2>2. SetTags(m, sizes) = [m EXCEPT !.send_tag_size = last]
    BY <1>2 DEF SetTags
  <2> HIDE DEF last
  <2>3. m \in [recv_tag_size : Nat, send_tag_size : Nat, n_mesg : Nat, accum_size : Nat,
               pending : [Proc -> Seq(Message)]]
    BY DEF Queue
  <2>4. SetTags(m, sizes) =
          [recv_tag_size |-> m.recv_tag_size, send_tag_size |-> last,
           n_mesg |-> m.n_mesg, accum_size |-> m.accum_size, pending |-> m.pending]
    BY <2>2, <2>3
  <2>5. SetTags(m, sizes) \in Queue
    BY <2>1, <2>4, QueueTyped, MakeQueue
  <2> QED BY <1>2, <2>4, <2>5 DEF last
<1> QED BY <1>1, <1>2

-----------------------------------------------------------------------------
(* Rows of the register, and where puts write. *)

LEMMA NewestRow ==
  ASSUME NEW column \in Seq(Addr), NEW removed, NEW a, HasLiveRow(column, removed, a)
  PROVE  /\ NewestLiveRow(column, removed, a) \in 1 .. Len(column)
         /\ column[NewestLiveRow(column, removed, a)] = a
         /\ LiveRow(column, removed, a, NewestLiveRow(column, removed, a))
         /\ \A j \in DOMAIN column :
              LiveRow(column, removed, a, j) => j <= NewestLiveRow(column, removed, a)
<1> DEFINE n == Len(column)
           T == {i \in 1 .. n : LiveRow(column, removed, a, i)}
<1>1. n \in Nat /\ DOMAIN column = 1 .. n
  OBVIOUS
<1>2. T \in SUBSET (0 .. n) /\ T # {}
  BY <1>1 DEF HasLiveRow
<1>3. Max(T) \in T /\ \A y \in T : y <= Max(T)
  <2> HIDE DEF T, n
  <2> QED BY <1>1, <1>2, MaxOfInterval
<1>4. \E i \in DOMAIN column : /\ LiveRow(column, removed, a, i)
                               /\ \A j \in DOMAIN column : LiveRow(column, removed, a, j) => j <= i
  <2> DEFINE i == Max(T)
  <2>1. i \in T /\ \A y \in T : y <= i
    BY <1>3
  <2> HIDE DEF i
  <2>2. i \in DOMAIN column /\ LiveRow(column, removed, a, i)
    BY <2>1, <1>1
  <2>3. \A j \in DOMAIN column : LiveRow(column, removed, a, j) => j <= i
    BY <2>1, <1>1
  <2> QED BY <2>2, <2>3
<1>5. /\ NewestLiveRow(column, removed, a) \in DOMAIN column
      /\ LiveRow(column, removed, a, NewestLiveRow(column, removed, a))
      /\ \A j \in DOMAIN column :
           LiveRow(column, removed, a, j) => j <= NewestLiveRow(column, removed, a)
  <2> HIDE DEF n
  <2> QED BY <1>4 DEF NewestLiveRow
<1> QED BY <1>1, <1>5 DEF LiveRow

LEMMA CounterpartTyped ==
  ASSUME NEW r \in Registers, NEW p \in Proc, NEW q \in Proc, NEW a,
         HasLiveRow(r[p], {}, a)
  PROVE  Counterpart(r, p, q, a) \in Addr
<1> DEFINE i == NewestLiveRow(r[p], {}, a)
<1>1. r[p] \in Seq(Addr) /\ r[q] \in Seq(Addr) /\ Len(r[p]) = Len(r[0]) /\ Len(r[q]) = Len(r[0])
  BY DEF Registers
<1>2. i \in 1 .. Len(r[p])
  BY <1>1, NewestRow
<1> HIDE DEF i
<1>3. r[q][i] \in Addr
  BY <1>1, <1>2
<1> QED BY <1>3 DEF Counterpart, i

(* The last write of several: of the last column, the last one there. *)
LEMMA LastWrite ==
  ASSUME NEW columns \in [Proc -> Deliveries], NEW a, WritesTo(a, columns) # {}
  PROVE  \E w \in WritesTo(a, columns) : \A v \in WritesTo(a, columns) : Later(w, v)
<1> DEFINE W == WritesTo(a, columns)
           T == {q \in Proc : \E w \in W : w[1] = q}
<1>1. \A w \in W : /\ w = <<w[1], w[2]>> /\ w[1] \in Proc /\ w[1] \in Nat
                   /\ w[2] \in 1 .. Len(columns[w[1]].put) /\ w[2] \in Nat
                   /\ Len(columns[w[1]].put) \in Nat
  <2> SUFFICES ASSUME NEW w \in W
               PROVE  /\ w = <<w[1], w[2]>> /\ w[1] \in Proc /\ w[1] \in Nat
                      /\ w[2] \in 1 .. Len(columns[w[1]].put) /\ w[2] \in Nat
                      /\ Len(columns[w[1]].put) \in Nat
    OBVIOUS
  <2>1. PICK q \in Proc, i \in UNION {DOMAIN columns[r].put : r \in Proc} : w = <<q, i>>
    BY DEF WritesTo
  <2>2. w[1] = q /\ w[2] = i /\ i \in DOMAIN columns[q].put
    BY <2>1 DEF WritesTo
  <2>3. columns[q].put \in Seq([dst : Addr, val : Val])
    BY DEF Deliveries
  <2>4. q \in Nat
    BY ProcIsSmall
  <2> QED BY <2>1, <2>2, <2>3, <2>4
<1>2. T # {} /\ T \in SUBSET (0 .. N) /\ N \in Nat
  <2>1. Proc \in SUBSET (0 .. N) /\ N \in Nat
    BY NAssumption DEF Proc
  <2> HIDE DEF W
  <2>2. PICK w \in W : TRUE
    BY DEF W
  <2>3. w[1] \in T
    BY <1>1, <2>2
  <2> QED BY <2>1, <2>3
<1> DEFINE q == Max(T)
<1>3. q \in T /\ \A y \in T : y <= q
  <2> HIDE DEF T
  <2> QED BY <1>2, MaxOfInterval
<1> DEFINE n == Len(columns[q].put)
           I == {i \in 1 .. n : \E w \in W : w[1] = q /\ w[2] = i}
<1>4. I # {} /\ I \in SUBSET (0 .. n) /\ n \in Nat
  <2> HIDE DEF W, q
  <2>1. PICK w \in W : w[1] = q
    BY <1>3
  <2>2. w[2] \in 1 .. n /\ n \in Nat
    BY <1>1, <2>1
  <2> HIDE DEF n
  <2>3. w[2] \in I
    BY <2>1, <2>2
  <2> QED BY <2>2, <2>3
<1> DEFINE i == Max(I)
<1>5. i \in I /\ \A y \in I : y <= i
  <2> HIDE DEF I, n
  <2> QED BY <1>4, MaxOfInterval
<1> HIDE DEF q, i, n, W
<1>6. PICK w \in W : w[1] = q /\ w[2] = i
  BY <1>5
<1>7. ASSUME NEW v \in W PROVE Later(w, v)
  <2>1. v[1] \in T /\ v[1] <= q /\ v[1] \in Nat /\ q \in Nat
    BY <1>1, <1>3, <1>6
  <2>2. CASE v[1] = q
    <3>1. v[2] \in I /\ v[2] \in Nat /\ i \in Nat
      BY <1>1, <1>6, <2>2 DEF n
    <3>2. v[2] <= i
      BY <1>5, <3>1
    <3> QED BY <1>6, <2>2, <3>1, <3>2 DEF Later
  <2>3. CASE v[1] # q
    BY <1>6, <2>1, <2>3 DEF Later
  <2> QED BY <2>2, <2>3
<1> QED BY <1>6, <1>7 DEF W

LEMMA AfterPutsTyped ==
  ASSUME NEW columns \in [Proc -> Deliveries], NEW m \in [Addr -> Val]
  PROVE  AfterPuts(m, columns) \in [Addr -> Val]
<1> DEFINE value(a) ==
             IF WritesTo(a, columns) = {} THEN m[a]
             ELSE LET w == CHOOSE w \in WritesTo(a, columns) :
                             \A v \in WritesTo(a, columns) : Later(w, v)
                  IN  columns[w[1]].put[w[2]].val
<1>1. AfterPuts(m, columns) = [a \in Addr |-> value(a)]
  BY DEF AfterPuts
<1>2. ASSUME NEW a \in Addr PROVE value(a) \in Val
  <2>1. CASE WritesTo(a, columns) = {}
    BY <2>1
  <2>2. CASE WritesTo(a, columns) # {}
    <3> DEFINE w == CHOOSE w \in WritesTo(a, columns) : \A v \in WritesTo(a, columns) : Later(w, v)
    <3>1. w \in WritesTo(a, columns)
      <4>1. \E u \in WritesTo(a, columns) : \A v \in WritesTo(a, columns) : Later(u, v)
        BY <2>2, LastWrite
      <4> QED BY <4>1
    <3>2. value(a) = columns[w[1]].put[w[2]].val
      BY <2>2
    <3> HIDE DEF w, value
    <3>3. PICK q \in Proc, i \in UNION {DOMAIN columns[r].put : r \in Proc} : w = <<q, i>>
      BY <3>1 DEF WritesTo
    <3>4. w[1] = q /\ w[2] = i /\ i \in DOMAIN columns[q].put
      BY <3>1, <3>3 DEF WritesTo
    <3>5. columns[q].put \in Seq([dst : Addr, val : Val])
      BY DEF Deliveries
    <3>6. columns[q].put[i] \in [dst : Addr, val : Val]
      <4> DEFINE puts == columns[q].put
                 R == [dst : Addr, val : Val]
      <4>1. puts \in Seq(R) /\ i \in DOMAIN puts
        BY <3>4, <3>5
      <4>2. puts[i] \in R
        <5> HIDE DEF puts, R
        <5> QED BY <4>1
      <4> QED BY <4>2
    <3> QED BY <3>2, <3>4, <3>6
  <2> QED BY <2>1, <2>2
<1> HIDE DEF value
<1> QED BY <1>1, <1>2

-----------------------------------------------------------------------------
(* The blocks on their way. *)

LEMMA TransitShape ==
  ASSUME ControlInv, NEW q \in Proc, NEW r \in Proc
  PROVE  /\ \E S : chan[q][r] \in Seq(S)
         /\ \A b \in InTransit(q, r) : b.kind \in Kinds
<1>1. Meeting(q, r)
  BY DEF ControlInv, InStep
<1>2. \/ None(q, r)
      \/ \E k \in Kinds : One(q, r, k)
      \/ \E k, l \in Kinds : Two(q, r, k, l)
  BY <1>1 DEF Meeting, SameStep, Ahead, Behind, Kinds
<1>3. CASE None(q, r)
  <2>1. chan[q][r] \in Seq({})
    BY <1>3 DEF None
  <2>2. InTransit(q, r) = {}
    BY <1>3 DEF None, InTransit
  <2> QED BY <2>1, <2>2
<1>4. ASSUME NEW k \in Kinds, One(q, r, k)
      PROVE  /\ \E S : chan[q][r] \in Seq(S)
             /\ \A b \in InTransit(q, r) : b.kind \in Kinds
  <2>1. PICK a : chan[q][r] = <<a>> /\ a.kind = k
    BY <1>4 DEF One, IsBlock
  <2>2. <<a>> \in Seq({a}) /\ InTransit(q, r) = {a}
    BY <2>1 DEF InTransit
  <2> QED BY <2>1, <2>2
<1>5. ASSUME NEW k \in Kinds, NEW l \in Kinds, Two(q, r, k, l)
      PROVE  /\ \E S : chan[q][r] \in Seq(S)
             /\ \A b \in InTransit(q, r) : b.kind \in Kinds
  <2>1. PICK a, b : chan[q][r] = <<a, b>> /\ a.kind = k /\ b.kind = l
    BY <1>5 DEF Two, IsBlock
  <2>2. <<a, b>> \in Seq({a, b}) /\ InTransit(q, r) = {a, b}
    BY <2>1 DEF InTransit
  <2> QED BY <2>1, <2>2
<1> QED BY <1>2, <1>3, <1>4, <1>5

(* Taking the first block and giving another one. *)
Elements(s) == {s[i] : i \in DOMAIN s}

LEMMA ElementsAfter ==
  ASSUME NEW S, NEW s \in Seq(S), NEW b
  PROVE  /\ Elements(Append(s, b)) = Elements(s) \union {b}
         /\ s # <<>> => /\ Head(s) \in Elements(s) /\ Elements(Tail(s)) \subseteq Elements(s)
                        /\ \E T : Tail(s) \in Seq(T)
<1> DEFINE n == Len(s)
           t == Append(s, b)
<1>1. n \in Nat /\ DOMAIN s = 1 .. n
  OBVIOUS
<1>2. /\ DOMAIN t = 1 .. n+1 /\ t[n+1] = b /\ \A i \in 1 .. n : t[i] = s[i]
  <2> DEFINE T == S \union {b}
  <2>1. s \in Seq(T) /\ b \in T
    OBVIOUS
  <2> HIDE DEF T
  <2> QED BY <2>1
<1>3. Elements(t) = Elements(s) \union {b}
  <2> HIDE DEF t, n
  <2> QED BY <1>1, <1>2 DEF Elements
<1>4. ASSUME s # <<>>
      PROVE  /\ Head(s) \in Elements(s) /\ Elements(Tail(s)) \subseteq Elements(s)
             /\ \E T : Tail(s) \in Seq(T)
  <2>1. Head(s) = s[1] /\ 1 \in 1 .. n /\ Tail(s) \in Seq(S)
    BY <1>4
  <2>2. DOMAIN Tail(s) = 1 .. n-1 /\ \A i \in 1 .. n-1 : Tail(s)[i] = s[i+1]
    BY <1>4
  <2> QED BY <1>1, <2>1, <2>2 DEF Elements
<1> QED BY <1>3, <1>4

LEMMA EnterTransit ==
  ASSUME ControlInv, NEW p \in Proc, NEW blocks, Enter(p, blocks), NEW q \in Proc, NEW r \in Proc
  PROVE  InTransit(q, r)' \subseteq InTransit(q, r) \union {b \in {blocks[r]} : q = p}
<1>1. chan'[q][r] = IF q = p THEN Append(chan[q][r], blocks[r]) ELSE chan[q][r]
  BY EnterChan DEF ControlInv
<1>2. PICK S : chan[q][r] \in Seq(S)
  BY TransitShape
<1>3. Elements(Append(chan[q][r], blocks[r])) = Elements(chan[q][r]) \union {blocks[r]}
  BY <1>2, ElementsAfter
<1>4. InTransit(q, r) = Elements(chan[q][r]) /\ InTransit(q, r)' = Elements(chan'[q][r])
  BY DEF InTransit, Elements
<1> QED BY <1>1, <1>3, <1>4

LEMMA LeaveAndEnterTransit ==
  ASSUME ControlInv, NEW p \in Proc, NEW blocks, LeaveAndEnter(p, blocks), CanLeave(p),
         NEW q \in Proc, NEW r \in Proc
  PROVE  InTransit(q, r)' \subseteq InTransit(q, r) \union {b \in {blocks[r]} : q = p}
<1> DEFINE rest == IF r = p THEN Tail(chan[q][r]) ELSE chan[q][r]
<1>1. chan'[q][r] = IF q = p THEN Append(rest, blocks[r]) ELSE rest
  BY LeaveAndEnterChan DEF ControlInv
<1>2. PICK S : chan[q][r] \in Seq(S)
  BY TransitShape
<1>3. Elements(rest) \subseteq Elements(chan[q][r]) /\ \E T : rest \in Seq(T)
  <2>1. r = p => chan[q][r] # <<>>
    BY DEF CanLeave
  <2> QED BY <1>2, <2>1, ElementsAfter
<1> HIDE DEF rest
<1>4. Elements(Append(rest, blocks[r])) = Elements(rest) \union {blocks[r]}
  BY <1>3, ElementsAfter
<1>5. InTransit(q, r) = Elements(chan[q][r]) /\ InTransit(q, r)' = Elements(chan'[q][r])
  BY DEF InTransit, Elements
<1> QED BY <1>1, <1>3, <1>4, <1>5

LEMMA LeaveTransit ==
  ASSUME ControlInv, NEW p \in Proc, Leave(p), CanLeave(p), NEW q \in Proc, NEW r \in Proc
  PROVE  InTransit(q, r)' \subseteq InTransit(q, r)
<1>1. chan'[q][r] = IF r = p THEN Tail(chan[q][r]) ELSE chan[q][r]
  BY LeaveChan DEF ControlInv
<1>2. PICK S : chan[q][r] \in Seq(S)
  BY TransitShape
<1>3. Elements(chan'[q][r]) \subseteq Elements(chan[q][r])
  <2>1. r = p => chan[q][r] # <<>>
    BY DEF CanLeave
  <2> QED BY <1>1, <1>2, <2>1, ElementsAfter
<1>4. InTransit(q, r) = Elements(chan[q][r]) /\ InTransit(q, r)' = Elements(chan'[q][r])
  BY DEF InTransit, Elements
<1> QED BY <1>3, <1>4

(* The block a process takes from q. *)
LEMMA NextBlock ==
  ASSUME ControlInv, NEW p \in Proc, pc[p] # "compute", CanLeave(p), NEW q \in Proc
  PROVE  Head(chan[q][p]) \in InTransit(q, p) /\ Head(chan[q][p]).kind = pc[p]
<1>1. chan[q][p] # <<>>
  BY DEF CanLeave
<1>2. Head(chan[q][p]).kind = pc[p]
  BY <1>1, MatchByControl DEF CollectivesMatch
<1>3. PICK S : chan[q][p] \in Seq(S)
  BY TransitShape
<1>4. Head(chan[q][p]) \in Elements(chan[q][p])
  BY <1>1, <1>3, ElementsAfter
<1> QED BY <1>2, <1>4 DEF Elements, InTransit

(* Leaving the exchange of sizes or of requests, a process has all others  *)
(* in its superstep.                                                       *)
LEMMA AllInStep ==
  ASSUME ControlInv, NEW p \in Proc, pc[p] \in {"info", "req"}, CanLeave(p), NEW q \in Proc
  PROVE  step[q] = step[p]
<1>1. Meeting(q, p) /\ ~None(q, p)
  BY DEF ControlInv, InStep, CanLeave, None
<1> QED BY <1>1 DEF Meeting, SameStep, Ahead, Behind

(* No deliveries are on their way to a process that computes. *)
LEMMA NoDeliveries ==
  ASSUME ControlInv', NEW p \in Proc, pc'[p] = "compute", NEW q \in Proc
  PROVE  \A b \in InTransit(q, p)' : b.kind # "deliv"
<1>1. Meeting(q, p)'
  BY DEF ControlInv, InStep
<1>2. None(q, p)' \/ One(q, p, "info")'
  BY <1>1 DEF Meeting, SameStep, Ahead, Behind
<1>3. CASE None(q, p)'
  BY <1>3 DEF None, InTransit
<1>4. CASE One(q, p, "info")'
  <2>1. PICK a : chan'[q][p] = <<a>> /\ a.kind = "info"
    BY <1>4 DEF One, IsBlock
  <2> QED BY <2>1 DEF InTransit
<1> QED BY <1>2, <1>3, <1>4

-----------------------------------------------------------------------------
(* Tables with one element more. *)

Write1 == [dst : Addr, val : Val]

WithPut(c, x) == [c EXCEPT !.put = Append(@, x)]
WithSend(c, x) == [c EXCEPT !.send = Append(@, x)]
WithPush(c, x) == [c EXCEPT !.push = Append(@, x)]
WithPop(c, x) == [c EXCEPT !.pop = Append(@, x)]
WithTagsize(c, x) == [c EXCEPT !.tag = Append(@, x)]

LEMMA OneMore ==
  ASSUME NEW c \in Deliveries
  PROVE  /\ \A x \in Write1 :
              LET d == WithPut(c, x)
              IN  /\ d \in Deliveries /\ d.send = c.send
                  /\ d.push = c.push /\ d.pop = c.pop /\ d.tag = c.tag
         /\ \A x \in Message :
              LET d == WithSend(c, x)
              IN  /\ d \in Deliveries /\ d.send = Append(c.send, x)
                  /\ d.push = c.push /\ d.pop = c.pop /\ d.tag = c.tag
         /\ \A x \in Addr :
              LET d == WithPush(c, x)
              IN  /\ d \in Deliveries /\ d.send = c.send
                  /\ d.push = Append(c.push, x) /\ d.pop = c.pop /\ d.tag = c.tag
         /\ \A x \in Addr :
              LET d == WithPop(c, x)
              IN  /\ d \in Deliveries /\ d.send = c.send
                  /\ d.push = c.push /\ d.pop = Append(c.pop, x) /\ d.tag = c.tag
         /\ \A x \in Nat :
              LET d == WithTagsize(c, x)
              IN  /\ d \in Deliveries /\ d.send = c.send
                  /\ d.push = c.push /\ d.pop = c.pop /\ d.tag = Append(c.tag, x)
<1> DEFINE W == Write1
           M == Message
<1>1. c \in [put : Seq(W), push : Seq(Addr), send : Seq(M), pop : Seq(Addr), tag : Seq(Nat)]
  BY DEF Deliveries, Write1
<1>2. Deliveries = [put : Seq(W), push : Seq(Addr), send : Seq(M), pop : Seq(Addr), tag : Seq(Nat)]
  BY DEF Deliveries, Write1
<1> HIDE DEF W, M
<1>3. /\ \A x \in W : Append(c.put, x) \in Seq(W)
      /\ \A x \in M : Append(c.send, x) \in Seq(M)
      /\ \A x \in Addr : Append(c.push, x) \in Seq(Addr) /\ Append(c.pop, x) \in Seq(Addr)
      /\ \A x \in Nat : Append(c.tag, x) \in Seq(Nat)
  BY <1>1
<1> QED BY <1>1, <1>2, <1>3 DEF W, M, WithPut, WithSend, WithPush, WithPop, WithTagsize

(* A table of tables with one entry changed. *)
Tables(S) == [Proc -> [Proc -> S]]
Changed(t, p, q, x) == [t EXCEPT ![p][q] = x]

LEMMA OneChanged ==
  ASSUME NEW S, NEW t \in Tables(S), NEW p \in Proc, NEW q \in Proc, NEW x \in S
  PROVE  /\ Changed(t, p, q, x) \in Tables(S)
         /\ \A r, s \in Proc : Changed(t, p, q, x)[r][s] = IF r = p /\ s = q THEN x ELSE t[r][s]
BY DEF Tables, Changed

-----------------------------------------------------------------------------
(* The data at the start. *)

LEMMA InitData == Init => DataInv
<1> SUFFICES ASSUME Init PROVE DataInv
  OBVIOUS
<1>1. program.coll \in Seq(Seq(Collective)) /\ program.most \in Nat
  BY ProgramsAssumption DEF Init
<1>2. 0 \in 0 .. Len(program.coll) /\ 0 \in 0 .. program.most
  BY <1>1
<1>3. /\ program \in Programs
      /\ step \in [Proc -> 0 .. Len(program.coll)] /\ done \in [Proc -> Nat]
      /\ calls \in 0 .. program.most
      /\ mem \in [Proc -> [Addr -> Val]]
      /\ aborted \in BOOLEAN
  BY <1>2, InitMemAssumption DEF Init
<1>4. reg \in [Proc -> Registers]
  <2>1. [q \in Proc |-> <<>>] \in Registers
    BY ZeroIsProcess DEF Registers
  <2> QED BY <2>1 DEF Init
<1>5. mq \in [Proc -> Queue]
  BY EmptyQueueTyped DEF Init
<1>6. reqTab \in [Proc -> [Proc -> Seq(Request)]]
  BY DEF Init, EmptyRequests
<1>7. EmptyColumn \in Deliveries
  BY DEF EmptyColumn, Deliveries
<1>8. delTab \in [Proc -> [Proc -> Deliveries]]
  BY <1>7 DEF Init, EmptyDeliveries
<1>9. \A p, q \in Proc : InTransit(p, q) = {}
  BY DEF Init, InTransit
<1>10. Types
  BY <1>3, <1>4, <1>5, <1>6, <1>8, <1>9 DEF Types
<1>11. ASSUME NEW p \in Proc PROVE KeepsUp(p)
  <2>1. /\ pc[p] = "compute" /\ step[p] = 0 /\ done[p] = 0
        /\ \A q \in Proc : /\ delTab[p][q].push = <<>>
                           /\ delTab[p][q].pop = <<>> /\ delTab[p][q].tag = <<>>
    BY DEF Init, EmptyDeliveries, EmptyColumn
  <2>2. ASSUME 0 < Len(program.coll)
        PROVE  /\ 0 \in 0 .. Len(Collectives(p))
               /\ \A op : Args(Collectives(p), op, p)[0] = <<>>
    <3>1. Collectives(p) \in Seq(Collective)
      BY <1>1, <2>1, <2>2 DEF Collectives
    <3> QED BY <3>1, ArgsFacts
  <2>3. \A op : Passed(p, op) = <<>>
    BY <2>1, <2>2 DEF Passed
  <2> QED BY <2>1, <2>2, <2>3 DEF KeepsUp
<1>12. \A p, q \in Proc : OnTheWay(p, q)
  BY <1>9 DEF OnTheWay
<1> QED BY <1>10, <1>11, <1>12 DEF DataInv

(* The calls that are not collective leave the notes of the collective     *)
(* ones in the tables alone.                                               *)
SameNotes ==
  \A p, q \in Proc : /\ delTab'[p][q].push = delTab[p][q].push
                     /\ delTab'[p][q].pop = delTab[p][q].pop
                     /\ delTab'[p][q].tag = delTab[p][q].tag

LEMMA CallKeepsData ==
  ASSUME DataInv, UNCHANGED <<pc, step, program, done, reg, chan, aborted>>,
         calls' \in 0 .. program.most, mem' \in [Proc -> [Addr -> Val]], mq' \in [Proc -> Queue],
         reqTab' \in Tables(Seq(Request)), delTab' \in Tables(Deliveries), SameNotes,
         \A p \in Proc : pc[p] # "compute" => mq'[p].n_mesg = mq[p].n_mesg
  PROVE  DataInv'
<1>1. \A p, q \in Proc : InTransit(p, q)' = InTransit(p, q)
  BY DEF InTransit
<1>2. Types'
  BY <1>1 DEF DataInv, Types, Tables
<1>3. ASSUME NEW p \in Proc PROVE KeepsUp(p)'
  <2>1. KeepsUp(p) /\ Collectives(p)' = Collectives(p)
    BY DEF DataInv, Collectives
  <2>2. \A op : Passed(p, op)' = Passed(p, op)
    BY <2>1 DEF Passed
  <2> QED BY <2>1, <2>2 DEF KeepsUp, SameNotes
<1>4. ASSUME NEW p \in Proc, NEW q \in Proc PROVE OnTheWay(p, q)'
  <2>1. OnTheWay(p, q) /\ Collectives(q)' = Collectives(q)
    BY DEF DataInv, Collectives
  <2>2. \A c : Delivers(p, q, c)' <=> Delivers(p, q, c)
    BY <2>1 DEF Delivers
  <2> QED BY <1>1, <2>1, <2>2 DEF OnTheWay
<1> QED BY <1>2, <1>3, <1>4 DEF DataInv

-----------------------------------------------------------------------------
(* The calls of a superstep. *)

(* What they find, and the count of those made. *)
LEMMA AtCall ==
  ASSUME DataInv, NEW p \in Proc
  PROVE  /\ reg[p] \in Registers /\ mq[p] \in Queue /\ mem[p] \in [Addr -> Val]
         /\ \A q \in Proc : delTab[p][q] \in Deliveries /\ reqTab[p][q] \in Seq(Request)
         /\ mem \in [Proc -> [Addr -> Val]] /\ mq \in [Proc -> Queue]
         /\ reqTab \in Tables(Seq(Request)) /\ delTab \in Tables(Deliveries)
         /\ reg \in [Proc -> Registers]
         /\ calls \in 0 .. program.most
         /\ \A c \in Call : MayCall(p, c) /\ program' = program => calls' \in 0 .. program.most
<1>1. program.most \in Nat
  BY ProgramsAssumption DEF DataInv, Types
<1> QED BY <1>1 DEF DataInv, Types, Tables, MayCall

LEMMA PutKeepsData ==
  ASSUME DataInv, NEW p \in Proc, NEW q \in Proc, NEW a \in Addr, NEW b \in Addr, Put(p, q, a, b)
  PROVE  DataInv' /\ \A r, s \in Proc : delTab'[r][s].send = delTab[r][s].send
<1> DEFINE x == [dst |-> Counterpart(reg[p], p, q, b), val |-> mem[p][a]]
           c == WithPut(delTab[p][q], x)
<1>1. x \in Write1
  <2>1. HasLiveRow(reg[p][p], {}, b)
    BY DEF Put, Registered
  <2>2. Counterpart(reg[p], p, q, b) \in Addr
    BY <2>1, AtCall, CounterpartTyped
  <2> QED BY <2>2, AtCall DEF Write1
<1>2. delTab' = Changed(delTab, p, q, c)
  BY DEF Put, Changed, WithPut
<1> HIDE DEF x
<1>3. c \in Deliveries /\ c.push = delTab[p][q].push /\ c.pop = delTab[p][q].pop
      /\ c.tag = delTab[p][q].tag /\ c.send = delTab[p][q].send
  BY <1>1, AtCall, OneMore
<1> HIDE DEF c
<1>4. delTab' \in Tables(Deliveries)
      /\ \A r, s \in Proc : delTab'[r][s] = IF r = p /\ s = q THEN c ELSE delTab[r][s]
  <2>1. delTab \in Tables(Deliveries)
    BY AtCall
  <2>2. /\ Changed(delTab, p, q, c) \in Tables(Deliveries)
        /\ \A r, s \in Proc : Changed(delTab, p, q, c)[r][s]
                             = IF r = p /\ s = q THEN c ELSE delTab[r][s]
    BY <1>3, <2>1, OneChanged
  <2> QED BY <1>2, <2>2
<1>5. SameNotes
  BY <1>3, <1>4 DEF SameNotes
<1>6. UNCHANGED <<pc, step, program, done, mem, reg, mq, reqTab, chan, aborted>>
  BY DEF Put
<1>7. calls' \in 0 .. program.most
  BY AtCall, <1>6 DEF Put, Call
<1>8. DataInv'
  BY <1>4, <1>5, <1>6, <1>7, AtCall, CallKeepsData
<1> QED BY <1>3, <1>4, <1>8

LEMMA GetKeepsData ==
  ASSUME DataInv, NEW p \in Proc, NEW q \in Proc, NEW a \in Addr, NEW b \in Addr, Get(p, q, a, b)
  PROVE  DataInv'
<1> DEFINE x == [src |-> Counterpart(reg[p], p, q, a), dst |-> b]
           c == Append(reqTab[p][q], x)
<1>1. x \in Request
  <2>1. HasLiveRow(reg[p][p], {}, a)
    BY DEF Get, Registered
  <2>2. Counterpart(reg[p], p, q, a) \in Addr
    BY <2>1, AtCall, CounterpartTyped
  <2> QED BY <2>2 DEF Request
<1>2. reqTab' = Changed(reqTab, p, q, c)
  BY DEF Get, Changed
<1> HIDE DEF x
<1>3. c \in Seq(Request)
  <2> DEFINE R == Request
             s == reqTab[p][q]
  <2>1. s \in Seq(R) /\ x \in R
    BY <1>1, AtCall
  <2> HIDE DEF R, s
  <2>2. Append(s, x) \in Seq(R)
    BY <2>1
  <2> QED BY <2>2 DEF R, s
<1> HIDE DEF c
<1>4. reqTab' \in Tables(Seq(Request))
  <2> DEFINE W == Seq(Request)
  <2>1. reqTab \in Tables(W) /\ c \in W
    BY <1>3, AtCall
  <2> HIDE DEF W
  <2>2. reqTab' \in Tables(W)
    BY <1>2, <2>1, OneChanged
  <2> QED BY <2>2 DEF W
<1>5. UNCHANGED <<pc, step, program, done, mem, reg, mq, delTab, chan, aborted>>
  BY DEF Get
<1>6. SameNotes
  BY <1>5 DEF SameNotes
<1>7. calls' \in 0 .. program.most
  BY AtCall, <1>5 DEF Get, Call
<1> QED BY <1>4, <1>5, <1>6, <1>7, AtCall, CallKeepsData

LEMMA SendKeepsData ==
  ASSUME DataInv, NEW p \in Proc, NEW q \in Proc, NEW m \in Payload, Send(p, q, m)
  PROVE  /\ DataInv'
         /\ \A r, s \in Proc : r # p \/ s # q => delTab'[r][s].send = delTab[r][s].send
         /\ \E x \in Message : /\ x.size = x.payload_size + mq[p].send_tag_size
                              /\ delTab'[p][q].send = Append(delTab[p][q].send, x)
<1> DEFINE x == [size |-> m + mq[p].send_tag_size, payload_size |-> m]
           c == WithSend(delTab[p][q], x)
<1>1. x \in Message
  <2>1. mq[p].send_tag_size \in Nat /\ m \in Nat
    BY AtCall, QueueTyped, PayloadAssumption
  <2> QED BY <2>1 DEF Message
<1>2. delTab' = Changed(delTab, p, q, c)
  BY DEF Send, Changed, WithSend
<1>9. x.size = x.payload_size + mq[p].send_tag_size
  OBVIOUS
<1> HIDE DEF x
<1>3. c \in Deliveries /\ c.push = delTab[p][q].push /\ c.pop = delTab[p][q].pop
      /\ c.tag = delTab[p][q].tag /\ c.send = Append(delTab[p][q].send, x)
  BY <1>1, AtCall, OneMore
<1> HIDE DEF c
<1>4. delTab' \in Tables(Deliveries)
      /\ \A r, s \in Proc : delTab'[r][s] = IF r = p /\ s = q THEN c ELSE delTab[r][s]
  <2>1. delTab \in Tables(Deliveries)
    BY AtCall
  <2>2. /\ Changed(delTab, p, q, c) \in Tables(Deliveries)
        /\ \A r, s \in Proc : Changed(delTab, p, q, c)[r][s]
                             = IF r = p /\ s = q THEN c ELSE delTab[r][s]
    BY <1>3, <2>1, OneChanged
  <2> QED BY <1>2, <2>2
<1>5. SameNotes
  BY <1>3, <1>4 DEF SameNotes
<1>6. UNCHANGED <<pc, step, program, done, mem, reg, mq, reqTab, chan, aborted>>
  BY DEF Send
<1>7. calls' \in 0 .. program.most
  BY AtCall, <1>6 DEF Send, Call
<1>8. DataInv'
  BY <1>4, <1>5, <1>6, <1>7, AtCall, CallKeepsData
<1> QED BY <1>1, <1>3, <1>4, <1>8, <1>9

LEMMA WriteKeepsData ==
  ASSUME DataInv, NEW p \in Proc, NEW a \in Addr, NEW v \in Val, Write(p, a, v)
  PROVE  DataInv'
<1>1. UNCHANGED <<pc, step, program, done, reg, mq, reqTab, delTab, chan, aborted>>
  BY DEF Write
<1>2. mem' \in [Proc -> [Addr -> Val]]
  BY AtCall DEF Write
<1>3. SameNotes
  BY <1>1 DEF SameNotes
<1>4. calls' \in 0 .. program.most
  BY AtCall, <1>1 DEF Write, Call
<1> QED BY <1>1, <1>2, <1>3, <1>4, AtCall, CallKeepsData

(* The calls that work on the queue. *)
LEMMA QueueCallKeepsData ==
  ASSUME DataInv, NEW p \in Proc, Move(p) \/ HpMove(p) \/ ResetBuffers(p)
  PROVE  /\ DataInv' /\ UNCHANGED <<pc, step, program, reg, delTab, chan>>
         /\ pc[p] = "compute" /\ \A r \in Proc \ {p} : mq'[r] = mq[r]
         /\ mq'[p].send_tag_size = mq[p].send_tag_size
         /\ \/ /\ mq'[p].recv_tag_size = mq[p].recv_tag_size
               /\ \A q \in Proc : Loses(mq[p].pending[q], mq'[p].pending[q])
            \/ \A q \in Proc : mq'[p].pending[q] = <<>>
<1>1. /\ pc[p] = "compute"
      /\ UNCHANGED <<pc, step, program, done, mem, reg, reqTab, delTab, chan, aborted>>
  BY DEF Move, HpMove, ResetBuffers, MayCall, Computing
<1>2. calls' \in 0 .. program.most
  BY AtCall, <1>1 DEF Move, HpMove, ResetBuffers, Call
<1>3. SameNotes
  BY <1>1 DEF SameNotes
<1>4. \E m \in Queue :
        /\ mq' = [mq EXCEPT ![p] = m]
        /\ m.send_tag_size = mq[p].send_tag_size
        /\ \/ /\ m.recv_tag_size = mq[p].recv_tag_size
              /\ \A q \in Proc : Loses(mq[p].pending[q], m.pending[q])
           \/ \A q \in Proc : m.pending[q] = <<>>
  <2> DEFINE m == mq[p]
             h == HeadMessage(m)
  <2>1. m \in Queue /\ m.n_mesg \in Nat
    BY AtCall, QueueTyped
  <2>2. CASE Move(p)
    <3>1. m.n_mesg > 0 /\ mq' = [mq EXCEPT ![p] = Dequeue(m, h.size)]
      BY <2>2 DEF Move, AfterMove
    <3>2. h.size \in Nat /\ h.size <= h.size
      <4> HIDE DEF m
      <4> QED BY <2>1, <3>1, MovesTyped
    <3> HIDE DEF h
    <3>3. /\ Dequeue(m, h.size) \in Queue
          /\ Dequeue(m, h.size).recv_tag_size = m.recv_tag_size
          /\ Dequeue(m, h.size).send_tag_size = m.send_tag_size
          /\ \A q \in Proc : Loses(m.pending[q], Dequeue(m, h.size).pending[q])
      <4> HIDE DEF m
      <4> QED BY <2>1, <3>1, <3>2, DequeueTyped DEF h
    <3> QED BY <3>1, <3>3
  <2>3. CASE HpMove(p)
    <3>1. m.n_mesg > 0 /\ mq' = [mq EXCEPT ![p] = Dequeue(m, h.payload_size)]
      BY <2>1, <2>3 DEF HpMove, AfterHpMove
    <3>2. h.payload_size \in Nat /\ h.payload_size <= h.size
      <4> HIDE DEF m
      <4> QED BY <2>1, <3>1, MovesTyped
    <3> HIDE DEF h
    <3>3. /\ Dequeue(m, h.payload_size) \in Queue
          /\ Dequeue(m, h.payload_size).recv_tag_size = m.recv_tag_size
          /\ Dequeue(m, h.payload_size).send_tag_size = m.send_tag_size
          /\ \A q \in Proc : Loses(m.pending[q], Dequeue(m, h.payload_size).pending[q])
      <4> HIDE DEF m
      <4> QED BY <2>1, <3>1, <3>2, DequeueTyped DEF h
    <3> QED BY <3>1, <3>3
  <2>4. CASE ResetBuffers(p)
    <3>1. mq' = [mq EXCEPT ![p] = QueueSync(m)]
      BY <2>4 DEF ResetBuffers
    <3>2. /\ QueueSync(m) \in Queue /\ QueueSync(m).send_tag_size = m.send_tag_size
          /\ \A q \in Proc : QueueSync(m).pending[q] = <<>>
      BY <2>1, SyncTyped
    <3> QED BY <3>1, <3>2
  <2> QED BY <2>2, <2>3, <2>4
<1>5. /\ mq' \in [Proc -> Queue] /\ \A r \in Proc \ {p} : mq'[r] = mq[r]
      /\ mq'[p].send_tag_size = mq[p].send_tag_size
      /\ \/ /\ mq'[p].recv_tag_size = mq[p].recv_tag_size
            /\ \A q \in Proc : Loses(mq[p].pending[q], mq'[p].pending[q])
         \/ \A q \in Proc : mq'[p].pending[q] = <<>>
  BY <1>4, AtCall
<1>6. \A r \in Proc : pc[r] # "compute" => mq'[r].n_mesg = mq[r].n_mesg
  BY <1>1, <1>5
<1>7. DataInv'
  <2>1. mq' \in [Proc -> Queue]
    BY <1>5
  <2>2. /\ mem' \in [Proc -> [Addr -> Val]]
        /\ reqTab' \in Tables(Seq(Request)) /\ delTab' \in Tables(Deliveries)
    BY <1>1, AtCall
  <2> QED BY <1>1, <1>2, <1>3, <1>6, <2>1, <2>2, CallKeepsData
<1> QED BY <1>1, <1>5, <1>7

-----------------------------------------------------------------------------
(* The collective calls. *)

LEMMA PassedNext ==
  ASSUME DataInv, NEW p \in Proc, NEW op \in {"push", "pop", "tag"}, MustCall(p, op),
         UNCHANGED <<step, program>>
  PROVE  /\ NextCollective(p).at[p] \in Arg(op)
         /\ done' = [done EXCEPT ![p] = done[p] + 1] /\ done[p] \in Nat
         /\ done[p] < Len(Collectives(p)) /\ pc[p] = "compute" /\ step[p] < Len(program.coll)
         /\ Passed(p, op)' = Append(Passed(p, op), NextCollective(p).at[p])
         /\ \A o \in {"push", "pop", "tag"} \ {op} : Passed(p, o)' = Passed(p, o)
         /\ \A r \in Proc \ {p}, o \in {"push", "pop", "tag"} : Passed(r, o)' = Passed(r, o)
<1> DEFINE list == Collectives(p)
           k == done[p] + 1
<1>1. /\ step[p] < Len(program.coll) /\ pc[p] = "compute"
      /\ done' = [done EXCEPT ![p] = done[p] + 1] /\ list[k].op = op
      /\ done[p] < Len(list)
  BY DEF MustCall, Computing, NextCollective
<1>2. /\ program \in Programs /\ step[p] \in 0 .. Len(program.coll)
      /\ done \in [Proc -> Nat]
  BY DEF DataInv, Types
<1>3. list \in Seq(Collective) /\ Len(list) \in Nat
  <2>1. step[p] < Len(program.coll) /\ step[p] \in 0 .. Len(program.coll)
        /\ Len(program.coll) \in Nat
    BY <1>1, <1>2, Typed
  <2>2. step[p] + 1 \in 1 .. Len(program.coll)
    BY <2>1
  <2> QED BY <1>2, <2>2, Typed DEF Collectives
<1>4. k \in 1 .. Len(list) /\ k - 1 = done[p]
  BY <1>1, <1>2, <1>3
<1>5. NextCollective(p) = list[k] /\ list[k].at[p] \in Arg(op)
  BY <1>1, <1>3, <1>4, CallTyped DEF NextCollective
<1>6. Collectives(p)' = list /\ done'[p] = k
  BY <1>1, <1>2 DEF Collectives
<1>7. ASSUME NEW o
      PROVE  /\ Args(list, o, p)[k] = IF list[k].op = o
                                     THEN Append(Args(list, o, p)[k-1], list[k].at[p])
                                     ELSE Args(list, o, p)[k-1]
             /\ Passed(p, o) = Args(list, o, p)[k-1] /\ Passed(p, o)' = Args(list, o, p)[k]
  <2>1. /\ Args(list, o, p)[k] = IF list[k].op = o
                                     THEN Append(Args(list, o, p)[k-1], list[k].at[p])
                                     ELSE Args(list, o, p)[k-1]
    <3> HIDE DEF list, k
    <3> QED BY <1>3, <1>4, ArgsFacts
  <2>2. Passed(p, o) = Args(list, o, p)[k-1]
    BY <1>1, <1>4 DEF Passed
  <2>3. Passed(p, o)' = Args(list, o, p)[k]
    BY <1>1, <1>6 DEF Passed
  <2> QED BY <2>1, <2>2, <2>3
<1>8. \A r \in Proc \ {p}, o \in {"push", "pop", "tag"} : Passed(r, o)' = Passed(r, o)
  BY <1>1, <1>2 DEF Passed, Collectives
<1> HIDE DEF k, list
<1>9. Passed(p, op)' = Append(Passed(p, op), NextCollective(p).at[p])
  BY <1>1, <1>5, <1>7
<1>10. \A o \in {"push", "pop", "tag"} \ {op} : Passed(p, o)' = Passed(p, o)
  BY <1>1, <1>7
<1> QED BY <1>1, <1>2, <1>5, <1>8, <1>9, <1>10 DEF list

(* What every table then notes: the calls made up to and including this one. *)
Notes(p) ==
  /\ \A q \in Proc : delTab[p][q].push = Passed(p, "push")
  /\ delTab[p][p].pop = Passed(p, "pop") /\ delTab[p][p].tag = Passed(p, "tag")

LEMMA CollectiveKeepsData ==
  ASSUME DataInv, NEW p \in Proc, NEW op \in {"push", "pop", "tag"}, MustCall(p, op),
         UNCHANGED <<pc, step, program, calls, mem, reg, mq, reqTab, chan, aborted>>,
         delTab' \in Tables(Deliveries), \A r \in Proc \ {p} : delTab'[r] = delTab[r],
         Notes(p)'
  PROVE  DataInv'
<1>1. /\ done' = [done EXCEPT ![p] = done[p] + 1] /\ done[p] \in Nat
      /\ done[p] < Len(Collectives(p)) /\ pc[p] = "compute"
      /\ \A r \in Proc \ {p}, o \in {"push", "pop", "tag"} : Passed(r, o)' = Passed(r, o)
  BY PassedNext
<1>2. done \in [Proc -> Nat]
  BY DEF DataInv, Types
<1>3. \A q, r \in Proc : InTransit(q, r)' = InTransit(q, r)
  BY DEF InTransit
<1>4. Types'
  <2>1. done' \in [Proc -> Nat]
    BY <1>1, <1>2
  <2> QED BY <1>3, <2>1 DEF DataInv, Types, Tables
<1>5. \A r \in Proc : Collectives(r)' = Collectives(r)
  BY DEF Collectives
<1>6. KeepsUp(p)'
  <2>1. /\ done'[p] = done[p] + 1
    BY <1>1, <1>2
  <2>2. Len(Collectives(p)) \in Nat
    <3>1. step[p] \in 0 .. Len(program.coll) /\ step[p] < Len(program.coll) /\ program \in Programs
      BY DEF DataInv, Types, MustCall, Computing
    <3>2. step[p] + 1 \in 1 .. Len(program.coll)
      BY <3>1
    <3> QED BY <3>1, <3>2, Typed DEF Collectives
  <2>3. done'[p] \in 0 .. Len(Collectives(p))
    BY <1>1, <2>1, <2>2
  <2> QED BY <1>1, <1>5, <2>3 DEF KeepsUp, Notes
<1>7. ASSUME NEW r \in Proc \ {p} PROVE KeepsUp(r)'
  <2>1. KeepsUp(r) /\ delTab'[r] = delTab[r] /\ done'[r] = done[r]
    BY <1>1, <1>2 DEF DataInv
  <2> QED BY <1>1, <1>5, <2>1 DEF KeepsUp
<1>8. ASSUME NEW q \in Proc, NEW r \in Proc PROVE OnTheWay(q, r)'
  <2>1. OnTheWay(q, r)
    BY DEF DataInv
  <2>2. \A c : Delivers(q, r, c)' <=> Delivers(q, r, c)
    BY <1>5 DEF Delivers
  <2> QED BY <1>3, <2>1, <2>2 DEF OnTheWay
<1> QED BY <1>4, <1>6, <1>7, <1>8 DEF DataInv

LEMMA PushRegKeepsData ==
  ASSUME DataInv, NEW p \in Proc, PushReg(p)
  PROVE  DataInv' /\ \A r, q \in Proc : delTab'[r][q].send = delTab[r][q].send
<1> DEFINE a == NextCollective(p).at[p]
           row == [q \in Proc |-> WithPush(delTab[p][q], a)]
<1>1. /\ MustCall(p, "push")
      /\ UNCHANGED <<pc, step, program, calls, mem, reg, mq, reqTab, chan, aborted>>
  BY DEF PushReg
<1>2. delTab' = [delTab EXCEPT ![p] = row]
  BY DEF PushReg, WithPush
<1>3. /\ a \in Addr
      /\ Passed(p, "push")' = Append(Passed(p, "push"), a)
      /\ Passed(p, "pop")' = Passed(p, "pop") /\ Passed(p, "tag")' = Passed(p, "tag")
  BY <1>1, PassedNext DEF Arg
<1> HIDE DEF a
<1>4. ASSUME NEW q \in Proc
      PROVE  /\ row[q] \in Deliveries /\ row[q].push = Append(delTab[p][q].push, a)
             /\ row[q].pop = delTab[p][q].pop /\ row[q].tag = delTab[p][q].tag
             /\ row[q].send = delTab[p][q].send
  BY <1>3, AtCall, OneMore
<1>5. delTab \in Tables(Deliveries)
  BY AtCall
<1>6. row \in [Proc -> Deliveries]
  BY <1>4
<1> HIDE DEF row
<1>7. /\ delTab' \in Tables(Deliveries) /\ delTab'[p] = row
      /\ \A r \in Proc \ {p} : delTab'[r] = delTab[r]
  BY <1>2, <1>5, <1>6 DEF Tables
<1>8. Notes(p)'
  <2>1. Notes(p)
    BY DEF DataInv, KeepsUp, Notes
  <2> QED BY <1>3, <1>4, <1>7, <2>1 DEF Notes
<1>9. DataInv'
  BY <1>1, <1>7, <1>8, CollectiveKeepsData
<1> QED BY <1>4, <1>7, <1>9

LEMMA PopRegKeepsData ==
  ASSUME DataInv, NEW p \in Proc, PopReg(p)
  PROVE  DataInv' /\ \A r, q \in Proc : delTab'[r][q].send = delTab[r][q].send
<1> DEFINE a == NextCollective(p).at[p]
           c == WithPop(delTab[p][p], a)
<1>1. /\ MustCall(p, "pop")
      /\ UNCHANGED <<pc, step, program, calls, mem, reg, mq, reqTab, chan, aborted>>
  BY DEF PopReg
<1>2. delTab' = Changed(delTab, p, p, c)
  BY DEF PopReg, WithPop, Changed
<1>3. /\ a \in Addr
      /\ Passed(p, "pop")' = Append(Passed(p, "pop"), a)
      /\ Passed(p, "push")' = Passed(p, "push") /\ Passed(p, "tag")' = Passed(p, "tag")
  BY <1>1, PassedNext DEF Arg
<1> HIDE DEF a
<1>4. /\ c \in Deliveries /\ c.push = delTab[p][p].push
      /\ c.pop = Append(delTab[p][p].pop, a) /\ c.tag = delTab[p][p].tag
      /\ c.send = delTab[p][p].send
  BY <1>3, AtCall, OneMore
<1>5. delTab \in Tables(Deliveries)
  BY AtCall
<1> HIDE DEF c
<1>6. /\ delTab' \in Tables(Deliveries)
      /\ \A r, s \in Proc : delTab'[r][s] = IF r = p /\ s = p THEN c ELSE delTab[r][s]
  <2>1. /\ Changed(delTab, p, p, c) \in Tables(Deliveries)
        /\ \A r, s \in Proc : Changed(delTab, p, p, c)[r][s]
                             = IF r = p /\ s = p THEN c ELSE delTab[r][s]
    BY <1>4, <1>5, OneChanged
  <2> QED BY <1>2, <2>1
<1>7. \A r \in Proc \ {p} : delTab'[r] = delTab[r]
  BY <1>2 DEF Changed
<1>8. Notes(p)'
  <2>1. Notes(p)
    BY DEF DataInv, KeepsUp, Notes
  <2> QED BY <1>3, <1>4, <1>6, <2>1 DEF Notes
<1>9. DataInv'
  BY <1>1, <1>6, <1>7, <1>8, CollectiveKeepsData
<1> QED BY <1>4, <1>6, <1>9

LEMMA SetTagsizeKeepsData ==
  ASSUME DataInv, NEW p \in Proc, SetTagsize(p)
  PROVE  DataInv' /\ \A r, q \in Proc : delTab'[r][q].send = delTab[r][q].send
<1> DEFINE a == NextCollective(p).at[p]
           c == WithTagsize(delTab[p][p], a)
<1>1. /\ MustCall(p, "tag")
      /\ UNCHANGED <<pc, step, program, calls, mem, reg, mq, reqTab, chan, aborted>>
  BY DEF SetTagsize
<1>2. delTab' = Changed(delTab, p, p, c)
  BY DEF SetTagsize, WithTagsize, Changed
<1>3. /\ a \in Nat
      /\ Passed(p, "tag")' = Append(Passed(p, "tag"), a)
      /\ Passed(p, "push")' = Passed(p, "push") /\ Passed(p, "pop")' = Passed(p, "pop")
  BY <1>1, PassedNext DEF Arg
<1> HIDE DEF a
<1>4. /\ c \in Deliveries /\ c.push = delTab[p][p].push
      /\ c.tag = Append(delTab[p][p].tag, a) /\ c.pop = delTab[p][p].pop
      /\ c.send = delTab[p][p].send
  BY <1>3, AtCall, OneMore
<1>5. delTab \in Tables(Deliveries)
  BY AtCall
<1> HIDE DEF c
<1>6. /\ delTab' \in Tables(Deliveries)
      /\ \A r, s \in Proc : delTab'[r][s] = IF r = p /\ s = p THEN c ELSE delTab[r][s]
  <2>1. /\ Changed(delTab, p, p, c) \in Tables(Deliveries)
        /\ \A r, s \in Proc : Changed(delTab, p, p, c)[r][s]
                             = IF r = p /\ s = p THEN c ELSE delTab[r][s]
    BY <1>4, <1>5, OneChanged
  <2> QED BY <1>2, <2>1
<1>7. \A r \in Proc \ {p} : delTab'[r] = delTab[r]
  BY <1>2 DEF Changed
<1>8. Notes(p)'
  <2>1. Notes(p)
    BY DEF DataInv, KeepsUp, Notes
  <2> QED BY <1>3, <1>4, <1>6, <2>1 DEF Notes
<1>9. DataInv'
  BY <1>1, <1>6, <1>7, <1>8, CollectiveKeepsData
<1> QED BY <1>4, <1>6, <1>9

-----------------------------------------------------------------------------
(* bspx_sync. *)

(* A process in bspx_sync, or about to enter it, has made all calls of its *)
(* superstep: its tables are what the others have to receive.              *)
LEMMA NotesAreAll ==
  ASSUME DataInv, NEW p \in Proc, step[p] < Len(program.coll), done[p] = Len(Collectives(p)),
         NEW q \in Proc, step[q] = step[p], NEW c,
         c.push = delTab[p][q].push, c.pop = delTab[p][q].pop, c.tag = delTab[p][q].tag
  PROVE  Delivers(p, q, c)
<1>1. KeepsUp(p)
  BY DEF DataInv
<1>2. Collectives(q) = Collectives(p)
  BY DEF Collectives
<1>3. \A op : Passed(p, op) = AllArgs(Collectives(p), op, p)
  BY DEF Passed, AllArgs
<1>4. /\ delTab[p][q].push = Passed(p, "push")
      /\ p = q => delTab[p][q].pop = Passed(p, "pop") /\ delTab[p][q].tag = Passed(p, "tag")
  BY <1>1 DEF KeepsUp
<1> QED BY <1>2, <1>3, <1>4 DEF Delivers

(* What keeps the blocks on their way right. *)
LEMMA BlocksKeepData ==
  ASSUME Types, \A q, r \in Proc : OnTheWay(q, r),
         NEW p \in Proc, NEW blocks, UNCHANGED <<step, program>>,
         \A q, r \in Proc :
           InTransit(q, r)' \subseteq InTransit(q, r) \union {b \in {blocks[r]} : q = p},
         \A r \in Proc : /\ blocks[r].body \in BlockBody(blocks[r].kind)
                         /\ blocks[r].kind = "deliv" => Delivers(p, r, blocks[r].body)
  PROVE  /\ \A q, r \in Proc : \A b \in InTransit(q, r)' : b.body \in BlockBody(b.kind)
         /\ \A q, r \in Proc : OnTheWay(q, r)'
<1>1. \A q, r \in Proc : \A c : Delivers(q, r, c)' <=> Delivers(q, r, c)
  BY DEF Delivers, Collectives
<1>2. ASSUME NEW q \in Proc, NEW r \in Proc, NEW b \in InTransit(q, r)'
      PROVE  /\ b.body \in BlockBody(b.kind)
             /\ b.kind = "deliv" => Delivers(q, r, b.body)'
  <2>1. b \in InTransit(q, r) \/ (q = p /\ b = blocks[r])
    BY <1>2
  <2>2. CASE b \in InTransit(q, r)
    <3>1. OnTheWay(q, r) /\ b.body \in BlockBody(b.kind)
      BY <2>2 DEF Types
    <3> QED BY <1>1, <2>2, <3>1 DEF OnTheWay
  <2>3. CASE q = p /\ b = blocks[r]
    BY <1>1, <2>3
  <2> QED BY <2>1, <2>2, <2>3
<1>3. ASSUME NEW q \in Proc, NEW r \in Proc PROVE OnTheWay(q, r)'
  BY <1>2 DEF OnTheWay
<1> QED BY <1>2, <1>3

(* The tables, which stay as they are. *)
LEMMA KeepsUpStays ==
  ASSUME NEW r \in Proc, KeepsUp(r), UNCHANGED <<program>>, step'[r] = step[r],
         done'[r] = done[r], pc'[r] = pc[r], mq'[r].n_mesg = mq[r].n_mesg,
         \A q \in Proc : /\ delTab'[r][q].push = delTab[r][q].push
                         /\ delTab'[r][q].pop = delTab[r][q].pop
                         /\ delTab'[r][q].tag = delTab[r][q].tag
  PROVE  KeepsUp(r)'
<1>1. Collectives(r)' = Collectives(r)
  BY DEF Collectives
<1>2. \A op : Passed(r, op)' = Passed(r, op)
  BY <1>1 DEF Passed
<1> QED BY <1>1, <1>2 DEF KeepsUp

LEMMA EnterSyncKeepsData ==
  ASSUME ControlInv, DataInv, NEW p \in Proc, EnterSync(p)
  PROVE  DataInv'
<1>1. /\ pc[p] = "compute" /\ step[p] < Len(program.coll) /\ done[p] = Len(Collectives(p))
      /\ mq' = [mq EXCEPT ![p] = QueueSync(mq[p])]
      /\ anyGets' = [anyGets EXCEPT ![p] = IssuedGets(p)]
      /\ pc' = [pc EXCEPT ![p] = "info"]
      /\ UNCHANGED <<step, program, done, calls, mem, reg, reqTab, delTab, aborted>>
  BY DEF EnterSync, Computing
<1>2. PICK blocks : /\ Enter(p, blocks)
                    /\ \A q \in Proc : blocks[q] = Block("info", anyGets'[p])
  BY DEF EnterSync
<1>3. /\ pc \in [Proc -> Kinds \union {"compute"}] /\ anyGets \in [Proc -> BOOLEAN]
      /\ mq \in [Proc -> Queue]
  BY DEF ControlInv, ControlTypeOK, DataInv, Types
<1>4. anyGets'[p] \in BOOLEAN
  BY <1>1, <1>3 DEF IssuedGets
<1>5. \A q \in Proc : blocks[q].body \in BlockBody(blocks[q].kind) /\ blocks[q].kind = "info"
  BY <1>2, <1>4 DEF Block, BlockBody
<1>6. \A q, r \in Proc :
        InTransit(q, r)' \subseteq InTransit(q, r) \union {b \in {blocks[r]} : q = p}
  BY <1>2, EnterTransit
<1>7. /\ \A q, r \in Proc : \A b \in InTransit(q, r)' : b.body \in BlockBody(b.kind)
      /\ \A q, r \in Proc : OnTheWay(q, r)'
  BY <1>1, <1>5, <1>6, BlocksKeepData DEF DataInv
<1>8. /\ mq' \in [Proc -> Queue] /\ mq'[p].n_mesg = 0
      /\ \A r \in Proc \ {p} : mq'[r] = mq[r]
  <2>1. QueueSync(mq[p]) \in Queue /\ QueueSync(mq[p]).n_mesg = 0
    BY <1>3, SyncTyped
  <2> QED BY <1>1, <1>3, <2>1
<1>9. Types'
  BY <1>1, <1>7, <1>8 DEF DataInv, Types
<1>10. ASSUME NEW r \in Proc PROVE KeepsUp(r)'
  <2>1. KeepsUp(r)
    BY DEF DataInv
  <2>2. CASE r = p
    <3>1. Collectives(p)' = Collectives(p)
      BY <1>1 DEF Collectives
    <3>2. \A op : Passed(p, op)' = Passed(p, op)
      BY <1>1, <3>1 DEF Passed
    <3> QED BY <2>1, <2>2, <1>1, <1>8, <3>1, <3>2 DEF KeepsUp
  <2>3. CASE r # p
    <3>1. pc'[r] = pc[r] /\ mq'[r].n_mesg = mq[r].n_mesg
      BY <2>3, <1>1, <1>3, <1>8
    <3> QED BY <2>1, <3>1, <1>1, KeepsUpStays
  <2> QED BY <2>2, <2>3
<1> QED BY <1>7, <1>9, <1>10 DEF DataInv

LEMMA LeaveInfoKeepsData ==
  ASSUME ControlInv, DataInv, NEW p \in Proc, LeaveInfo(p)
  PROVE  DataInv'
<1>1. /\ pc[p] = "info" /\ CanLeave(p)
      /\ UNCHANGED <<step, program, done, calls, mem, reg, mq, reqTab, delTab, aborted>>
  BY DEF LeaveInfo
<1>2. PICK next, blocks :
        /\ next \in {"req", "deliv"} /\ pc' = [pc EXCEPT ![p] = next]
        /\ LeaveAndEnter(p, blocks)
        /\ \/ \A q \in Proc : blocks[q] = Block("req", reqTab[p][q])
           \/ \A q \in Proc : blocks[q] = Block("deliv", delTab[p][q])
  BY DEF LeaveInfo
<1>3. pc \in [Proc -> Kinds \union {"compute"}]
  BY DEF ControlInv, ControlTypeOK
<1>4. KeepsUp(p) /\ \A q \in Proc : step[q] = step[p]
  BY <1>1, AllInStep DEF DataInv
<1>5. ASSUME NEW q \in Proc
      PROVE  /\ blocks[q].body \in BlockBody(blocks[q].kind)
             /\ blocks[q].kind = "deliv" => Delivers(p, q, blocks[q].body)
  <2>1. CASE blocks[q] = Block("req", reqTab[p][q])
    BY <2>1, AtCall DEF Block, BlockBody
  <2>2. CASE blocks[q] = Block("deliv", delTab[p][q])
    <3>1. blocks[q].body = delTab[p][q] /\ blocks[q].kind = "deliv"
      BY <2>2 DEF Block
    <3>2. delTab[p][q] \in Deliveries
      BY AtCall
    <3>3. Delivers(p, q, delTab[p][q])
      BY <1>1, <1>4, NotesAreAll DEF KeepsUp
    <3> QED BY <3>1, <3>2, <3>3 DEF BlockBody
  <2> QED BY <1>2, <2>1, <2>2
<1>6. \A q, r \in Proc :
        InTransit(q, r)' \subseteq InTransit(q, r) \union {b \in {blocks[r]} : q = p}
  BY <1>1, <1>2, LeaveAndEnterTransit
<1>7. /\ \A q, r \in Proc : \A b \in InTransit(q, r)' : b.body \in BlockBody(b.kind)
      /\ \A q, r \in Proc : OnTheWay(q, r)'
  BY <1>1, <1>5, <1>6, BlocksKeepData DEF DataInv
<1>8. Types'
  BY <1>1, <1>7 DEF DataInv, Types
<1>9. ASSUME NEW r \in Proc PROVE KeepsUp(r)'
  <2>1. KeepsUp(r)
    BY DEF DataInv
  <2>2. CASE r = p
    <3>1. Collectives(p)' = Collectives(p)
      BY <1>1 DEF Collectives
    <3>2. \A op : Passed(p, op)' = Passed(p, op)
      BY <1>1, <3>1 DEF Passed
    <3> QED BY <2>1, <2>2, <1>1, <3>1, <3>2 DEF KeepsUp
  <2>3. CASE r # p
    <3>1. pc'[r] = pc[r]
      BY <2>3, <1>2, <1>3
    <3> QED BY <2>1, <3>1, <1>1, KeepsUpStays
  <2> QED BY <2>2, <2>3
<1> QED BY <1>7, <1>8, <1>9 DEF DataInv

(* A delivery column after the answers of requests. *)
LEMMA AnswersTyped ==
  ASSUME ControlInv, DataInv, NEW p \in Proc, pc[p] = "req", CanLeave(p), NEW q \in Proc
  PROVE  /\ Answered(p)[q] \in Deliveries
         /\ Answered(p)[q].push = delTab[p][q].push /\ Answered(p)[q].pop = delTab[p][q].pop
         /\ Answered(p)[q].tag = delTab[p][q].tag /\ Answered(p)[q].send = delTab[p][q].send
<1> DEFINE requests == Received(p, q)
           answers == [i \in DOMAIN requests |-> Reply(p, requests[i])]
           c == delTab[p][q]
           W == Write1
           R == Request
<1>1. requests \in Seq(R)
  <2>1. /\ Head(chan[q][p]) \in InTransit(q, p) /\ Head(chan[q][p]).kind = "req"
    BY NextBlock
  <2>2. Head(chan[q][p]).body \in BlockBody("req")
    BY <2>1 DEF DataInv, Types
  <2> QED BY <2>2 DEF BlockBody, Received
<1>2. \A r \in R : Reply(p, r) \in W
  <2>1. mem[p] \in [Addr -> Val]
    BY AtCall
  <2> QED BY <2>1 DEF Reply, Write1, Request
<1>3. answers \in Seq(W)
  <2> HIDE DEF requests, W, R
  <2> QED BY <1>1, <1>2
<1>4. c \in Deliveries
  BY AtCall
<1>5. c \in [put : Seq(W), push : Seq(Addr), send : Seq(Message), pop : Seq(Addr), tag : Seq(Nat)]
      /\ Deliveries = [put : Seq(W), push : Seq(Addr), send : Seq(Message), pop : Seq(Addr),
                       tag : Seq(Nat)]
  BY <1>4 DEF Deliveries, Write1
<1> DEFINE puts == c.put \o answers
<1>6. puts \in Seq(W)
  <2> HIDE DEF c, answers, W
  <2> QED BY <1>3, <1>5
<1>7. Answered(p)[q] = [c EXCEPT !.put = puts]
  BY DEF Answered
<1> HIDE DEF c, puts, W
<1>8. /\ [c EXCEPT !.put = puts] \in Deliveries
      /\ [c EXCEPT !.put = puts].push = c.push /\ [c EXCEPT !.put = puts].pop = c.pop
      /\ [c EXCEPT !.put = puts].tag = c.tag /\ [c EXCEPT !.put = puts].send = c.send
  BY <1>5, <1>6
<1> QED BY <1>7, <1>8 DEF c

LEMMA LeaveReqKeepsData ==
  ASSUME ControlInv, DataInv, NEW p \in Proc, LeaveReq(p)
  PROVE  DataInv'
<1>1. /\ pc[p] = "req" /\ CanLeave(p)
      /\ delTab' = [delTab EXCEPT ![p] = Answered(p)]
      /\ pc' = [pc EXCEPT ![p] = "deliv"]
      /\ UNCHANGED <<step, program, done, calls, mem, reg, mq, reqTab, aborted>>
  BY DEF LeaveReq
<1>2. PICK blocks : /\ LeaveAndEnter(p, blocks)
                    /\ \A q \in Proc : blocks[q] = Block("deliv", delTab'[p][q])
  BY DEF LeaveReq
<1>3. pc \in [Proc -> Kinds \union {"compute"}]
  BY DEF ControlInv, ControlTypeOK
<1>4. KeepsUp(p) /\ \A q \in Proc : step[q] = step[p]
  BY <1>1, AllInStep DEF DataInv
<1>5. /\ delTab' \in Tables(Deliveries) /\ delTab'[p] = Answered(p)
      /\ \A r \in Proc \ {p} : delTab'[r] = delTab[r]
  <2>1. delTab \in Tables(Deliveries)
    BY AtCall
  <2>2. \A q \in Proc : Answered(p)[q] \in Deliveries
    BY <1>1, AnswersTyped
  <2>3. Answered(p) \in [Proc -> Deliveries]
    <3>1. Answered(p) = [q \in Proc |-> Answered(p)[q]]
      BY DEF Answered
    <3> QED BY <2>2, <3>1
  <2> QED BY <1>1, <2>1, <2>3 DEF Tables
<1>6. ASSUME NEW q \in Proc
      PROVE  /\ delTab'[p][q] \in Deliveries
             /\ delTab'[p][q].push = delTab[p][q].push /\ delTab'[p][q].pop = delTab[p][q].pop
             /\ delTab'[p][q].tag = delTab[p][q].tag
  BY <1>1, <1>5, AnswersTyped
<1>7. ASSUME NEW q \in Proc
      PROVE  /\ blocks[q].body \in BlockBody(blocks[q].kind)
             /\ blocks[q].kind = "deliv" => Delivers(p, q, blocks[q].body)
  <2>1. blocks[q].body = delTab'[p][q] /\ blocks[q].kind = "deliv"
    <3>1. blocks[q] = Block("deliv", delTab'[p][q])
      BY <1>2
    <3> QED BY <3>1 DEF Block
  <2>2. Delivers(p, q, delTab'[p][q])
    BY <1>1, <1>4, <1>6, NotesAreAll DEF KeepsUp
  <2> QED BY <1>6, <2>1, <2>2 DEF BlockBody
<1>8. \A q, r \in Proc :
        InTransit(q, r)' \subseteq InTransit(q, r) \union {b \in {blocks[r]} : q = p}
  BY <1>1, <1>2, LeaveAndEnterTransit
<1>9. /\ \A q, r \in Proc : \A b \in InTransit(q, r)' : b.body \in BlockBody(b.kind)
      /\ \A q, r \in Proc : OnTheWay(q, r)'
  BY <1>1, <1>7, <1>8, BlocksKeepData DEF DataInv
<1>10. Types'
  BY <1>1, <1>5, <1>9 DEF DataInv, Types, Tables
<1>11. ASSUME NEW r \in Proc PROVE KeepsUp(r)'
  <2>1. KeepsUp(r)
    BY DEF DataInv
  <2>2. CASE r = p
    <3>1. Collectives(p)' = Collectives(p)
      BY <1>1 DEF Collectives
    <3>2. \A op : Passed(p, op)' = Passed(p, op)
      BY <1>1, <3>1 DEF Passed
    <3> QED BY <2>1, <2>2, <1>1, <1>6, <3>1, <3>2 DEF KeepsUp
  <2>3. CASE r # p
    <3>1. pc'[r] = pc[r] /\ delTab'[r] = delTab[r]
      BY <2>3, <1>1, <1>3, <1>5
    <3> QED BY <2>1, <3>1, <1>1, KeepsUpStays
  <2> QED BY <2>2, <2>3
<1> QED BY <1>9, <1>10, <1>11 DEF DataInv

(* The deliveries a process takes, and the register it makes of them. *)
Columns(p) == [q \in Proc |-> Received(p, q)]
PushedRows(p) == PushRows(reg[p], [q \in Proc |-> Columns(p)[q].push])

LEMMA DeliveriesTaken ==
  ASSUME ControlInv, DataInv, NEW p \in Proc, pc[p] = "deliv", CanLeave(p)
  PROVE  /\ Columns(p) \in [Proc -> Deliveries]
         /\ \A q \in Proc : Columns(p)[q].push = AllArgs(Collectives(p), "push", q)
         /\ Columns(p)[p].pop = AllArgs(Collectives(p), "pop", p)
         /\ Columns(p)[p].tag = AllArgs(Collectives(p), "tag", p)
         /\ \A q \in Proc : /\ Head(chan[q][p]) \in InTransit(q, p)
                            /\ Head(chan[q][p]).kind = "deliv"
                            /\ Columns(p)[q] = Head(chan[q][p]).body
         /\ step[p] < Len(program.coll) /\ Collectives(p) \in Seq(Collective)
         /\ mq[p].n_mesg = 0 /\ PushedRows(p) = Pushed(reg[p], Collectives(p))
         /\ PushedRows(p) \in Registers
<1>1. ASSUME NEW q \in Proc
      PROVE  /\ Head(chan[q][p]) \in InTransit(q, p) /\ Head(chan[q][p]).kind = "deliv"
             /\ Columns(p)[q] = Head(chan[q][p]).body
             /\ Columns(p)[q] \in Deliveries /\ Delivers(q, p, Columns(p)[q])
  <2>1. Head(chan[q][p]) \in InTransit(q, p) /\ Head(chan[q][p]).kind = "deliv"
    BY NextBlock
  <2>2. Columns(p)[q] = Head(chan[q][p]).body
    BY DEF Columns, Received
  <2>3. Head(chan[q][p]).body \in BlockBody("deliv")
    BY <2>1 DEF DataInv, Types
  <2>4. Columns(p)[q] \in Deliveries
    BY <2>2, <2>3 DEF BlockBody
  <2>5. Delivers(q, p, Columns(p)[q])
    BY <2>1, <2>2 DEF DataInv, OnTheWay
  <2> QED BY <2>1, <2>2, <2>4, <2>5
<1>2. Columns(p) \in [Proc -> Deliveries]
  BY <1>1 DEF Columns
<1>3. /\ \A q \in Proc : Columns(p)[q].push = AllArgs(Collectives(p), "push", q)
      /\ Columns(p)[p].pop = AllArgs(Collectives(p), "pop", p)
      /\ Columns(p)[p].tag = AllArgs(Collectives(p), "tag", p)
  BY <1>1 DEF Delivers
<1>4. step[p] < Len(program.coll) /\ mq[p].n_mesg = 0
  BY DEF DataInv, KeepsUp
<1>5. Collectives(p) \in Seq(Collective)
  <2>1. program \in Programs /\ step[p] \in 0 .. Len(program.coll)
    BY DEF DataInv, Types
  <2>2. Len(program.coll) \in Nat
    BY <2>1, Typed
  <2>3. step[p] + 1 \in 1 .. Len(program.coll)
    BY <1>4, <2>1, <2>2
  <2> QED BY <2>1, <2>3, Typed DEF Collectives
<1>6. PushedRows(p) = Pushed(reg[p], Collectives(p))
  <2>1. [q \in Proc |-> Columns(p)[q].push] = [q \in Proc |-> AllArgs(Collectives(p), "push", q)]
    BY <1>3
  <2> QED BY <2>1 DEF PushedRows, Pushed
<1>7. PushedRows(p) \in Registers
  BY <1>5, <1>6, AtCall, PushedTyped
<1> QED BY <1>1, <1>2, <1>3, <1>4, <1>5, <1>6, <1>7

LEMMA NoColumns == EmptyDeliveries \in [Proc -> Deliveries] /\ EmptyRequests \in [Proc -> Seq(Request)]
<1>1. EmptyColumn \in Deliveries
  BY DEF EmptyColumn, Deliveries
<1> QED BY <1>1 DEF EmptyDeliveries, EmptyRequests

(* What a process that returns to the program has done. *)
Returns(p) ==
  LET rows == PushedRows(p)
      tags == Columns(p)[p].tag
  IN
  /\ pc[p] = "deliv" /\ CanLeave(p) /\ Leave(p)
  /\ pc' = [pc EXCEPT ![p] = "compute"] /\ step' = [step EXCEPT ![p] = step[p] + 1]
  /\ done' = [done EXCEPT ![p] = 0]
  /\ mem' = [mem EXCEPT ![p] = AfterPuts(mem[p], Columns(p))]
  /\ reg' = [reg EXCEPT ![p] = Pack(rows, PoppedRows(rows[p], Columns(p)[p].pop))]
  /\ reqTab' = [reqTab EXCEPT ![p] = EmptyRequests]
  /\ delTab' = [delTab EXCEPT ![p] = EmptyDeliveries]
  /\ mq' \in [Proc -> Queue] /\ \A r \in Proc \ {p} : mq'[r] = mq[r]
  /\ mq'[p].recv_tag_size = mq[p].recv_tag_size
  /\ mq'[p].send_tag_size = IF tags = <<>> THEN mq[p].send_tag_size ELSE tags[Len(tags)]
  /\ \A q \in Proc : mq'[p].pending[q] = Columns(p)[q].send
  /\ UNCHANGED <<program, calls, anyGets, aborted>>

LEMMA LeaveDelivReturns ==
  ASSUME ControlInv, DataInv, NEW p \in Proc, LeaveDeliv(p)
  PROVE  \/ /\ UNCHANGED <<pc, step, program, done, calls, mem, reg, mq, reqTab, delTab, chan>>
            /\ aborted' \in BOOLEAN
         \/ Returns(p)
<1> DEFINE columns == Columns(p)
           rows == PushedRows(p)
           removed == PoppedRows(rows[p], columns[p].pop)
           sends == [q \in Proc |-> columns[q].send]
           m == Gather(mq[p], sends)
<1>1. /\ pc[p] = "deliv" /\ CanLeave(p)
      /\ \/ /\ mem' = [mem EXCEPT ![p] = AfterPuts(mem[p], columns)]
            /\ reg' = [reg EXCEPT ![p] = Pack(rows, removed)]
            /\ mq' = [mq EXCEPT ![p] = SetTags(m, columns[p].tag)]
            /\ reqTab' = [reqTab EXCEPT ![p] = EmptyRequests]
            /\ delTab' = [delTab EXCEPT ![p] = EmptyDeliveries]
            /\ Leave(p)
            /\ pc' = [pc EXCEPT ![p] = "compute"]
            /\ step' = [step EXCEPT ![p] = step[p] + 1]
            /\ done' = [done EXCEPT ![p] = 0]
            /\ UNCHANGED <<program, calls, anyGets, aborted>>
         \/ /\ aborted' = TRUE
            /\ UNCHANGED <<pc, step, program, done, calls, mem, reg, mq, reqTab, delTab, anyGets, chan>>
  BY DEF LeaveDeliv, Columns, PushedRows
<1>2. columns \in [Proc -> Deliveries] /\ mq[p].n_mesg = 0 /\ mq[p] \in Queue
      /\ mq \in [Proc -> Queue]
  BY <1>1, DeliveriesTaken, AtCall
<1> HIDE DEF columns, rows, removed
<1>3. sends \in [Proc -> Seq(Message)] /\ columns[p].tag \in Seq(Nat)
  BY <1>2 DEF Deliveries
<1> HIDE DEF sends
<1>4. /\ m \in Queue /\ m.recv_tag_size = mq[p].recv_tag_size
      /\ m.send_tag_size = mq[p].send_tag_size /\ m.pending = sends
  BY <1>2, <1>3, GatherTyped
<1> HIDE DEF m
<1>5. /\ SetTags(m, columns[p].tag) \in Queue
      /\ SetTags(m, columns[p].tag).recv_tag_size = mq[p].recv_tag_size
      /\ SetTags(m, columns[p].tag).pending = sends
      /\ SetTags(m, columns[p].tag).send_tag_size
           = IF columns[p].tag = <<>> THEN mq[p].send_tag_size
             ELSE columns[p].tag[Len(columns[p].tag)]
  BY <1>3, <1>4, SetTagsTyped
<1>6. CASE /\ aborted' = TRUE
           /\ UNCHANGED <<pc, step, program, done, calls, mem, reg, mq, reqTab, delTab, anyGets, chan>>
  BY <1>6
<1>7. CASE ~(aborted' = TRUE
             /\ UNCHANGED <<pc, step, program, done, calls, mem, reg, mq, reqTab, delTab, anyGets, chan>>)
  <2>1. /\ mem' = [mem EXCEPT ![p] = AfterPuts(mem[p], columns)]
        /\ reg' = [reg EXCEPT ![p] = Pack(rows, removed)]
        /\ mq' = [mq EXCEPT ![p] = SetTags(m, columns[p].tag)]
        /\ reqTab' = [reqTab EXCEPT ![p] = EmptyRequests]
        /\ delTab' = [delTab EXCEPT ![p] = EmptyDeliveries]
        /\ Leave(p)
        /\ pc' = [pc EXCEPT ![p] = "compute"]
        /\ step' = [step EXCEPT ![p] = step[p] + 1]
        /\ done' = [done EXCEPT ![p] = 0]
        /\ UNCHANGED <<program, calls, anyGets, aborted>>
    BY <1>1, <1>7
  <2>2. /\ mq' \in [Proc -> Queue] /\ \A r \in Proc \ {p} : mq'[r] = mq[r]
        /\ mq'[p] = SetTags(m, columns[p].tag)
    BY <1>2, <1>5, <2>1
  <2>3. \A q \in Proc : mq'[p].pending[q] = columns[q].send
    BY <1>5, <2>2 DEF sends
  <2> QED BY <1>1, <1>5, <2>1, <2>2, <2>3 DEF Returns, columns, rows, removed
<1> QED BY <1>6, <1>7

LEMMA ReturnKeepsData ==
  ASSUME ControlInv, DataInv, ControlInv', NEW p \in Proc, Returns(p)
  PROVE  DataInv'
<1>1. /\ pc[p] = "deliv" /\ CanLeave(p) /\ Leave(p)
      /\ pc' = [pc EXCEPT ![p] = "compute"] /\ step' = [step EXCEPT ![p] = step[p] + 1]
      /\ done' = [done EXCEPT ![p] = 0]
      /\ mem' = [mem EXCEPT ![p] = AfterPuts(mem[p], Columns(p))]
      /\ reqTab' = [reqTab EXCEPT ![p] = EmptyRequests]
      /\ delTab' = [delTab EXCEPT ![p] = EmptyDeliveries]
      /\ mq' \in [Proc -> Queue] /\ \A r \in Proc \ {p} : mq'[r] = mq[r]
      /\ UNCHANGED <<program, calls, anyGets, aborted>>
  BY DEF Returns
<1>2. /\ Columns(p) \in [Proc -> Deliveries] /\ step[p] < Len(program.coll)
      /\ PushedRows(p) \in Registers
  BY <1>1, DeliveriesTaken
<1>3. /\ program \in Programs /\ step \in [Proc -> 0 .. Len(program.coll)]
      /\ done \in [Proc -> Nat] /\ mem \in [Proc -> [Addr -> Val]] /\ calls \in 0 .. program.most
      /\ reg \in [Proc -> Registers] /\ aborted \in BOOLEAN
      /\ reqTab \in [Proc -> [Proc -> Seq(Request)]] /\ delTab \in [Proc -> [Proc -> Deliveries]]
  BY DEF DataInv, Types
<1>4. pc \in [Proc -> Kinds \union {"compute"}]
  BY DEF ControlInv, ControlTypeOK
<1>5. \A q, r \in Proc : InTransit(q, r)' \subseteq InTransit(q, r)
  BY <1>1, LeaveTransit
<1>6. \A q, r \in Proc : \A b \in InTransit(q, r)' : b.body \in BlockBody(b.kind)
  BY <1>5 DEF DataInv, Types
<1>7. Types'
  <2>1. step' \in [Proc -> 0 .. Len(program.coll)]
    <3>1. Len(program.coll) \in Nat
      BY <1>3, Typed
    <3>2. step[p] + 1 \in 0 .. Len(program.coll)
      BY <1>2, <1>3, <3>1
    <3> QED BY <1>1, <1>3, <3>2
  <2>2. done' \in [Proc -> Nat]
    BY <1>1, <1>3
  <2>3. mem' \in [Proc -> [Addr -> Val]]
    <3>1. AfterPuts(mem[p], Columns(p)) \in [Addr -> Val]
      BY <1>2, <1>3, AfterPutsTyped
    <3> QED BY <1>1, <1>3, <3>1
  <2>4. reg' \in [Proc -> Registers]
    <3> DEFINE removed == PoppedRows(PushedRows(p)[p], Columns(p)[p].pop)
    <3>1. reg' = [reg EXCEPT ![p] = Pack(PushedRows(p), removed)]
      BY DEF Returns
    <3> HIDE DEF removed
    <3>2. Pack(PushedRows(p), removed) \in Registers
      BY <1>2, PackTyped
    <3> QED BY <1>3, <3>1, <3>2
  <2>5. /\ reqTab' \in [Proc -> [Proc -> Seq(Request)]]
        /\ delTab' \in [Proc -> [Proc -> Deliveries]]
    BY <1>1, <1>3, NoColumns
  <2> QED BY <1>1, <1>3, <1>6, <2>1, <2>2, <2>3, <2>4, <2>5 DEF Types
<1>8. KeepsUp(p)'
  <2>1. /\ pc'[p] = "compute" /\ done'[p] = 0 /\ step'[p] = step[p] + 1
    BY <1>1, <1>3, <1>4
  <2>2. delTab'[p] = EmptyDeliveries
    BY <1>1, <1>3
  <2>3. \A q \in Proc : /\ delTab'[p][q].push = <<>> /\ delTab'[p][q].pop = <<>>
                        /\ delTab'[p][q].tag = <<>>
    BY <2>2 DEF EmptyDeliveries, EmptyColumn
  <2>4. ASSUME step'[p] < Len(program.coll)
        PROVE  /\ 0 \in 0 .. Len(Collectives(p)')
               /\ \A op : Args(Collectives(p)', op, p)[0] = <<>>
    <3>0. Len(program.coll) \in Nat /\ step[p] \in Nat
      BY <1>3, Typed
    <3>1. step'[p] + 1 \in 1 .. Len(program.coll)
      BY <2>1, <2>4, <3>0
    <3>2. Collectives(p)' \in Seq(Collective)
      BY <1>1, <1>3, <3>1, Typed DEF Collectives
    <3> DEFINE list == Collectives(p)'
    <3> HIDE DEF list
    <3>3. list \in Seq(Collective)
      BY <3>2 DEF list
    <3>4. 0 \in 0 .. Len(list) /\ \A op : Args(list, op, p)[0] = <<>>
      BY <3>3, ArgsFacts
    <3> QED BY <3>4 DEF list
  <2>5. \A op : Passed(p, op)' = <<>>
    BY <1>1, <2>1, <2>4 DEF Passed
  <2> QED BY <1>1, <2>1, <2>3, <2>4, <2>5 DEF KeepsUp
<1>9. ASSUME NEW r \in Proc \ {p} PROVE KeepsUp(r)'
  <2>1. /\ KeepsUp(r) /\ pc'[r] = pc[r] /\ mq'[r] = mq[r] /\ delTab'[r] = delTab[r]
        /\ step'[r] = step[r] /\ done'[r] = done[r]
    BY <1>1, <1>3, <1>4 DEF DataInv
  <2> QED BY <1>1, <2>1, KeepsUpStays
<1>10. ASSUME NEW q \in Proc, NEW r \in Proc PROVE OnTheWay(q, r)'
  <2>1. CASE r = p
    <3>1. pc'[p] = "compute"
      BY <1>1, <1>4
    <3>2. \A b \in InTransit(q, p)' : b.kind # "deliv"
      BY <3>1, NoDeliveries
    <3> QED BY <2>1, <3>2 DEF OnTheWay
  <2>2. CASE r # p
    <3>1. OnTheWay(q, r) /\ Collectives(r)' = Collectives(r)
      BY <1>1, <1>3, <2>2 DEF DataInv, Collectives
    <3>2. \A c : Delivers(q, r, c)' <=> Delivers(q, r, c)
      BY <3>1 DEF Delivers
    <3> QED BY <1>5, <3>1, <3>2 DEF OnTheWay
  <2> QED BY <2>1, <2>2
<1> QED BY <1>7, <1>8, <1>9, <1>10 DEF DataInv

(* Nothing but "aborted" changes. *)
LEMMA StutterKeepsData ==
  ASSUME DataInv, aborted' \in BOOLEAN,
         UNCHANGED <<pc, step, program, done, calls, mem, reg, mq, reqTab, delTab, chan>>
  PROVE  DataInv'
<1>1. \A p, q \in Proc : InTransit(p, q)' = InTransit(p, q)
  BY DEF InTransit
<1>2. Types'
  BY <1>1 DEF DataInv, Types
<1>3. ASSUME NEW p \in Proc PROVE KeepsUp(p)'
  BY KeepsUpStays DEF DataInv
<1>4. ASSUME NEW p \in Proc, NEW q \in Proc PROVE OnTheWay(p, q)'
  <2>1. OnTheWay(p, q) /\ Collectives(q)' = Collectives(q)
    BY DEF DataInv, Collectives
  <2>2. \A c : Delivers(p, q, c)' <=> Delivers(p, q, c)
    BY <2>1 DEF Delivers
  <2> QED BY <1>1, <2>1, <2>2 DEF OnTheWay
<1> QED BY <1>2, <1>3, <1>4 DEF DataInv

-----------------------------------------------------------------------------
LEMMA NextData == ControlInv /\ DataInv /\ ControlInv' /\ [Next]_vars => DataInv'
<1> SUFFICES ASSUME ControlInv, DataInv, ControlInv', [Next]_vars PROVE DataInv'
  OBVIOUS
<1>1. ASSUME NEW p \in Proc, NEW q \in Proc, NEW a \in Addr, NEW b \in Addr,
             Put(p, q, a, b) \/ Get(p, q, a, b)
      PROVE  DataInv'
  BY <1>1, PutKeepsData, GetKeepsData
<1>2. ASSUME NEW p \in Proc, NEW q \in Proc, NEW m \in Payload, Send(p, q, m)
      PROVE  DataInv'
  BY <1>2, SendKeepsData
<1>3. ASSUME NEW p \in Proc, NEW a \in Addr, NEW v \in Val, Write(p, a, v)
      PROVE  DataInv'
  BY <1>3, WriteKeepsData
<1>4. ASSUME NEW p \in Proc, Move(p) \/ HpMove(p) \/ ResetBuffers(p)
      PROVE  DataInv'
  BY <1>4, QueueCallKeepsData
<1>5. ASSUME NEW p \in Proc, PushReg(p) \/ PopReg(p) \/ SetTagsize(p)
      PROVE  DataInv'
  BY <1>5, PushRegKeepsData, PopRegKeepsData, SetTagsizeKeepsData
<1>6. ASSUME NEW p \in Proc, EnterSync(p)
      PROVE  DataInv'
  BY <1>6, EnterSyncKeepsData
<1>7. ASSUME NEW p \in Proc, LeaveInfo(p) \/ LeaveReq(p)
      PROVE  DataInv'
  BY <1>7, LeaveInfoKeepsData, LeaveReqKeepsData
<1>8. ASSUME NEW p \in Proc, LeaveDeliv(p)
      PROVE  DataInv'
  BY <1>8, LeaveDelivReturns, ReturnKeepsData, StutterKeepsData
<1>9. ASSUME Over \/ UNCHANGED vars
      PROVE  DataInv'
  <2>1. aborted \in BOOLEAN
    BY DEF DataInv, Types
  <2> QED BY <1>9, <2>1, StutterKeepsData DEF Over, vars
<1> QED BY <1>1, <1>2, <1>3, <1>4, <1>5, <1>6, <1>7, <1>8, <1>9 DEF Next, InSync

LEMMA DataInvariant == Spec => [](ControlInv /\ DataInv)
<1>1. Init => ControlInv /\ DataInv
  BY InitControl, InitData
<1>2. ControlInv /\ DataInv /\ [Next]_vars => (ControlInv /\ DataInv)'
  BY NextControl, NextData
<1> QED BY <1>1, <1>2, PTL DEF Spec

LEMMA TypesByData == ControlInv /\ DataInv => TypeOK
<1> SUFFICES ASSUME ControlInv, DataInv PROVE TypeOK
  OBVIOUS
<1>1. /\ pc \in [Proc -> Kinds \union {"compute"}] /\ anyGets \in [Proc -> BOOLEAN]
  BY DEF ControlInv, ControlTypeOK
<1>2. Types
  BY DEF DataInv
<1>3. reg \in [Proc -> [Proc -> Seq(Addr)]]
  BY <1>2 DEF Types, Registers
<1> DEFINE M == [size : Nat, payload_size : Payload]
<1>4. \A s \in Seq(Message) : s \in Seq(M)
  <2>1. Message \subseteq M
    BY DEF Message
  <2> HIDE DEF M
  <2> QED BY <2>1
<1>5. mq \in [Proc -> [recv_tag_size : Nat, send_tag_size : Nat, n_mesg : Nat, accum_size : Nat,
                       pending : [Proc -> Seq(M)]]]
  <2>1. \A m \in Queue : m \in [recv_tag_size : Nat, send_tag_size : Nat, n_mesg : Nat,
                                accum_size : Nat, pending : [Proc -> Seq(M)]]
    <3> SUFFICES ASSUME NEW m \in Queue
                 PROVE  m \in [recv_tag_size : Nat, send_tag_size : Nat, n_mesg : Nat,
                               accum_size : Nat, pending : [Proc -> Seq(M)]]
      OBVIOUS
    <3>1. m.pending \in [Proc -> Seq(M)]
      <4>1. m.pending \in [Proc -> Seq(Message)]
        BY QueueTyped
      <4> HIDE DEF M
      <4> QED BY <1>4, <4>1
    <3> DEFINE B == [Proc -> Seq(M)]
    <3> HIDE DEF M
    <3>2. m.pending \in B
      BY <3>1
    <3> HIDE DEF B
    <3>3. m \in [recv_tag_size : Nat, send_tag_size : Nat, n_mesg : Nat,
                 accum_size : Nat, pending : B]
      BY <3>2, QueueTyped
    <3> QED BY <3>3 DEF B
  <2> HIDE DEF M
  <2> QED BY <1>2, <2>1 DEF Types
<1>6. delTab \in [Proc -> [Proc -> Column]]
  <2>1. \A c \in Deliveries : c \in Column
    <3> SUFFICES ASSUME NEW c \in Deliveries PROVE c \in Column
      OBVIOUS
    <3>1. c.send \in Seq(M)
      BY <1>4 DEF Deliveries
    <3> HIDE DEF M
    <3>2. c \in [put : Seq(Write1), push : Seq(Addr), send : Seq(Message), pop : Seq(Addr),
                 tag : Seq(Nat)]
      BY DEF Deliveries, Write1
    <3>3. c \in [put : Seq(Write1), push : Seq(Addr), send : Seq(M), pop : Seq(Addr),
                 tag : Seq(Nat)]
      BY <3>1, <3>2
    <3> QED BY <3>3 DEF Column, Write1, M
  <2>2. delTab \in Tables(Deliveries)
    BY <1>2 DEF Types, Tables
  <2> QED BY <2>1, <2>2 DEF Tables
<1>7. \A p, q \in Proc : \A i \in DOMAIN chan[p][q] : chan[p][q][i].kind \in Kinds
  <2> SUFFICES ASSUME NEW p \in Proc, NEW q \in Proc, NEW i \in DOMAIN chan[p][q]
               PROVE  chan[p][q][i].kind \in Kinds
    OBVIOUS
  <2>1. chan[p][q][i] \in InTransit(p, q)
    BY DEF InTransit
  <2> QED BY <2>1, TransitShape
<1>8. reqTab \in [Proc -> [Proc -> Seq([src : Addr, dst : Addr])]]
  BY <1>2 DEF Types, Request
<1>9. /\ step \in [Proc -> 0 .. Len(program.coll)] /\ program \in Programs
      /\ done \in [Proc -> Nat] /\ calls \in 0 .. program.most
      /\ mem \in [Proc -> [Addr -> Val]] /\ aborted \in BOOLEAN
  BY <1>2 DEF Types
<1> QED BY <1>1, <1>3, <1>5, <1>6, <1>7, <1>8, <1>9 DEF TypeOK

(* Type correctness of BspSync: in particular the message counter and the  *)
(* accumulated size of the queue never become negative, though bspx_hpmove *)
(* takes less off the size than bspx_move, and every row that a put or a   *)
(* get looks up is there in the column of the other process.               *)
THEOREM TypesCorrect == Spec => []TypeOK
<1> QED BY DataInvariant, TypesByData, PTL

-----------------------------------------------------------------------------
(***************************************************************************)
(* The registers and the tag sizes of all processes agree, if the programs *)
(* are legal: what each process holds is what the program makes of the     *)
(* supersteps the process has completed.                                   *)
(***************************************************************************)
LEMMA InitAccord == Init => Accord
<1> SUFFICES ASSUME Init PROVE Accord
  OBVIOUS
<1>1. Rows(program)[0] = [q \in Proc |-> <<>>] /\ Tags(program)[0] = 0
  BY RowsFacts, TagsFacts DEF Init
<1>2. ASSUME NEW p \in Proc PROVE Accords(p)
  <2>1. /\ reg[p] = [q \in Proc |-> <<>>] /\ step[p] = 0 /\ pc[p] = "compute"
        /\ mq[p].send_tag_size = 0 /\ \A q \in Proc : mq[p].pending[q] = <<>>
        /\ \A q \in Proc : delTab[p][q].send = <<>>
    BY DEF Init, EmptyQueue, EmptyDeliveries, EmptyColumn
  <2> QED BY <1>1, <2>1 DEF Accords, WithTag
<1>3. \A p, q \in Proc : TagsOnTheWay(p, q)
  BY DEF Init, InTransit, TagsOnTheWay
<1> QED BY <1>2, <1>3 DEF Accord

(* One message more, or one less. *)
LEMMA TagsStay ==
  ASSUME NEW s \in Seq(Message), NEW n
  PROVE  /\ WithTag(<<>>, n)
         /\ WithTag(s, n) /\ s # <<>> => WithTag(Tail(s), n)
         /\ \A x \in Message : WithTag(s, n) /\ x.size = x.payload_size + n
                                 => WithTag(Append(s, x), n)
<1> DEFINE M == Message
<1>1. s \in Seq(M)
  OBVIOUS
<1> HIDE DEF M
<1>2. s # <<>> => /\ DOMAIN Tail(s) = 1 .. Len(s)-1
                  /\ \A i \in 1 .. Len(s)-1 : Tail(s)[i] = s[i+1]
  BY <1>1
<1>3. \A x \in M : /\ DOMAIN Append(s, x) = 1 .. Len(s)+1
                   /\ Append(s, x)[Len(s)+1] = x
                   /\ \A i \in 1 .. Len(s) : Append(s, x)[i] = s[i]
  BY <1>1
<1>4. DOMAIN s = 1 .. Len(s) /\ Len(s) \in Nat
  BY <1>1
<1>5. WithTag(<<>>, n)
  BY DEF WithTag
<1>6. WithTag(s, n) /\ s # <<>> => WithTag(Tail(s), n)
  BY <1>2, <1>4 DEF WithTag
<1>7. ASSUME NEW x \in M, WithTag(s, n), x.size = x.payload_size + n
      PROVE  WithTag(Append(s, x), n)
  <2> DEFINE t == Append(s, x)
  <2>1. /\ DOMAIN t = 1 .. Len(s)+1 /\ t[Len(s)+1] = x
        /\ \A i \in 1 .. Len(s) : t[i] = s[i]
    BY <1>3
  <2> HIDE DEF t
  <2>2. ASSUME NEW i \in DOMAIN t PROVE t[i].size = t[i].payload_size + n
    <3>1. i \in 1 .. Len(s) \/ i = Len(s) + 1
      BY <1>4, <2>1, <2>2
    <3>2. CASE i \in 1 .. Len(s)
      BY <1>4, <1>7, <2>1, <3>2 DEF WithTag
    <3>3. CASE i = Len(s) + 1
      BY <1>7, <2>1, <3>3
    <3> QED BY <3>1, <3>2, <3>3
  <2>3. WithTag(t, n)
    BY <2>2 DEF WithTag
  <2> QED BY <2>3 DEF t
<1> QED BY <1>5, <1>6, <1>7 DEF M

(* A process and its blocks, in a step of another one. *)
LEMMA AccordsStays ==
  ASSUME NEW r \in Proc, Accords(r), UNCHANGED program,
         reg'[r] = reg[r], step'[r] = step[r], pc'[r] = pc[r], mq'[r] = mq[r],
         \A q \in Proc : delTab'[r][q].send = delTab[r][q].send
  PROVE  Accords(r)'
BY DEF Accords

LEMMA BlocksKeepTags ==
  ASSUME \A q, r \in Proc : TagsOnTheWay(q, r),
         NEW p \in Proc, NEW blocks, UNCHANGED <<step, program>>,
         \A q, r \in Proc :
           InTransit(q, r)' \subseteq InTransit(q, r) \union {b \in {blocks[r]} : q = p},
         \A r \in Proc : blocks[r].kind = "deliv"
                           => WithTag(blocks[r].body.send, Tags(program)[step[r]])
  PROVE  \A q, r \in Proc : TagsOnTheWay(q, r)'
<1> SUFFICES ASSUME NEW q \in Proc, NEW r \in Proc, NEW b \in InTransit(q, r)', b.kind = "deliv"
             PROVE  WithTag(b.body.send, Tags(program)[step[r]])
  BY DEF TagsOnTheWay
<1>1. b \in InTransit(q, r) \/ b = blocks[r]
  OBVIOUS
<1> QED BY <1>1 DEF TagsOnTheWay

(* The calls of a superstep. *)
LEMMA CallKeepsAccord ==
  ASSUME Accord, UNCHANGED <<pc, step, program, reg, chan>>,
         \A p \in Proc : mq'[p] = mq[p],
         \A p, q \in Proc : delTab'[p][q].send = delTab[p][q].send
  PROVE  Accord'
<1>1. \A p \in Proc : Accords(p)'
  BY AccordsStays DEF Accord
<1>2. \A p, q \in Proc : InTransit(p, q)' = InTransit(p, q)
  BY DEF InTransit
<1>3. \A p, q \in Proc : TagsOnTheWay(p, q)'
  BY <1>2 DEF Accord, TagsOnTheWay
<1> QED BY <1>1, <1>3 DEF Accord

LEMMA SendKeepsAccord ==
  ASSUME DataInv, Accord, NEW p \in Proc, NEW q \in Proc, NEW m \in Payload, Send(p, q, m)
  PROVE  Accord'
<1>1. UNCHANGED <<pc, step, program, reg, mq, chan>>
  BY DEF Send
<1>2. /\ \A r, s \in Proc : r # p \/ s # q => delTab'[r][s].send = delTab[r][s].send
      /\ \E x \in Message : /\ x.size = x.payload_size + mq[p].send_tag_size
                            /\ delTab'[p][q].send = Append(delTab[p][q].send, x)
  BY SendKeepsData
<1>3. WithTag(delTab'[p][q].send, mq[p].send_tag_size)
  <2>1. delTab[p][q].send \in Seq(Message)
    BY AtCall DEF Deliveries
  <2>2. WithTag(delTab[p][q].send, mq[p].send_tag_size)
    BY DEF Accord, Accords
  <2> QED BY <1>2, <2>1, <2>2, TagsStay
<1>4. ASSUME NEW r \in Proc PROVE Accords(r)'
  <2>1. Accords(r)
    BY DEF Accord
  <2>2. \A s \in Proc : WithTag(delTab'[r][s].send, mq[r].send_tag_size)
    BY <1>2, <1>3, <2>1 DEF Accords
  <2> QED BY <1>1, <2>1, <2>2 DEF Accords
<1>5. \A r, s \in Proc : InTransit(r, s)' = InTransit(r, s)
  BY <1>1 DEF InTransit
<1>6. \A r, s \in Proc : TagsOnTheWay(r, s)'
  BY <1>1, <1>5 DEF Accord, TagsOnTheWay
<1> QED BY <1>4, <1>6 DEF Accord

LEMMA QueueCallKeepsAccord ==
  ASSUME DataInv, Accord, NEW p \in Proc, Move(p) \/ HpMove(p) \/ ResetBuffers(p)
  PROVE  Accord'
<1>1. /\ UNCHANGED <<pc, step, program, reg, delTab, chan>>
      /\ pc[p] = "compute" /\ \A r \in Proc \ {p} : mq'[r] = mq[r]
      /\ mq'[p].send_tag_size = mq[p].send_tag_size
      /\ \/ /\ mq'[p].recv_tag_size = mq[p].recv_tag_size
            /\ \A q \in Proc : Loses(mq[p].pending[q], mq'[p].pending[q])
         \/ \A q \in Proc : mq'[p].pending[q] = <<>>
  BY QueueCallKeepsData
<1>2. ASSUME NEW q \in Proc PROVE WithTag(mq'[p].pending[q], mq'[p].recv_tag_size)
  <2>1. mq[p].pending[q] \in Seq(Message)
    BY AtCall, QueueTyped
  <2>2. WithTag(mq[p].pending[q], mq[p].recv_tag_size)
    BY DEF Accord, Accords
  <2>3. CASE mq'[p].pending[q] = <<>>
    BY <2>1, <2>3, TagsStay
  <2>4. CASE /\ mq[p].pending[q] # <<>> /\ mq'[p].recv_tag_size = mq[p].recv_tag_size
             /\ mq'[p].pending[q] = Tail(mq[p].pending[q])
    BY <2>1, <2>2, <2>4, TagsStay
  <2>5. CASE /\ mq'[p].recv_tag_size = mq[p].recv_tag_size
             /\ mq'[p].pending[q] = mq[p].pending[q]
    BY <2>2, <2>5
  <2> QED BY <1>1, <2>3, <2>4, <2>5 DEF Loses
<1>3. ASSUME NEW r \in Proc PROVE Accords(r)'
  <2>1. Accords(r)
    BY DEF Accord
  <2>2. CASE r # p
    BY <1>1, <2>1, <2>2, AccordsStays
  <2>3. CASE r = p
    BY <1>1, <1>2, <2>1, <2>3 DEF Accords
  <2> QED BY <2>2, <2>3
<1>4. \A r, s \in Proc : InTransit(r, s)' = InTransit(r, s)
  BY <1>1 DEF InTransit
<1>5. \A r, s \in Proc : TagsOnTheWay(r, s)'
  BY <1>1, <1>4 DEF Accord, TagsOnTheWay
<1> QED BY <1>3, <1>5 DEF Accord

(* bspx_sync. *)
LEMMA EnterSyncKeepsAccord ==
  ASSUME ControlInv, DataInv, Accord, NEW p \in Proc, EnterSync(p)
  PROVE  Accord'
<1>1. /\ mq' = [mq EXCEPT ![p] = QueueSync(mq[p])]
      /\ anyGets' = [anyGets EXCEPT ![p] = IssuedGets(p)]
      /\ pc' = [pc EXCEPT ![p] = "info"]
      /\ UNCHANGED <<step, program, reg, delTab>>
  BY DEF EnterSync
<1>2. PICK blocks : /\ Enter(p, blocks)
                    /\ \A q \in Proc : blocks[q] = Block("info", anyGets'[p])
  BY DEF EnterSync
<1>3. pc \in [Proc -> Kinds \union {"compute"}] /\ mq \in [Proc -> Queue]
  BY DEF ControlInv, ControlTypeOK, DataInv, Types
<1>4. \A q \in Proc : blocks[q].kind = "info"
  BY <1>2 DEF Block
<1>5. \A q, r \in Proc :
        InTransit(q, r)' \subseteq InTransit(q, r) \union {b \in {blocks[r]} : q = p}
  BY <1>2, EnterTransit
<1>6. \A q, r \in Proc : TagsOnTheWay(q, r)'
  BY <1>1, <1>4, <1>5, BlocksKeepTags DEF Accord
<1>7. /\ mq'[p].recv_tag_size = mq[p].send_tag_size /\ mq'[p].send_tag_size = mq[p].send_tag_size
      /\ \A q \in Proc : mq'[p].pending[q] = <<>>
      /\ \A r \in Proc \ {p} : mq'[r] = mq[r] /\ pc'[r] = pc[r]
  BY <1>1, <1>3, SyncTyped
<1>8. ASSUME NEW r \in Proc PROVE Accords(r)'
  <2>1. Accords(r)
    BY DEF Accord
  <2>2. CASE r = p
    <3>1. \A q \in Proc : WithTag(mq'[p].pending[q], mq'[p].recv_tag_size)
      BY <1>7 DEF WithTag
    <3> QED BY <1>1, <1>7, <2>1, <2>2, <3>1 DEF Accords
  <2>3. CASE r # p
    BY <1>1, <1>7, <2>1, <2>3, AccordsStays
  <2> QED BY <2>2, <2>3
<1> QED BY <1>6, <1>8 DEF Accord

LEMMA LeaveInfoKeepsAccord ==
  ASSUME ControlInv, DataInv, Accord, NEW p \in Proc, LeaveInfo(p)
  PROVE  Accord'
<1>1. /\ pc[p] = "info" /\ CanLeave(p) /\ UNCHANGED <<step, program, reg, mq, delTab>>
  BY DEF LeaveInfo
<1>2. PICK next, blocks :
        /\ next \in {"req", "deliv"} /\ pc' = [pc EXCEPT ![p] = next]
        /\ LeaveAndEnter(p, blocks)
        /\ \/ \A q \in Proc : blocks[q] = Block("req", reqTab[p][q])
           \/ \A q \in Proc : blocks[q] = Block("deliv", delTab[p][q])
  BY DEF LeaveInfo
<1>3. pc \in [Proc -> Kinds \union {"compute"}]
  BY DEF ControlInv, ControlTypeOK
<1>4. ASSUME NEW q \in Proc, blocks[q].kind = "deliv"
      PROVE  WithTag(blocks[q].body.send, Tags(program)[step[q]])
  <2>1. blocks[q].body = delTab[p][q]
    <3>1. blocks[q] = Block("req", reqTab[p][q]) \/ blocks[q] = Block("deliv", delTab[p][q])
      BY <1>2
    <3> QED BY <1>4, <3>1 DEF Block
  <2>2. step[q] = step[p]
    BY <1>1, AllInStep
  <2>3. WithTag(delTab[p][q].send, Tags(program)[step[p]])
    BY DEF Accord, Accords
  <2> QED BY <2>1, <2>2, <2>3
<1>5. \A q, r \in Proc :
        InTransit(q, r)' \subseteq InTransit(q, r) \union {b \in {blocks[r]} : q = p}
  BY <1>1, <1>2, LeaveAndEnterTransit
<1>6. \A q, r \in Proc : TagsOnTheWay(q, r)'
  BY <1>1, <1>4, <1>5, BlocksKeepTags DEF Accord
<1>7. ASSUME NEW r \in Proc PROVE Accords(r)'
  <2>1. pc[r] = "compute" <=> pc'[r] = "compute"
    BY <1>1, <1>2, <1>3
  <2> QED BY <1>1, <2>1 DEF Accord, Accords
<1> QED BY <1>6, <1>7 DEF Accord

LEMMA LeaveReqKeepsAccord ==
  ASSUME ControlInv, DataInv, Accord, NEW p \in Proc, LeaveReq(p)
  PROVE  Accord'
<1>1. /\ pc[p] = "req" /\ CanLeave(p) /\ UNCHANGED <<step, program, reg, mq>>
      /\ delTab' = [delTab EXCEPT ![p] = Answered(p)]
      /\ pc' = [pc EXCEPT ![p] = "deliv"]
  BY DEF LeaveReq
<1>2. PICK blocks : /\ LeaveAndEnter(p, blocks)
                    /\ \A q \in Proc : blocks[q] = Block("deliv", delTab'[p][q])
  BY DEF LeaveReq
<1>3. pc \in [Proc -> Kinds \union {"compute"}] /\ DOMAIN delTab = Proc
  BY DEF ControlInv, ControlTypeOK, DataInv, Types
<1>4. \A r, q \in Proc : delTab'[r][q].send = delTab[r][q].send
  <2>1. \A q \in Proc : Answered(p)[q].send = delTab[p][q].send
    BY <1>1, AnswersTyped
  <2> QED BY <1>1, <1>3, <2>1
<1>5. ASSUME NEW q \in Proc
      PROVE  WithTag(blocks[q].body.send, Tags(program)[step[q]])
  <2>1. blocks[q].body = delTab'[p][q]
    <3>1. blocks[q] = Block("deliv", delTab'[p][q])
      BY <1>2
    <3> QED BY <3>1 DEF Block
  <2>2. step[q] = step[p]
    BY <1>1, AllInStep
  <2>3. WithTag(delTab[p][q].send, Tags(program)[step[p]])
    BY DEF Accord, Accords
  <2> QED BY <1>4, <2>1, <2>2, <2>3
<1>6. \A q, r \in Proc :
        InTransit(q, r)' \subseteq InTransit(q, r) \union {b \in {blocks[r]} : q = p}
  BY <1>1, <1>2, LeaveAndEnterTransit
<1>7. \A q, r \in Proc : TagsOnTheWay(q, r)'
  BY <1>1, <1>5, <1>6, BlocksKeepTags DEF Accord
<1>8. ASSUME NEW r \in Proc PROVE Accords(r)'
  <2>1. pc[r] = "compute" <=> pc'[r] = "compute"
    BY <1>1, <1>3
  <2> QED BY <1>1, <1>4, <2>1 DEF Accord, Accords
<1> QED BY <1>7, <1>8 DEF Accord

(* The supersteps are where the program is used. *)
LEMMA ReturnKeepsAccord ==
  ASSUME LegalPrograms, ControlInv, DataInv, Accord, ControlInv', NEW p \in Proc, Returns(p)
  PROVE  Accord'
<1> DEFINE list == Collectives(p)
           s == step[p]
<1>1. /\ pc[p] = "deliv" /\ CanLeave(p) /\ Leave(p)
      /\ pc' = [pc EXCEPT ![p] = "compute"] /\ step' = [step EXCEPT ![p] = step[p] + 1]
      /\ reg' = [reg EXCEPT ![p] = Pack(PushedRows(p), PoppedRows(PushedRows(p)[p], Columns(p)[p].pop))]
      /\ delTab' = [delTab EXCEPT ![p] = EmptyDeliveries]
      /\ \A r \in Proc \ {p} : mq'[r] = mq[r]
      /\ mq'[p].recv_tag_size = mq[p].recv_tag_size
      /\ mq'[p].send_tag_size = IF Columns(p)[p].tag = <<>> THEN mq[p].send_tag_size
                                ELSE Columns(p)[p].tag[Len(Columns(p)[p].tag)]
      /\ \A q \in Proc : mq'[p].pending[q] = Columns(p)[q].send
      /\ UNCHANGED program
  BY DEF Returns
<1>2. /\ program \in Programs /\ step \in [Proc -> 0 .. Len(program.coll)]
      /\ reg \in [Proc -> Registers] /\ pc \in [Proc -> Kinds \union {"compute"}]
      /\ DOMAIN delTab = Proc
  BY DEF DataInv, Types, ControlInv, ControlTypeOK
<1>3. /\ Columns(p)[p].pop = AllArgs(list, "pop", p) /\ Columns(p)[p].tag = AllArgs(list, "tag", p)
      /\ \A q \in Proc : /\ Head(chan[q][p]) \in InTransit(q, p)
                         /\ Head(chan[q][p]).kind = "deliv"
                         /\ Columns(p)[q] = Head(chan[q][p]).body
      /\ s < Len(program.coll) /\ PushedRows(p) = Pushed(reg[p], list)
  BY <1>1, DeliveriesTaken
<1>4. /\ reg[p] = Rows(program)[s] /\ mq[p].send_tag_size = Tags(program)[s]
      /\ mq[p].recv_tag_size = mq[p].send_tag_size
  BY <1>1 DEF Accord, Accords
<1>5. /\ s + 1 \in 1 .. Len(program.coll) /\ (s + 1) - 1 = s /\ list = program.coll[s + 1]
      /\ step'[p] = s + 1
  <2>1. Len(program.coll) \in Nat /\ s \in 0 .. Len(program.coll)
    BY <1>2, Typed
  <2> QED BY <1>1, <1>2, <1>3, <2>1 DEF Collectives
<1> HIDE DEF list, s
<1>6. /\ AllArgs(list, "tag", p) = AllArgs(list, "tag", 0)
      /\ PoppedRows(Pushed(Rows(program)[s], list)[p], AllArgs(list, "pop", p))
           = PoppedRows(Pushed(Rows(program)[s], list)[0], AllArgs(list, "pop", 0))
  <2>1. Legal(program) /\ s + 1 \in DOMAIN program.coll
    BY <1>2, <1>5, Typed DEF LegalPrograms
  <2> QED BY <1>5, <2>1 DEF Legal
<1>7. reg'[p] = Rows(program)[s + 1]
  <2>1. reg'[p] = RowsAfter(Rows(program)[s], list)
    BY <1>1, <1>2, <1>3, <1>4, <1>6 DEF RowsAfter
  <2>2. Rows(program)[s + 1] = RowsAfter(Rows(program)[(s + 1) - 1], program.coll[s + 1])
    BY <1>2, <1>5, RowsFacts
  <2> QED BY <1>5, <2>1, <2>2
<1>8. mq'[p].send_tag_size = Tags(program)[s + 1]
  <2>1. mq'[p].send_tag_size = TagAfter(Tags(program)[s], list)
    BY <1>1, <1>3, <1>4, <1>6 DEF TagAfter
  <2>2. Tags(program)[s + 1] = TagAfter(Tags(program)[(s + 1) - 1], program.coll[s + 1])
    BY <1>2, <1>5, TagsFacts
  <2> QED BY <1>5, <2>1, <2>2
<1>9. ASSUME NEW q \in Proc PROVE WithTag(mq'[p].pending[q], mq'[p].recv_tag_size)
  <2>1. TagsOnTheWay(q, p)
    BY DEF Accord
  <2>2. WithTag(Columns(p)[q].send, Tags(program)[s])
    BY <1>3, <2>1 DEF TagsOnTheWay, s
  <2> QED BY <1>1, <1>4, <2>2
<1>10. Accords(p)'
  <2>1. pc'[p] = "compute" /\ delTab'[p] = EmptyDeliveries
    BY <1>1, <1>2
  <2>2. \A q \in Proc : delTab'[p][q].send = <<>>
    BY <2>1 DEF EmptyDeliveries, EmptyColumn
  <2>3. \A q \in Proc : WithTag(delTab'[p][q].send, mq'[p].send_tag_size)
    BY <2>2 DEF WithTag
  <2> QED BY <1>1, <1>5, <1>7, <1>8, <1>9, <2>1, <2>3 DEF Accords
<1>11. ASSUME NEW r \in Proc \ {p} PROVE Accords(r)'
  <2>1. Accords(r)
    BY DEF Accord
  <2>2. /\ reg'[r] = reg[r] /\ step'[r] = step[r] /\ pc'[r] = pc[r] /\ mq'[r] = mq[r]
        /\ delTab'[r] = delTab[r]
    BY <1>1, <1>2
  <2> QED BY <1>1, <2>1, <2>2, AccordsStays
<1>12. ASSUME NEW q \in Proc, NEW r \in Proc PROVE TagsOnTheWay(q, r)'
  <2>1. CASE r = p
    <3>1. pc'[p] = "compute"
      BY <1>1, <1>2
    <3>2. \A b \in InTransit(q, p)' : b.kind # "deliv"
      BY <3>1, NoDeliveries
    <3> QED BY <2>1, <3>2 DEF TagsOnTheWay
  <2>2. CASE r # p
    <3>1. InTransit(q, r)' \subseteq InTransit(q, r)
      BY <1>1, LeaveTransit
    <3>2. TagsOnTheWay(q, r) /\ step'[r] = step[r]
      BY <1>1, <1>2, <2>2 DEF Accord
    <3> QED BY <1>1, <3>1, <3>2 DEF TagsOnTheWay
  <2> QED BY <2>1, <2>2
<1> QED BY <1>10, <1>11, <1>12 DEF Accord

LEMMA NextAccord ==
  LegalPrograms /\ ControlInv /\ DataInv /\ Accord /\ ControlInv' /\ [Next]_vars => Accord'
<1> SUFFICES ASSUME LegalPrograms, ControlInv, DataInv, Accord, ControlInv', [Next]_vars
             PROVE  Accord'
  OBVIOUS
<1>1. ASSUME NEW p \in Proc, NEW q \in Proc, NEW a \in Addr, NEW b \in Addr, Put(p, q, a, b)
      PROVE  Accord'
  <2>1. UNCHANGED <<pc, step, program, reg, mq, chan>>
    BY <1>1 DEF Put
  <2> QED BY <1>1, <2>1, PutKeepsData, CallKeepsAccord
<1>2. ASSUME NEW p \in Proc, NEW q \in Proc, NEW a \in Addr, NEW b \in Addr, Get(p, q, a, b)
      PROVE  Accord'
  <2>1. UNCHANGED <<pc, step, program, reg, mq, delTab, chan>>
    BY <1>2 DEF Get
  <2> QED BY <2>1, CallKeepsAccord
<1>3. ASSUME NEW p \in Proc, NEW a \in Addr, NEW v \in Val, Write(p, a, v)
      PROVE  Accord'
  <2>1. UNCHANGED <<pc, step, program, reg, mq, delTab, chan>>
    BY <1>3 DEF Write
  <2> QED BY <2>1, CallKeepsAccord
<1>4. ASSUME NEW p \in Proc, PushReg(p) \/ PopReg(p) \/ SetTagsize(p)
      PROVE  Accord'
  <2>1. UNCHANGED <<pc, step, program, reg, mq, chan>>
    BY <1>4 DEF PushReg, PopReg, SetTagsize
  <2>2. \A r, q \in Proc : delTab'[r][q].send = delTab[r][q].send
    BY <1>4, PushRegKeepsData, PopRegKeepsData, SetTagsizeKeepsData
  <2> QED BY <2>1, <2>2, CallKeepsAccord
<1>5. ASSUME NEW p \in Proc, LeaveDeliv(p)
      PROVE  Accord'
  <2>1. CASE UNCHANGED <<pc, step, program, done, calls, mem, reg, mq, reqTab, delTab, chan>>
    BY <2>1, CallKeepsAccord
  <2>2. CASE Returns(p)
    BY <2>2, ReturnKeepsAccord
  <2> QED BY <1>5, <2>1, <2>2, LeaveDelivReturns
<1>6. ASSUME Over \/ UNCHANGED vars
      PROVE  Accord'
  <2>1. UNCHANGED <<pc, step, program, reg, mq, delTab, chan>>
    BY <1>6 DEF Over, vars
  <2> QED BY <2>1, CallKeepsAccord
<1> QED BY <1>1, <1>2, <1>3, <1>4, <1>5, <1>6, SendKeepsAccord, QueueCallKeepsAccord,
           EnterSyncKeepsAccord, LeaveInfoKeepsAccord, LeaveReqKeepsAccord DEF Next, InSync

LEMMA AccordInvariant ==
  ASSUME LegalPrograms
  PROVE  Spec => [](ControlInv /\ DataInv /\ Accord)
<1> DEFINE Inv == ControlInv /\ DataInv /\ Accord
<1>1. Init => Inv
  BY InitControl, InitData, InitAccord
<1>2. Inv /\ [Next]_vars => Inv'
  <2> SUFFICES ASSUME Inv, [Next]_vars PROVE Inv'
    OBVIOUS
  <2>1. ControlInv'
    BY NextControl
  <2>2. DataInv'
    BY <2>1, NextData
  <2>3. Accord'
    BY <2>1, NextAccord
  <2> QED BY <2>1, <2>2, <2>3
<1> QED BY <1>1, <1>2, PTL DEF Spec

(* Processes that completed the same supersteps of a legal program hold    *)
(* the same register: each packed it by what it was told by the others,    *)
(* and by its own pops.                                                    *)
THEOREM RegistersAlwaysAgree ==
  ASSUME LegalPrograms
  PROVE  Spec => []RegistersAgree
<1>1. Accord => RegistersAgree
  BY DEF Accord, Accords, RegistersAgree
<1> QED BY <1>1, AccordInvariant, PTL

(* In a legal program every queued message carries a tag of the size with  *)
(* which its receiver takes it apart, whatever set_tagsize calls came in   *)
(* between.                                                                *)
THEOREM TagsAlwaysAgree ==
  ASSUME LegalPrograms
  PROVE  Spec => []TagsAgree
<1>1. Accord => TagsAgree
  BY DEF Accord, Accords, WithTag, TagsAgree
<1> QED BY <1>1, AccordInvariant, PTL

-----------------------------------------------------------------------------
(***************************************************************************)
(* Proof that BspSync implements Bsplib, for any number of processes and   *)
(* any program whose collective calls mean the same rows everywhere.       *)
(*                                                                         *)
(* The history variables are tied to the tables and to what is on its way. *)
(* As soon as all processes have called bspx_sync, what a superstep leaves *)
(* a process with is fixed, although the gets are not answered yet and     *)
(* other processes return, and change their memory, before it does: the    *)
(* invariant says so by what is *due* from each process to each other one, *)
(* whether it is on its way or still to be made from the calls.            *)
(***************************************************************************)
(* The rows that a sequence of pops removes, one pop after the other.      *)

PoppedRow(column, removed, a) ==
  IF HasLiveRow(column, removed, a) THEN NewestLiveRow(column, removed, a) ELSE 0
RowSets == SUBSET Nat
AfterPop(column) == [x \in RowSets \X Addr |-> x[1] \union {PoppedRow(column, x[1], x[2])}]

LEMMA PoppedRowTyped ==
  ASSUME NEW column \in Seq(Addr)
  PROVE  /\ AfterPop(column) \in Steps(RowSets, Addr)
         /\ \A R \in RowSets, a \in Addr :
              /\ PoppedRow(column, R, a) \in Nat
              /\ AfterPop(column)[<<R, a>>] = R \union {PoppedRow(column, R, a)}
<1>1. ASSUME NEW R \in RowSets, NEW a \in Addr PROVE PoppedRow(column, R, a) \in Nat
  <2>1. CASE HasLiveRow(column, R, a)
    <3>1. NewestLiveRow(column, R, a) \in 1 .. Len(column)
      BY <2>1, NewestRow
    <3> QED BY <2>1, <3>1 DEF PoppedRow
  <2>2. CASE ~HasLiveRow(column, R, a)
    BY <2>2 DEF PoppedRow
  <2> QED BY <2>1, <2>2
<1>2. AfterPop(column) \in Steps(RowSets, Addr)
  BY <1>1 DEF AfterPop, Steps, RowSets
<1>3. \A R \in RowSets, a \in Addr : AfterPop(column)[<<R, a>>] = R \union {PoppedRow(column, R, a)}
  BY DEF AfterPop
<1> QED BY <1>1, <1>2, <1>3

(* h is how the set of rows grows. *)
PopsTo(h, column, popped) ==
  /\ h \in [0 .. Len(popped) -> RowSets] /\ h[0] = {}
  /\ \A k \in 1 .. Len(popped) : h[k] = h[k-1] \union {PoppedRow(column, h[k-1], popped[k])}

LEMMA PopsInOrder ==
  ASSUME NEW column \in Seq(Addr), NEW popped \in Seq(Addr)
  PROVE  \E h : PopsTo(h, column, popped) /\ h[Len(popped)] = PoppedRows(column, popped)
<1> DEFINE n == Len(popped)
           g == AfterPop(column)
           P(f) == f = [s \in SUBSET (1 .. n) |->
                          IF s = {} THEN {}
                          ELSE f[s \ {Max(s)}]
                                 \union {PoppedRow(column, f[s \ {Max(s)}], popped[Max(s)])}]
           iter == CHOOSE f : P(f)
           none == {}
<1>1. n \in Nat /\ popped \in Listing(n, Addr) /\ DOMAIN popped = 1 .. n
  BY LenProperties DEF Listing
<1>2. PoppedRows(column, popped) = iter[1 .. n]
  BY <1>1, Zenon DEF PoppedRows, PoppedRow, FoldLeft, MapThenFoldSet
<1> HIDE DEF n, none, g
<1>3. g \in Steps(RowSets, Addr) /\ none \in RowSets
  BY PoppedRowTyped DEF g, RowSets, none
<1>4. \A R \in RowSets, a \in Addr : g[<<R, a>>] = R \union {PoppedRow(column, R, a)}
  BY PoppedRowTyped DEF g
<1>5. PICK it : Recurs(it, RowSets, g, none, n, popped)
  BY <1>1, <1>3, SubsetRecursion
<1>6. \A k \in 1 .. n : popped[k] \in Addr
  BY <1>1 DEF Listing
<1>7. P([s \in SUBSET (1 .. n) |-> it[s]])
  BY ZenonT(40), <1>4, <1>5, <1>6 DEF Recurs, none
<1>8. P(iter)
  <2> HIDE DEF P
  <2> QED BY <1>7
<1>9. Follows(iter, RowSets, g, none, n, popped)
  <2> HIDE DEF iter
  <2>1. ASSUME NEW s \in SUBSET (1 .. n)
        PROVE  iter[s] = IF s = {} THEN {}
                         ELSE iter[s \ {Max(s)}]
                                \union {PoppedRow(column, iter[s \ {Max(s)}], popped[Max(s)])}
    BY <1>8
  <2>2. \A s \in SUBSET (1 .. n) : s # {} => popped[Max(s)] \in Addr
    BY <1>5, <1>6 DEF Recurs
  <2> HIDE DEF P
  <2> QED BY <1>4, <2>1, <2>2 DEF Follows, none
<1> HIDE DEF iter, P
<1>10. PICK h \in [0 .. n -> RowSets] :
         /\ h[0] = none /\ h[n] = iter[1 .. n]
         /\ \A k \in 1 .. n : h[k-1] \in RowSets /\ popped[k] \in Addr
                             /\ h[k] = g[<<h[k-1], popped[k]>>]
  <2>1. \E h \in [0 .. n -> RowSets] :
          /\ h[0] = none /\ h[n] = iter[1 .. n]
          /\ \A k \in 1 .. n : h[k-1] \in RowSets /\ popped[k] \in Addr
                              /\ h[k] = g[<<h[k-1], popped[k]>>]
    BY <1>1, <1>3, <1>9, SegmentsInOrder, SMTT(60)
  <2> QED BY <2>1, Zenon
<1>11. \A k \in 1 .. n : h[k] = h[k-1] \union {PoppedRow(column, h[k-1], popped[k])}
  BY <1>4, <1>10
<1> QED BY <1>2, <1>10, <1>11 DEF n, PopsTo, none

(* Its values are what the first pops remove, each one row more. *)
LEMMA PopsGrow ==
  ASSUME NEW column \in Seq(Addr), NEW popped \in Seq(Addr), NEW h, PopsTo(h, column, popped)
  PROVE  \A k \in 0 .. Len(popped) :
           /\ h[k] = PoppedRows(column, SubSeq(popped, 1, k))
           /\ h[k] \subseteq h[Len(popped)]
<1> DEFINE n == Len(popped)
<1>1. n \in Nat
  OBVIOUS
<1>2. ASSUME NEW k \in 0 .. n PROVE h[k] = PoppedRows(column, SubSeq(popped, 1, k))
  <2> DEFINE s == SubSeq(popped, 1, k)
  <2>1. s \in Seq(Addr) /\ Len(s) = k /\ \A i \in 1 .. k : s[i] = popped[i]
    BY SubSeqProperties
  <2> HIDE DEF s
  <2>2. PICK g : PopsTo(g, column, s) /\ g[k] = PoppedRows(column, s)
    BY <2>1, PopsInOrder
  <2>3. GoTogether(g, h, k)
    <3>1. g[0] = h[0]
      BY <2>2 DEF PopsTo
    <3>2. ASSUME NEW i \in 1 .. k, g[i-1] = h[i-1] PROVE g[i] = h[i]
      <4>1. i \in 1 .. Len(popped) /\ i \in 1 .. Len(s) /\ s[i] = popped[i]
        BY <1>1, <2>1
      <4>2. g[i] = g[i-1] \union {PoppedRow(column, g[i-1], s[i])}
        BY <2>2, <4>1 DEF PopsTo
      <4>3. h[i] = h[i-1] \union {PoppedRow(column, h[i-1], popped[i])}
        BY <4>1 DEF PopsTo
      <4> QED BY <3>2, <4>1, <4>2, <4>3
    <3> QED BY <3>1, <3>2 DEF GoTogether
  <2>4. g[k] = h[k]
    BY <1>1, <2>3, RecursionsAgree
  <2> QED BY <2>2, <2>4 DEF s
<1>3. ASSUME NEW k \in 0 .. n PROVE h[n-k] \subseteq h[n]
  <2> DEFINE T == {i \in 0 .. n : h[n-i] \subseteq h[n]}
  <2>1. 0 \in T
    BY <1>1
  <2>2. ASSUME NEW i \in 0 .. n-1, i \in T PROVE i + 1 \in T
    <3> HIDE DEF n
    <3>1. n - i \in 1 .. n /\ (n - i) - 1 = n - (i+1) /\ i + 1 \in 0 .. n
      BY <1>1
    <3>2. h[n-i] = h[(n-i)-1] \union {PoppedRow(column, h[(n-i)-1], popped[n-i])}
      BY <3>1 DEF PopsTo, n
    <3> QED BY <2>2, <3>1, <3>2
  <2> HIDE DEF T, n
  <2>3. 0 .. n \subseteq T
    BY <1>1, <2>1, <2>2, BoundedInduction
  <2> QED BY <2>3 DEF T
<1>4. ASSUME NEW k \in 0 .. n PROVE h[k] \subseteq h[n]
  <2>1. n - k \in 0 .. n /\ n - (n - k) = k
    BY <1>1
  <2> HIDE DEF n
  <2> QED BY <1>3, <2>1
<1> QED BY <1>2, <1>4

(* Counting the rows that are left. *)
Upto(kept, i) == Cardinality({j \in kept : j <= i})

LEMMA UptoIsNumber ==
  ASSUME NEW n \in Nat, NEW kept \in SUBSET (1 .. n)
  PROVE  /\ IsFiniteSet(kept) /\ Cardinality(kept) \in Nat
         /\ \A i \in kept : Upto(kept, i) \in 1 .. Cardinality(kept)
         /\ \A i, j \in kept : i < j => Upto(kept, i) < Upto(kept, j)
         /\ \A i \in kept : \A j \in kept \ {i} :
              Upto(kept \ {i}, j) = IF i <= j THEN Upto(kept, j) - 1 ELSE Upto(kept, j)
         /\ \A i \in kept : Cardinality(kept \ {i}) = Cardinality(kept) - 1
<1> DEFINE upto(i) == {j \in kept : j <= i}
<1>1. IsFiniteSet(kept) /\ Cardinality(kept) \in Nat
  <2>1. IsFiniteSet(1 .. n)
    BY FS_Interval
  <2>2. IsFiniteSet(kept)
    BY <2>1, FS_Subset
  <2> QED BY <2>2, FS_CardinalityType
<1>2. \A i \in Int : IsFiniteSet(upto(i)) /\ Cardinality(upto(i)) \in Nat /\ Cardinality(upto(i)) <= Cardinality(kept)
  BY <1>1, FS_Subset, FS_CardinalityType
<1>3. ASSUME NEW i \in kept PROVE Upto(kept, i) \in 1 .. Cardinality(kept)
  <2>1. i \in upto(i) /\ i \in Int
    OBVIOUS
  <2>2. Cardinality(upto(i)) # 0
    BY <1>2, <2>1, FS_EmptySet
  <2> QED BY <1>1, <1>2, <2>1, <2>2 DEF Upto
<1>4. ASSUME NEW i \in kept, NEW j \in kept, i < j PROVE Upto(kept, i) < Upto(kept, j)
  <2>0. i \in Int /\ j \in Int /\ kept \subseteq Int
    OBVIOUS
  <2>1. upto(i) \subseteq upto(j) /\ upto(i) # upto(j)
    <3>1. ASSUME NEW l \in upto(i) PROVE l \in upto(j)
      <4>1. l \in Int /\ l <= i /\ l \in kept
        BY <2>0
      <4> QED BY <1>4, <2>0, <4>1
    <3>2. j \in upto(j) /\ j \notin upto(i)
      BY <1>4, <2>0
    <3> QED BY <3>1, <3>2
  <2>2. Cardinality(upto(i)) <= Cardinality(upto(j)) /\ Cardinality(upto(i)) # Cardinality(upto(j))
    <3> HIDE DEF upto
    <3> QED BY <1>2, <2>0, <2>1, FS_Subset
  <2> QED BY <1>2, <2>0, <2>1, <2>2 DEF Upto
<1>5. ASSUME NEW i \in kept, NEW j \in kept \ {i}
      PROVE  Upto(kept \ {i}, j) = IF i <= j THEN Upto(kept, j) - 1 ELSE Upto(kept, j)
  <2> DEFINE rest == {l \in kept \ {i} : l <= j}
  <2>1. rest = IF i <= j THEN upto(j) \ {i} ELSE upto(j)
    OBVIOUS
  <2>2. CASE i <= j
    <3>1. i \in upto(j) /\ j \in Int
      BY <2>2
    <3>2. Cardinality(upto(j) \ {i}) = Cardinality(upto(j)) - 1
      BY <1>2, <3>1, FS_RemoveElement
    <3> QED BY <2>1, <2>2, <3>2 DEF Upto
  <2>3. CASE ~(i <= j)
    BY <2>1, <2>3 DEF Upto
  <2> QED BY <2>2, <2>3
<1>6. \A i \in kept : Cardinality(kept \ {i}) = Cardinality(kept) - 1
  BY <1>1, FS_RemoveElement
<1> QED BY <1>1, <1>3, <1>4, <1>5, <1>6

-----------------------------------------------------------------------------
(* A register row by row.  The rows that are left when some were removed   *)
(* stand in their old order.                                               *)
ByRows(r) == [i \in DOMAIN r[0] |-> [q \in Proc |-> r[q][i]]]
Row(r, i) == [q \in Proc |-> r[q][i]]
OfRows(rows, r, kept) ==
  /\ rows \in Seq([Proc -> Addr]) /\ Len(rows) = Cardinality(kept)
  /\ \A i \in kept : rows[Upto(kept, i)] = Row(r, i)

LEMMA ByRowsTyped ==
  ASSUME NEW r \in Registers
  PROVE  /\ ByRows(r) \in Seq([Proc -> Addr]) /\ Len(ByRows(r)) = Len(r[0])
         /\ DOMAIN ByRows(r) = 1 .. Len(r[0]) /\ Len(r[0]) \in Nat
         /\ \A i \in 1 .. Len(r[0]) : ByRows(r)[i] = Row(r, i) /\ Row(r, i) \in [Proc -> Addr]
<1> DEFINE n == Len(r[0])
<1>1. n \in Nat /\ DOMAIN r[0] = 1 .. n /\ r \in [Proc -> Seq(Addr)] /\ \A q \in Proc : Len(r[q]) = n
  BY ZeroIsProcess DEF Registers
<1> HIDE DEF n
<1>2. ASSUME NEW i \in 1 .. n PROVE Row(r, i) \in [Proc -> Addr]
  <2>1. ASSUME NEW q \in Proc PROVE r[q][i] \in Addr
    <3>1. r[q] \in Seq(Addr) /\ Len(r[q]) = n
      BY <1>1
    <3> QED BY <3>1
  <2> QED BY <2>1 DEF Row
<1>3. ByRows(r) = [i \in 1 .. n |-> Row(r, i)]
  BY <1>1 DEF ByRows, Row
<1>4. ByRows(r) \in Seq([Proc -> Addr]) /\ Len(ByRows(r)) = n
  BY <1>1, <1>2, <1>3
<1> QED BY <1>1, <1>2, <1>3, <1>4 DEF n

LEMMA OneListing ==
  ASSUME NEW n \in Nat, NEW r, NEW kept \in SUBSET (1 .. n), NEW rows, NEW others,
         OfRows(rows, r, kept), OfRows(others, r, kept)
  PROVE  rows = others
<1> DEFINE m == Cardinality(kept)
<1>1. m \in Nat
  BY UptoIsNumber
<1>2. ASSUME NEW k \in 1 .. m PROVE rows[k] = others[k]
  <2>1. PICK i \in kept : Upto(kept, i) = k
    BY KthElement DEF Upto
  <2> QED BY <2>1 DEF OfRows
<1>3. /\ rows \in Seq([Proc -> Addr]) /\ Len(rows) = m
      /\ others \in Seq([Proc -> Addr]) /\ Len(others) = m
  BY DEF OfRows
<1> HIDE DEF m
<1> QED BY <1>1, <1>2, <1>3

LEMMA PackOfRows ==
  ASSUME NEW r \in Registers, NEW removed
  PROVE  OfRows(ByRows(Pack(r, removed)), r, Kept(r, removed))
<1> DEFINE kept == Kept(r, removed)
           m == Cardinality(kept)
           s == Pack(r, removed)
<1>1. /\ kept \in SUBSET (1 .. Len(r[0])) /\ Len(r[0]) \in Nat /\ m \in Nat
      /\ \A k \in 1 .. m : /\ KthRow(r, removed, k) \in kept
                            /\ Upto(kept, KthRow(r, removed, k)) = k
  BY KeptRows DEF Upto
<1>2. /\ s \in Registers /\ Len(s[0]) = m
      /\ \A q \in Proc, k \in 1 .. m : s[q][k] = r[q][KthRow(r, removed, k)]
  BY PackTyped, ZeroIsProcess
<1>3. /\ \A i \in kept : Upto(kept, i) \in 1 .. m
      /\ \A i, j \in kept : i < j => Upto(kept, i) < Upto(kept, j)
  <2> HIDE DEF kept
  <2> QED BY <1>1, UptoIsNumber
<1>4. ASSUME NEW i \in kept PROVE KthRow(r, removed, Upto(kept, i)) = i
  <2> DEFINE k == Upto(kept, i)
             j == KthRow(r, removed, k)
  <2>1. k \in 1 .. m /\ j \in kept /\ Upto(kept, j) = k
    BY <1>1, <1>3
  <2> HIDE DEF j, m, kept
  <2>2. k \in Int /\ i \in Int /\ j \in Int
    BY <1>1, <2>1
  <2> HIDE DEF k
  <2>3. ~(i < j) /\ ~(j < i)
    BY <1>3, <2>1, <2>2 DEF k
  <2>4. i = j
    BY <2>2, <2>3
  <2> QED BY <2>4 DEF j, k
<1>5. /\ ByRows(s) \in Seq([Proc -> Addr]) /\ Len(ByRows(s)) = m
      /\ \A k \in 1 .. m : ByRows(s)[k] = Row(s, k)
  <2> HIDE DEF s, m
  <2> QED BY <1>2, ByRowsTyped
<1> HIDE DEF s, m, kept
<1>6. ASSUME NEW i \in kept PROVE ByRows(s)[Upto(kept, i)] = Row(r, i)
  <2> DEFINE k == Upto(kept, i)
  <2>1. k \in 1 .. m /\ KthRow(r, removed, k) = i
    BY <1>3, <1>4
  <2> HIDE DEF k
  <2>2. Row(s, k) = Row(r, i)
    BY <1>2, <2>1 DEF Row
  <2> QED BY <1>5, <2>1, <2>2 DEF k
<1> QED BY <1>5, <1>6 DEF OfRows, m, kept, s

LEMMA AllOfRows ==
  ASSUME NEW r \in Registers
  PROVE  OfRows(ByRows(r), r, Kept(r, {}))
<1> DEFINE n == Len(r[0])
<1>1. n \in Nat /\ Kept(r, {}) = 1 .. n
  BY ZeroIsProcess DEF Kept, Registers
<1>2. /\ ByRows(r) \in Seq([Proc -> Addr]) /\ Len(ByRows(r)) = n
      /\ \A i \in 1 .. n : ByRows(r)[i] = Row(r, i)
  BY ByRowsTyped
<1> HIDE DEF n
<1>3. ASSUME NEW i \in 1 .. n PROVE Upto(1 .. n, i) = i
  <2>1. {j \in 1 .. n : j <= i} = 1 .. i
    BY <1>1
  <2>2. Cardinality(1 .. i) = i
    BY <1>1, FS_Interval
  <2> QED BY <2>1, <2>2 DEF Upto
<1>4. Cardinality(1 .. n) = n
  BY <1>1, FS_Interval
<1> QED BY <1>1, <1>2, <1>3, <1>4 DEF OfRows

(* Removing the last row that equals "at". *)
LEMMA WithoutOfRows ==
  ASSUME NEW n \in Nat, NEW r, NEW kept \in SUBSET (1 .. n), NEW rows, OfRows(rows, r, kept),
         NEW i \in kept, NEW at, at = Row(r, i), \A j \in kept : Row(r, j) = at => j <= i
  PROVE  OfRows(Abstract!Without(rows, at), r, kept \ {i})
<1> DEFINE m == Len(rows)
           c == Upto(kept, i)
           Last1(k) == k \in DOMAIN rows /\ rows[k] = at /\ \A j \in DOMAIN rows : rows[j] = at => j <= k
           last == CHOOSE k \in DOMAIN rows :
                     rows[k] = at /\ \A j \in DOMAIN rows : rows[j] = at => j <= k
           left == SubSeq(rows, 1, c-1) \o SubSeq(rows, c+1, m)
<1>1. /\ rows \in Seq([Proc -> Addr]) /\ m = Cardinality(kept) /\ m \in Nat /\ DOMAIN rows = 1 .. m
      /\ \A j \in kept : rows[Upto(kept, j)] = Row(r, j)
  BY DEF OfRows
<1>2. /\ \A j \in kept : Upto(kept, j) \in 1 .. m
      /\ \A j, k \in kept : j < k => Upto(kept, j) < Upto(kept, k)
      /\ \A j \in kept \ {i} :
           Upto(kept \ {i}, j) = IF i <= j THEN Upto(kept, j) - 1 ELSE Upto(kept, j)
      /\ Cardinality(kept \ {i}) = m - 1
  BY <1>1, UptoIsNumber
<1> HIDE DEF m
<1>3. Last1(c)
  <2>1. c \in 1 .. m /\ rows[c] = at
    BY <1>1, <1>2
  <2>2. ASSUME NEW k \in 1 .. m, rows[k] = at PROVE k <= c
    <3>1. PICK j \in kept : Upto(kept, j) = k
      BY ZenonT(40), <1>1, KthElement DEF Upto
    <3>2. j <= i /\ j \in Int /\ i \in Int
      BY <1>1, <2>2, <3>1
    <3> HIDE DEF c
    <3>3. CASE j = i
      BY <2>1, <3>1, <3>3 DEF c
    <3>4. CASE j < i
      <4>1. k < c
        BY <1>2, <3>1, <3>4 DEF c
      <4> QED BY <2>1, <4>1
    <3> QED BY <3>2, <3>3, <3>4
  <2> HIDE DEF c
  <2> QED BY <1>1, <2>1, <2>2
<1>4. last = c
  <2>1. Last1(last)
    <3> HIDE DEF c
    <3> QED BY <1>3
  <2> HIDE DEF last, c
  <2>2. last <= c /\ c <= last /\ last \in Int /\ c \in Int
    BY <1>1, <1>3, <2>1
  <2> QED BY <2>2
<1>5. Abstract!Without(rows, at) = left
  <2>1. Abstract!Without(rows, at) = SubSeq(rows, 1, last-1) \o SubSeq(rows, last+1, Len(rows))
    BY DEF Abstract!Without
  <2> HIDE DEF last, c
  <2> QED BY <1>4, <2>1 DEF m
<1>6. c \in 1 .. m
  BY <1>3, <1>1
<1> HIDE DEF c
<1>7. /\ left \in Seq([Proc -> Addr]) /\ Len(left) = m - 1
      /\ \A k \in 1 .. m-1 : left[k] = IF k < c THEN rows[k] ELSE rows[k+1]
  <2> DEFINE A == [Proc -> Addr]
             u == SubSeq(rows, 1, c-1)
             v == SubSeq(rows, c+1, m)
  <2>1. /\ u \in Seq(A) /\ Len(u) = c - 1 /\ \A k \in 1 .. c-1 : u[k] = rows[k]
        /\ v \in Seq(A) /\ Len(v) = m - c /\ \A k \in 1 .. m-c : v[k] = rows[c+k]
    <3> HIDE DEF A
    <3>1. rows \in Seq(A) /\ Len(rows) = m /\ DOMAIN rows = 1 .. m
      BY <1>1 DEF m, A
    <3>2. u \in Seq(A) /\ Len(u) = c - 1 /\ \A k \in 1 .. c-1 : u[k] = rows[k]
      BY <1>1, <1>6, <3>1
    <3>3. v \in Seq(A) /\ Len(v) = m - c /\ \A k \in 1 .. m-c : v[k] = rows[c+k]
      <4> HIDE DEF m, v
      <4>1. c + 1 \in Int /\ m \in Int /\ \A k \in c+1 .. m : rows[k] \in A
        BY <1>1, <1>6, <3>1
      <4>2. /\ v \in Seq(A) /\ Len(v) = IF c+1 <= m THEN m-(c+1)+1 ELSE 0
            /\ \A k \in 1 .. m-(c+1)+1 : v[k] = rows[c+1+k-1]
        BY <4>1, SubSeqProperties DEF v
      <4>3. \A k \in 1 .. m-c : k \in 1 .. m-(c+1)+1 /\ c+1+k-1 = c+k
        BY <1>1, <1>6
      <4>4. Len(v) = m - c
        BY <1>1, <1>6, <4>2
      <4>5. ASSUME NEW k \in 1 .. m-c PROVE v[k] = rows[c+k]
        BY <4>2, <4>3
      <4> QED BY <4>2, <4>4, <4>5
    <3> QED BY <3>2, <3>3
  <2> HIDE DEF u, v, A
  <2>2. /\ u \o v \in Seq(A) /\ Len(u \o v) = m - 1
        /\ \A k \in 1 .. m-1 : (u \o v)[k] = IF k < c THEN u[k] ELSE v[k-(c-1)]
    <3>1. /\ u \o v \in Seq(A) /\ Len(u \o v) = Len(u) + Len(v)
          /\ \A k \in 1 .. Len(u) + Len(v) :
               (u \o v)[k] = IF k <= Len(u) THEN u[k] ELSE v[k - Len(u)]
      BY <2>1, ConcatProperties
    <3>2. Len(u) + Len(v) = m - 1 /\ \A k \in 1 .. m-1 : k <= c-1 <=> k < c
      BY SMTT(30), <1>1, <1>6, <2>1
    <3> QED BY <2>1, <3>1, <3>2
  <2>3. ASSUME NEW k \in 1 .. m-1 PROVE (u \o v)[k] = IF k < c THEN rows[k] ELSE rows[k+1]
    <3>1. CASE k < c
      BY <1>1, <1>6, <2>1, <2>2, <3>1
    <3>2. CASE ~(k < c)
      <4>1. k - (c-1) \in 1 .. m-c /\ c + (k - (c-1)) = k + 1
        BY <1>1, <1>6, <3>2
      <4> QED BY <2>1, <2>2, <3>2, <4>1
    <3> QED BY <3>1, <3>2
  <2> QED BY <2>2, <2>3 DEF u, v, A
<1> HIDE DEF left
<1>8. ASSUME NEW j \in kept \ {i} PROVE left[Upto(kept \ {i}, j)] = Row(r, j)
  <2> DEFINE k == Upto(kept, j)
  <2>0. i \in Int /\ j \in Int /\ i # j /\ k \in 1 .. m
    BY <1>1, <1>2
  <2>1. CASE i <= j
    <3>1. c < k /\ Upto(kept \ {i}, j) = k - 1
      BY <1>2, <2>0, <2>1 DEF c
    <3> HIDE DEF k
    <3>2. k - 1 \in 1 .. m-1 /\ ~(k-1 < c) /\ (k-1) + 1 = k
      BY <1>1, <1>6, <2>0, <3>1
    <3>3. left[k-1] = rows[k]
      BY <1>7, <3>2
    <3> QED BY <1>1, <3>1, <3>3 DEF k
  <2>2. CASE ~(i <= j)
    <3>1. k < c /\ Upto(kept \ {i}, j) = k
      BY <1>2, <2>0, <2>2 DEF c
    <3> HIDE DEF k
    <3>2. k \in 1 .. m-1
      BY <1>1, <1>6, <2>0, <3>1
    <3>3. left[k] = rows[k]
      BY <1>7, <3>1, <3>2
    <3> QED BY <1>1, <3>1, <3>3 DEF k
  <2> QED BY <2>1, <2>2
<1> QED BY <1>2, <1>5, <1>7, <1>8 DEF OfRows
(* Removing row by row what bsp_pop_reg names, or packing the register     *)
(* once all rows to remove are marked.                                     *)
ColumnOf(rows, q) == [i \in DOMAIN rows |-> rows[i][q]]
PopsEverywhere(h, r, pop) == \A q \in Proc : PopsTo(h, r[q], ColumnOf(pop, q))

LEMMA ColumnOfTyped ==
  ASSUME NEW rows \in Seq([Proc -> Addr]), NEW q \in Proc
  PROVE  /\ ColumnOf(rows, q) \in Seq(Addr) /\ Len(ColumnOf(rows, q)) = Len(rows)
         /\ \A i \in 1 .. Len(rows) : ColumnOf(rows, q)[i] = rows[i][q] /\ rows[i] \in [Proc -> Addr]
<1>1. Len(rows) \in Nat /\ DOMAIN rows = 1 .. Len(rows)
  OBVIOUS
<1>2. \A i \in 1 .. Len(rows) : rows[i] \in [Proc -> Addr]
  <2> DEFINE A == [Proc -> Addr]
  <2>1. rows \in Seq(A)
    OBVIOUS
  <2> HIDE DEF A
  <2>2. \A i \in 1 .. Len(rows) : rows[i] \in A
    BY <2>1
  <2> QED BY <2>2 DEF A
<1>3. \A i \in 1 .. Len(rows) : rows[i][q] \in Addr
  BY <1>2
<1>4. ColumnOf(rows, q) = [i \in 1 .. Len(rows) |-> rows[i][q]]
  BY <1>1 DEF ColumnOf
<1> QED BY <1>1, <1>2, <1>3, <1>4

LEMMA OnePopped ==
  ASSUME NEW r \in Registers, NEW removed \in RowSets, NEW at \in [Proc -> Addr],
         NEW more, 0 \notin more,
         \A q \in Proc : more = removed \union {PoppedRow(r[q], removed, at[q])}
  PROVE  Abstract!Without(ByRows(Pack(r, removed)), at) = ByRows(Pack(r, more))
<1> DEFINE i == PoppedRow(r[0], removed, at[0])
           n == Len(r[0])
<1>1. \A q \in Proc : r[q] \in Seq(Addr) /\ Len(r[q]) = n /\ DOMAIN r[q] = 1 .. n /\ n \in Nat
  BY ZeroIsProcess DEF Registers
<1>2. ASSUME NEW q \in Proc
      PROVE  /\ PoppedRow(r[q], removed, at[q]) \in 1 .. n
             /\ LiveRow(r[q], removed, at[q], PoppedRow(r[q], removed, at[q]))
             /\ \A j \in 1 .. n : LiveRow(r[q], removed, at[q], j)
                                   => j <= PoppedRow(r[q], removed, at[q])
  <2>1. PoppedRow(r[q], removed, at[q]) # 0
    OBVIOUS
  <2>2. HasLiveRow(r[q], removed, at[q])
    BY <2>1 DEF PoppedRow
  <2>3. PoppedRow(r[q], removed, at[q]) = NewestLiveRow(r[q], removed, at[q])
    BY <2>2 DEF PoppedRow
  <2> QED BY <1>1, <2>2, <2>3, NewestRow
<1>3. \A q \in Proc : PoppedRow(r[q], removed, at[q]) = i
  <2> SUFFICES ASSUME NEW q \in Proc PROVE PoppedRow(r[q], removed, at[q]) = i
    OBVIOUS
  <2>1. PoppedRow(r[q], removed, at[q]) \notin removed
    BY <1>2 DEF LiveRow
  <2>2. i \notin removed
    BY <1>2, ZeroIsProcess DEF LiveRow
  <2>3. more = removed \union {PoppedRow(r[q], removed, at[q])} /\ more = removed \union {i}
    BY ZeroIsProcess
  <2> HIDE DEF i
  <2> QED BY <2>1, <2>2, <2>3
<1>4. i \in 1 .. n /\ i \notin removed /\ more = removed \union {i}
  BY <1>2, ZeroIsProcess DEF LiveRow
<1>5. at = Row(r, i)
  <2>1. \A q \in Proc : r[q][i] = at[q]
    <3> HIDE DEF i
    <3> QED BY <1>2, <1>3 DEF LiveRow
  <2> HIDE DEF i
  <2> QED BY <2>1 DEF Row
<1>6. \A j \in Kept(r, removed) : Row(r, j) = at => j <= i
  <2> SUFFICES ASSUME NEW j \in Kept(r, removed), Row(r, j) = at PROVE j <= i
    OBVIOUS
  <2>1. r[0][j] = at[0] /\ j \in 1 .. n /\ j \notin removed
    BY <1>1, ZeroIsProcess DEF Row, Kept
  <2>2. LiveRow(r[0], removed, at[0], j)
    BY <1>1, <2>1, ZeroIsProcess DEF LiveRow
  <2> QED BY <1>2, <2>1, <2>2, ZeroIsProcess
<1> HIDE DEF i
<1>7. Kept(r, removed) \in SUBSET (1 .. n) /\ i \in Kept(r, removed)
      /\ Kept(r, more) = Kept(r, removed) \ {i}
  BY <1>1, <1>4, ZeroIsProcess DEF Kept
<1>8. OfRows(Abstract!Without(ByRows(Pack(r, removed)), at), r, Kept(r, removed) \ {i})
  <2>1. OfRows(ByRows(Pack(r, removed)), r, Kept(r, removed))
    BY PackOfRows
  <2> HIDE DEF n
  <2> QED BY <1>1, <1>5, <1>6, <1>7, <2>1, WithoutOfRows, ZeroIsProcess
<1>9. OfRows(ByRows(Pack(r, more)), r, Kept(r, removed) \ {i})
  BY <1>7, PackOfRows
<1>10. Kept(r, removed) \ {i} \in SUBSET (1 .. n) /\ n \in Nat
  BY <1>1, <1>7, ZeroIsProcess
<1> DEFINE u == Abstract!Without(ByRows(Pack(r, removed)), at)
           v == ByRows(Pack(r, more))
           rest == Kept(r, removed) \ {i}
<1>11. OfRows(u, r, rest) /\ OfRows(v, r, rest) /\ rest \in SUBSET (1 .. n) /\ n \in Nat
  BY <1>8, <1>9, <1>10
<1> HIDE DEF n, u, v, rest
<1>12. u = v
  BY <1>11, OneListing
<1> QED BY <1>12 DEF u, v

PopsInTurn(f, start, pop) ==
  f = [n \in 0 .. Len(pop) |-> IF n = 0 THEN start ELSE Abstract!Without(f[n-1], pop[n])]

LEMMA PopsAreWithout ==
  ASSUME NEW r \in Registers, NEW pop \in Seq([Proc -> Addr]), NEW h,
         PopsEverywhere(h, r, pop), 0 \notin h[Len(pop)]
  PROVE  /\ \E f : PopsInTurn(f, ByRows(r), pop)
         /\ \A f : PopsInTurn(f, ByRows(r), pop) => f[Len(pop)] = ByRows(Pack(r, h[Len(pop)]))
<1> DEFINE L == Len(pop)
           left == [n \in 0 .. L |-> ByRows(Pack(r, h[n]))]
<1>1. L \in Nat
  OBVIOUS
<1>2. /\ h \in [0 .. L -> RowSets] /\ h[0] = {}
      /\ \A k \in 1 .. L : \A q \in Proc :
           h[k] = h[k-1] \union {PoppedRow(r[q], h[k-1], pop[k][q])}
  <2>1. \A q \in Proc : Len(ColumnOf(pop, q)) = L /\ \A k \in 1 .. L : ColumnOf(pop, q)[k] = pop[k][q]
    BY ColumnOfTyped
  <2> HIDE DEF L
  <2> QED BY <2>1, ZeroIsProcess DEF PopsEverywhere, PopsTo
<1>3. \A k \in 0 .. L : h[k] \subseteq h[L]
  <2>1. /\ r[0] \in Seq(Addr) /\ ColumnOf(pop, 0) \in Seq(Addr) /\ Len(ColumnOf(pop, 0)) = L
        /\ PopsTo(h, r[0], ColumnOf(pop, 0))
    BY ColumnOfTyped, ZeroIsProcess DEF Registers, PopsEverywhere
  <2> HIDE DEF L
  <2> QED BY <2>1, PopsGrow
<1>4. left[0] = ByRows(r)
  <2>1. OfRows(ByRows(Pack(r, {})), r, Kept(r, {})) /\ OfRows(ByRows(r), r, Kept(r, {}))
    BY PackOfRows, AllOfRows
  <2>2. Kept(r, {}) \in SUBSET (1 .. Len(r[0])) /\ Len(r[0]) \in Nat
    BY KeptRows
  <2>3. ByRows(Pack(r, {})) = ByRows(r)
    BY <2>1, <2>2, OneListing
  <2>4. left[0] = ByRows(Pack(r, h[0]))
    <3> HIDE DEF L
    <3> QED BY <1>1
  <2> HIDE DEF left
  <2> QED BY <1>2, <2>3, <2>4
<1>5. ASSUME NEW k \in 1 .. L PROVE left[k] = Abstract!Without(left[k-1], pop[k])
  <2>1. k - 1 \in 0 .. L /\ k \in 0 .. L
    BY <1>1
  <2>2. pop[k] \in [Proc -> Addr] /\ h[k-1] \in RowSets /\ 0 \notin h[k]
    <3>1. pop[k] \in [Proc -> Addr]
      BY ColumnOfTyped, ZeroIsProcess
    <3> HIDE DEF L
    <3> QED BY <1>2, <1>3, <2>1, <3>1 DEF L
  <2>3. Abstract!Without(ByRows(Pack(r, h[k-1])), pop[k]) = ByRows(Pack(r, h[k]))
    <3> DEFINE removed == h[k-1]
               more == h[k]
               at == pop[k]
    <3>1. removed \in RowSets /\ at \in [Proc -> Addr] /\ 0 \notin more
          /\ \A q \in Proc : more = removed \union {PoppedRow(r[q], removed, at[q])}
      BY <1>2, <2>2
    <3> HIDE DEF removed, more, at
    <3>2. Abstract!Without(ByRows(Pack(r, removed)), at) = ByRows(Pack(r, more))
      BY <3>1, OnePopped
    <3> QED BY <3>2 DEF removed, more, at
  <2>4. left[k] = ByRows(Pack(r, h[k])) /\ left[k-1] = ByRows(Pack(r, h[k-1]))
    <3> HIDE DEF L
    <3> QED BY <2>1
  <2> HIDE DEF left
  <2> QED BY <2>3, <2>4
<1>6. PopsInTurn(left, ByRows(r), pop)
  <2>1. left = [n \in 0 .. L |-> left[n]]
    OBVIOUS
  <2>2. \A n \in 0 .. L : left[n] = IF n = 0 THEN ByRows(r) ELSE Abstract!Without(left[n-1], pop[n])
    <3> HIDE DEF left, L
    <3> QED BY <1>1, <1>4, <1>5
  <2>3. left = [n \in 0 .. L |-> IF n = 0 THEN ByRows(r) ELSE Abstract!Without(left[n-1], pop[n])]
    <3> HIDE DEF left, L
    <3> QED BY <2>1, <2>2
  <2> HIDE DEF left
  <2> QED BY <2>3 DEF PopsInTurn
<1>7. ASSUME NEW after, PopsInTurn(after, ByRows(r), pop)
      PROVE  after[L] = ByRows(Pack(r, h[L]))
  <2>1. after[0] = left[0] /\ \A k \in 1 .. L : after[k] = Abstract!Without(after[k-1], pop[k])
    <3>1. after = [n \in 0 .. L |-> IF n = 0 THEN ByRows(r) ELSE Abstract!Without(after[n-1], pop[n])]
      BY <1>7 DEF PopsInTurn
    <3> HIDE DEF L, left
    <3> QED BY <1>1, <1>4, <3>1
  <2>2. GoTogether(after, left, L)
    <3> HIDE DEF left
    <3> QED BY <1>5, <2>1 DEF GoTogether
  <2>3. after[L] = left[L]
    <3> HIDE DEF left, L
    <3> QED BY <1>1, <2>2, RecursionsAgree
  <2> QED BY <1>1, <2>3
<1> QED BY <1>6, <1>7
-----------------------------------------------------------------------------
(* Writing column by column, or all columns at once where the last write   *)
(* stays.                                                                  *)

LEMMA WritesAre ==
  ASSUME NEW a, NEW columns \in [Proc -> Deliveries]
  PROVE  /\ \A q \in Proc : \A i \in DOMAIN columns[q].put :
              columns[q].put[i].dst = a => <<q, i>> \in WritesTo(a, columns)
         /\ \A w \in WritesTo(a, columns) :
              /\ w = <<w[1], w[2]>> /\ w[1] \in Proc /\ w[1] \in Int
              /\ w[2] \in DOMAIN columns[w[1]].put /\ w[2] \in Int
              /\ columns[w[1]].put[w[2]].dst = a
<1>1. ASSUME NEW q \in Proc, NEW i \in DOMAIN columns[q].put, columns[q].put[i].dst = a
      PROVE  <<q, i>> \in WritesTo(a, columns)
  BY <1>1 DEF WritesTo
<1>2. ASSUME NEW w \in WritesTo(a, columns)
      PROVE  /\ w = <<w[1], w[2]>> /\ w[1] \in Proc /\ w[1] \in Int
             /\ w[2] \in DOMAIN columns[w[1]].put /\ w[2] \in Int
             /\ columns[w[1]].put[w[2]].dst = a
  <2>1. PICK q \in Proc, i \in UNION {DOMAIN columns[r].put : r \in Proc} : w = <<q, i>>
    BY DEF WritesTo
  <2>2. w[1] = q /\ w[2] = i /\ i \in DOMAIN columns[q].put /\ columns[q].put[i].dst = a
    BY <2>1 DEF WritesTo
  <2>3. columns[q].put \in Seq([dst : Addr, val : Val])
    BY DEF Deliveries
  <2>4. q \in Nat /\ i \in Int
    BY <2>2, <2>3, ProcIsSmall
  <2> QED BY <2>1, <2>2, <2>4
<1> QED BY <1>1, <1>2

LEMMA LastStays ==
  ASSUME NEW columns \in [Proc -> Deliveries], NEW m, NEW a \in Addr,
         NEW w \in WritesTo(a, columns), \A v \in WritesTo(a, columns) : Later(w, v)
  PROVE  AfterPuts(m, columns)[a] = columns[w[1]].put[w[2]].val
<1> DEFINE W == WritesTo(a, columns)
           last == CHOOSE u \in W : \A v \in W : Later(u, v)
<1>1. AfterPuts(m, columns)[a] = IF W = {} THEN m[a] ELSE columns[last[1]].put[last[2]].val
  BY DEF AfterPuts
<1>2. last \in W /\ \A v \in W : Later(last, v)
  <2> HIDE DEF W
  <2> QED BY DEF W
<1>3. \A v \in W : v = <<v[1], v[2]>> /\ v[1] \in Int /\ v[2] \in Int
  BY WritesAre
<1> HIDE DEF last, W
<1>4. Later(last, w) /\ Later(w, last) /\ w \in W
  BY <1>2 DEF W
<1>5. last[1] = w[1] /\ last[2] = w[2]
  BY <1>2, <1>3, <1>4 DEF Later
<1> QED BY <1>1, <1>4, <1>5

LEMMA SamePuts ==
  ASSUME NEW columns \in [Proc -> Deliveries], NEW others \in [Proc -> Deliveries], NEW m,
         \A q \in Proc : columns[q].put = others[q].put
  PROVE  AfterPuts(m, columns) = AfterPuts(m, others)
<1>1. \A a : WritesTo(a, columns) = WritesTo(a, others)
  BY DEF WritesTo
<1>2. ASSUME NEW a \in Addr PROVE AfterPuts(m, columns)[a] = AfterPuts(m, others)[a]
  <2>1. CASE WritesTo(a, columns) = {}
    BY <1>1, <2>1 DEF AfterPuts
  <2>2. CASE WritesTo(a, columns) # {}
    <3>1. PICK w \in WritesTo(a, columns) : \A v \in WritesTo(a, columns) : Later(w, v)
      BY <2>2, LastWrite
    <3>2. AfterPuts(m, columns)[a] = columns[w[1]].put[w[2]].val
      BY <3>1, LastStays
    <3>3. w \in WritesTo(a, others) /\ \A v \in WritesTo(a, others) : Later(w, v)
      BY <1>1, <3>1
    <3>4. AfterPuts(m, others)[a] = others[w[1]].put[w[2]].val
      BY <3>3, LastStays
    <3>5. w[1] \in Proc
      BY WritesAre
    <3> QED BY <3>2, <3>4, <3>5
  <2> QED BY <2>1, <2>2
<1>3. DOMAIN AfterPuts(m, columns) = Addr /\ DOMAIN AfterPuts(m, others) = Addr
      /\ AfterPuts(m, columns) = [a \in Addr |-> AfterPuts(m, columns)[a]]
      /\ AfterPuts(m, others) = [a \in Addr |-> AfterPuts(m, others)[a]]
  BY DEF AfterPuts
<1> QED BY <1>2, <1>3

(* One column more. *)
LEMMA NextColumn ==
  ASSUME NEW columns \in [Proc -> Deliveries], NEW before \in [Proc -> Deliveries],
         NEW m \in [Addr -> Val], NEW a \in Addr, NEW k \in Proc,
         \A q \in Proc : before[q].put = IF q < k THEN columns[q].put ELSE <<>>,
         \A q \in Proc : k < q => columns[q].put = <<>>
  PROVE  AfterPuts(m, columns)[a] = Abstract!LastOf(columns[k].put, a, AfterPuts(m, before)[a])
<1> DEFINE writes == columns[k].put
           n == Len(writes)
           hits == {i \in DOMAIN writes : writes[i].dst = a}
           old == AfterPuts(m, before)[a]
<1>1. n \in Nat /\ DOMAIN writes = 1 .. n /\ k \in Int
  <2>1. writes \in Seq([dst : Addr, val : Val])
    BY DEF Deliveries
  <2> QED BY <2>1, ProcIsSmall
<1>2. CASE hits = {}
  <2>1. Abstract!LastOf(writes, a, old) = old
    <3> HIDE DEF old, writes
    <3> QED BY <1>2 DEF Abstract!LastOf
  <2>2. \A w \in WritesTo(a, columns) : w[1] < k
    <3> SUFFICES ASSUME NEW w \in WritesTo(a, columns) PROVE w[1] < k
      OBVIOUS
    <3>1. w[1] \in Proc /\ w[1] \in Int /\ w[2] \in DOMAIN columns[w[1]].put
          /\ columns[w[1]].put[w[2]].dst = a
      BY WritesAre
    <3>2. w[1] # k
      BY <1>2, <3>1
    <3>3. ~(k < w[1])
      BY <3>1
    <3> QED BY <1>1, <3>1, <3>2, <3>3
  <2>3. \A w \in WritesTo(a, before) : w[1] < k
    <3> SUFFICES ASSUME NEW w \in WritesTo(a, before) PROVE w[1] < k
      OBVIOUS
    <3>1. w[1] \in Proc /\ w[2] \in DOMAIN before[w[1]].put
      BY WritesAre
    <3> QED BY <3>1
  <2>4. ASSUME NEW w, w \in WritesTo(a, columns) PROVE w \in WritesTo(a, before)
    <3>1. /\ w = <<w[1], w[2]>> /\ w[1] \in Proc /\ w[2] \in DOMAIN columns[w[1]].put
          /\ columns[w[1]].put[w[2]].dst = a /\ w[1] < k
      BY <2>2, <2>4, WritesAre
    <3>2. before[w[1]].put = columns[w[1]].put
      BY <3>1
    <3>3. <<w[1], w[2]>> \in WritesTo(a, before)
      BY <3>1, <3>2, WritesAre
    <3> QED BY <3>1, <3>3
  <2>5. ASSUME NEW w, w \in WritesTo(a, before) PROVE w \in WritesTo(a, columns)
    <3>1. /\ w = <<w[1], w[2]>> /\ w[1] \in Proc /\ w[2] \in DOMAIN before[w[1]].put
          /\ before[w[1]].put[w[2]].dst = a /\ w[1] < k
      BY <2>3, <2>5, WritesAre
    <3>2. before[w[1]].put = columns[w[1]].put
      BY <3>1
    <3>3. <<w[1], w[2]>> \in WritesTo(a, columns)
      BY <3>1, <3>2, WritesAre
    <3> QED BY <3>1, <3>3
  <2>6. WritesTo(a, columns) = WritesTo(a, before)
    BY <2>4, <2>5
  <2>7. AfterPuts(m, columns)[a] = old
    <3>1. CASE WritesTo(a, columns) = {}
      BY <2>6, <3>1 DEF AfterPuts
    <3>2. CASE WritesTo(a, columns) # {}
      <4>1. PICK w \in WritesTo(a, columns) : \A v \in WritesTo(a, columns) : Later(w, v)
        BY <3>2, LastWrite
      <4>2. AfterPuts(m, columns)[a] = columns[w[1]].put[w[2]].val
        BY <4>1, LastStays
      <4>3. AfterPuts(m, before)[a] = before[w[1]].put[w[2]].val
        BY <2>6, <4>1, LastStays
      <4>4. before[w[1]].put = columns[w[1]].put
        BY <2>2, WritesAre
      <4> QED BY <4>2, <4>3, <4>4
    <3> QED BY <3>1, <3>2
  <2> QED BY <2>1, <2>7
<1>3. CASE hits # {}
  <2> DEFINE i == Max(hits)
  <2>1. i \in hits /\ \A j \in hits : j <= i
    <3>1. hits \in SUBSET (0 .. n)
      BY <1>1
    <3> HIDE DEF hits, n
    <3> QED BY <1>1, <1>3, <3>1, MaxOfInterval
  <2> HIDE DEF i
  <2>2. <<k, i>> \in WritesTo(a, columns)
    BY <2>1, WritesAre
  <2>3. ASSUME NEW v \in WritesTo(a, columns) PROVE Later(<<k, i>>, v)
    <3>1. v[1] \in Proc /\ v[1] \in Int /\ v[2] \in DOMAIN columns[v[1]].put
          /\ columns[v[1]].put[v[2]].dst = a
      BY WritesAre
    <3>2. ~(k < v[1])
      BY <3>1
    <3>3. v[1] = k => v[2] \in hits
      BY <3>1
    <3>4. v[1] = k => i >= v[2]
      <4> HIDE DEF hits
      <4>1. hits \subseteq Int
        BY <1>1 DEF hits
      <4> QED BY <2>1, <3>3, <4>1
    <3> HIDE DEF hits
    <3> QED BY <1>1, <3>1, <3>2, <3>4 DEF Later
  <2>4. AfterPuts(m, columns)[a] = writes[i].val
    <3>1. AfterPuts(m, columns)[a] = columns[<<k, i>>[1]].put[<<k, i>>[2]].val
      BY <2>2, <2>3, LastStays
    <3> QED BY <3>1
  <2>5. (CHOOSE j \in hits : \A l \in hits : l <= j) = i
    <3> DEFINE c == CHOOSE j \in hits : \A l \in hits : l <= j
    <3>1. c \in hits /\ \A l \in hits : l <= c
      <4> HIDE DEF hits
      <4> QED BY <2>1
    <3> HIDE DEF c
    <3>2. c \in Int /\ i \in Int
      BY <1>1, <2>1, <3>1
    <3> HIDE DEF hits
    <3>3. c = i
      BY <2>1, <3>1, <3>2
    <3> QED BY <3>3 DEF c
  <2>6. Abstract!LastOf(writes, a, old) = writes[CHOOSE j \in hits : \A l \in hits : l <= j].val
    <3> HIDE DEF old, writes
    <3> QED BY <1>3 DEF Abstract!LastOf
  <2> HIDE DEF hits, old
  <2> QED BY <2>4, <2>5, <2>6 DEF old
<1> QED BY <1>2, <1>3
(* The columns of a process that only puts go to. *)
OfPuts(puts) == [q \in Proc |-> [EmptyColumn EXCEPT !.put = puts[q]]]

LEMMA OfPutsTyped ==
  ASSUME NEW puts \in [Proc -> Seq(Write1)]
  PROVE  /\ OfPuts(puts) \in [Proc -> Deliveries]
         /\ \A q \in Proc : OfPuts(puts)[q].put = puts[q]
<1>1. ASSUME NEW q \in Proc
      PROVE  /\ [EmptyColumn EXCEPT !.put = puts[q]] \in Deliveries
             /\ [EmptyColumn EXCEPT !.put = puts[q]].put = puts[q]
  <2> DEFINE W == Seq(Write1)
             c == puts[q]
  <2>1. c \in W
    OBVIOUS
  <2>2. W = Seq([dst : Addr, val : Val])
    BY DEF Write1
  <2> HIDE DEF c, W
  <2>3. [EmptyColumn EXCEPT !.put = c] = [put |-> c, push |-> <<>>, send |-> <<>>, pop |-> <<>>, tag |-> <<>>]
    BY DEF EmptyColumn
  <2>4. [put |-> c, push |-> <<>>, send |-> <<>>, pop |-> <<>>, tag |-> <<>>] \in Deliveries
    BY <2>1, <2>2 DEF Deliveries
  <2> QED BY <2>3, <2>4 DEF c
<1> QED BY <1>1 DEF OfPuts

SourcesInTurn(f, m, puts) ==
  f = [n \in 0 .. N |-> IF n = 0 THEN m
                        ELSE [a \in Addr |-> Abstract!LastOf(puts[n-1], a, f[n-1][a])]]

LEMMA ColumnsInTurn ==
  ASSUME NEW m \in [Addr -> Val], NEW puts \in [Proc -> Seq(Write1)]
  PROVE  /\ \E f : SourcesInTurn(f, m, puts)
         /\ \A f : SourcesInTurn(f, m, puts) => f[N] = AfterPuts(m, OfPuts(puts))
<1> DEFINE Step(f, n) == [a \in Addr |-> Abstract!LastOf(puts[n-1], a, f[n-1][a])]
           first == [n \in 0 .. N |-> [q \in Proc |-> IF q < n THEN puts[q] ELSE <<>>]]
           columns(n) == OfPuts(first[n])
           written == [n \in 0 .. N |-> AfterPuts(m, columns(n))]
<1>1. N \in Nat /\ \A n \in 1 .. N : n \in Nat /\ n-1 \in 0 .. N /\ n-1 \in Proc /\ n \in 0 .. N
  BY NAssumption DEF Proc
<1>2. ASSUME NEW n \in 0 .. N
      PROVE  /\ first[n] \in [Proc -> Seq(Write1)]
             /\ \A q \in Proc : first[n][q] = IF q < n THEN puts[q] ELSE <<>>
  BY EmptySeq
<1> HIDE DEF first
<1>3. ASSUME NEW n \in 0 .. N
      PROVE  /\ columns(n) \in [Proc -> Deliveries]
             /\ \A q \in Proc : columns(n)[q].put = IF q < n THEN puts[q] ELSE <<>>
  BY <1>2, OfPutsTyped
<1> HIDE DEF columns
<1>4. written[0] = m
  <2>1. \A a : WritesTo(a, columns(0)) = {}
    <3> SUFFICES ASSUME NEW a, NEW w \in WritesTo(a, columns(0)) PROVE FALSE
      OBVIOUS
    <3>1. 0 \in 0 .. N
      BY <1>1
    <3>2. columns(0) \in [Proc -> Deliveries]
      BY <1>3, <3>1
    <3>3. w[1] \in Proc /\ w[2] \in DOMAIN columns(0)[w[1]].put
      BY <3>2, WritesAre
    <3>4. ~(w[1] < 0)
      BY <3>3, ProcIsSmall
    <3> QED BY <1>3, <3>1, <3>3, <3>4
  <2>2. AfterPuts(m, columns(0)) = [a \in Addr |-> m[a]]
    BY <2>1 DEF AfterPuts
  <2> QED BY <1>1, <2>2
<1>5. ASSUME NEW n \in 1 .. N PROVE written[n] = Step(written, n)
  <2> DEFINE k == n - 1
  <2>1. k \in Proc /\ k \in 0 .. N /\ n \in 0 .. N /\ k \in Int /\ n \in Int
    BY <1>1
  <2>2. columns(n) \in [Proc -> Deliveries] /\ columns(k) \in [Proc -> Deliveries]
    BY <1>3, <2>1
  <2>3. \A q \in Proc : q \in Int /\ columns(k)[q].put = IF q < k THEN columns(n)[q].put ELSE <<>>
    <3> SUFFICES ASSUME NEW q \in Proc
                 PROVE  q \in Int /\ columns(k)[q].put = IF q < k THEN columns(n)[q].put ELSE <<>>
      OBVIOUS
    <3>1. q \in Int /\ columns(k)[q].put = (IF q < k THEN puts[q] ELSE <<>>)
          /\ columns(n)[q].put = (IF q < n THEN puts[q] ELSE <<>>)
      BY <1>3, <2>1, ProcIsSmall
    <3>2. q < k => q < n
      BY <2>1, <3>1
    <3> QED BY <3>1, <3>2
  <2>4. \A q \in Proc : k < q => columns(n)[q].put = <<>>
    <3> SUFFICES ASSUME NEW q \in Proc, k < q PROVE columns(n)[q].put = <<>>
      OBVIOUS
    <3>1. ~(q < n)
      BY <2>1, <2>3
    <3> QED BY <1>3, <2>1, <3>1
  <2>5. columns(n)[k].put = puts[k]
    <3>1. k < n
      BY <2>1
    <3> QED BY <1>3, <2>1, <3>1
  <2> HIDE DEF k
  <2>6. ASSUME NEW a \in Addr
        PROVE  AfterPuts(m, columns(n))[a] = Abstract!LastOf(puts[k], a, AfterPuts(m, columns(k))[a])
    <3>1. \A d, e \in [Proc -> Deliveries], j \in Proc :
            /\ \A q \in Proc : e[q].put = IF q < j THEN d[q].put ELSE <<>>
            /\ \A q \in Proc : j < q => d[q].put = <<>>
            => AfterPuts(m, d)[a] = Abstract!LastOf(d[j].put, a, AfterPuts(m, e)[a])
      <4> SUFFICES ASSUME NEW d \in [Proc -> Deliveries], NEW e \in [Proc -> Deliveries],
                          NEW j \in Proc,
                          \A q \in Proc : e[q].put = IF q < j THEN d[q].put ELSE <<>>,
                          \A q \in Proc : j < q => d[q].put = <<>>
                   PROVE  AfterPuts(m, d)[a] = Abstract!LastOf(d[j].put, a, AfterPuts(m, e)[a])
        OBVIOUS
      <4> QED BY NextColumn
    <3>2. k \in Proc
      BY <2>1
    <3>3. AfterPuts(m, columns(n))[a] = Abstract!LastOf(columns(n)[k].put, a, AfterPuts(m, columns(k))[a])
      BY <2>2, <2>3, <2>4, <3>1, <3>2
    <3> QED BY <2>5, <3>3
  <2>7. AfterPuts(m, columns(n)) = [a \in Addr |-> AfterPuts(m, columns(n))[a]]
    BY DEF AfterPuts
  <2>8. written[n] = AfterPuts(m, columns(n)) /\ written[k] = AfterPuts(m, columns(k))
    BY <2>1
  <2> HIDE DEF written
  <2>9. written[n] = [a \in Addr |-> Abstract!LastOf(puts[k], a, written[k][a])]
    BY <2>6, <2>7, <2>8
  <2> QED BY <2>9 DEF k
<1>6. SourcesInTurn(written, m, puts)
  <2>1. written = [n \in 0 .. N |-> written[n]]
    OBVIOUS
  <2> HIDE DEF written
  <2>2. ASSUME NEW n \in 0 .. N PROVE written[n] = IF n = 0 THEN m ELSE Step(written, n)
    <3>1. n # 0 => n \in 1 .. N
      BY <1>1
    <3> HIDE DEF Step
    <3> QED BY <1>4, <1>5, <3>1
  <2> QED BY <2>1, <2>2 DEF SourcesInTurn
<1> HIDE DEF written
<1>7. ASSUME NEW after, SourcesInTurn(after, m, puts)
      PROVE  after[N] = AfterPuts(m, OfPuts(puts))
  <2>1. after[0] = written[0] /\ \A n \in 1 .. N : after[n] = Step(after, n)
    <3>1. /\ 0 \in 0 .. N /\ \A n \in 1 .. N : n \in 0 .. N /\ n # 0
      BY <1>1
    <3>2. after = [n \in 0 .. N |-> IF n = 0 THEN m ELSE Step(after, n)]
      BY <1>7 DEF SourcesInTurn
    <3> HIDE DEF Step
    <3>3. after[0] = m
      BY <3>1, <3>2
    <3>4. ASSUME NEW n \in 1 .. N PROVE after[n] = Step(after, n)
      BY <3>1, <3>2
    <3> QED BY <1>4, <3>3, <3>4
  <2>2. GoTogether(after, written, N)
    <3>1. ASSUME NEW n \in 1 .. N, after[n-1] = written[n-1] PROVE after[n] = written[n]
      BY <1>5, <2>1, <3>1
    <3> QED BY <2>1, <3>1 DEF GoTogether
  <2>3. after[N] = written[N]
    BY <1>1, <2>2, RecursionsAgree
  <2>4. written[N] = AfterPuts(m, columns(N))
    BY <1>1 DEF written
  <2>5. AfterPuts(m, columns(N)) = AfterPuts(m, OfPuts(puts))
    <3> DEFINE d == columns(N)
               e == OfPuts(puts)
    <3>1. N \in 0 .. N /\ \A q \in Proc : q < N
      BY <1>1, ProcIsSmall
    <3>2. d \in [Proc -> Deliveries] /\ \A q \in Proc : d[q].put = puts[q]
      BY <1>3, <3>1
    <3>3. e \in [Proc -> Deliveries] /\ \A q \in Proc : e[q].put = puts[q]
      BY OfPutsTyped
    <3> HIDE DEF d, e
    <3>4. AfterPuts(m, d) = AfterPuts(m, e)
      BY <3>2, <3>3, SamePuts
    <3> QED BY <3>4 DEF d, e
  <2>6. after[N] = AfterPuts(m, OfPuts(puts))
    BY <2>3, <2>4, <2>5
  <2> QED BY <2>6
<1> QED BY <1>6, <1>7

-----------------------------------------------------------------------------
(* The newest registration of an address. *)
LEMMA SameRow ==
  ASSUME NEW r \in Registers, NEW p \in Proc, NEW a
  PROVE  /\ Abstract!IsRegistered(ByRows(r), p, a) <=> HasLiveRow(r[p], {}, a)
         /\ HasLiveRow(r[p], {}, a) =>
              \A q \in Proc : ByRows(r)[Abstract!Newest(ByRows(r), p, a)][q] = Counterpart(r, p, q, a)
<1> DEFINE rows == ByRows(r)
           n == Len(r[0])
           i == NewestLiveRow(r[p], {}, a)
           Newest(j) == /\ j \in DOMAIN rows /\ rows[j][p] = a
                        /\ \A k \in DOMAIN rows : rows[k][p] = a => k <= j
           j == CHOOSE j \in DOMAIN rows :
                  rows[j][p] = a /\ \A k \in DOMAIN rows : rows[k][p] = a => k <= j
<1>1. /\ DOMAIN rows = 1 .. n /\ n \in Nat
      /\ \A k \in 1 .. n : \A q \in Proc : rows[k][q] = r[q][k]
  <2>1. /\ DOMAIN rows = 1 .. n /\ n \in Nat
        /\ \A k \in 1 .. n : rows[k] = Row(r, k)
    BY ByRowsTyped
  <2> HIDE DEF rows, n
  <2>2. \A k \in 1 .. n : \A q \in Proc : Row(r, k)[q] = r[q][k]
    BY DEF Row
  <2> QED BY <2>1, <2>2
<1>2. r[p] \in Seq(Addr) /\ DOMAIN r[p] = 1 .. n /\ Len(r[p]) = n
  BY DEF Registers
<1> HIDE DEF n, rows
<1>3. \A k \in 1 .. n : LiveRow(r[p], {}, a, k) <=> rows[k][p] = a
  BY <1>1, <1>2 DEF LiveRow
<1>4. (\E k \in DOMAIN rows : rows[k][p] = a) <=> HasLiveRow(r[p], {}, a)
  BY <1>1, <1>2, <1>3 DEF HasLiveRow
<1>5. ASSUME HasLiveRow(r[p], {}, a), NEW q \in Proc
      PROVE  rows[Abstract!Newest(rows, p, a)][q] = Counterpart(r, p, q, a)
  <2>1. /\ i \in 1 .. n /\ LiveRow(r[p], {}, a, i)
        /\ \A k \in 1 .. n : LiveRow(r[p], {}, a, k) => k <= i
    BY <1>2, <1>5, NewestRow
  <2> HIDE DEF i
  <2>2. Newest(i)
    BY <1>1, <1>3, <2>1
  <2>3. Newest(j)
    BY <2>2
  <2>4. j = Abstract!Newest(rows, p, a)
    BY DEF Abstract!Newest
  <2> HIDE DEF j
  <2>5. i = j
    <3>1. i <= j /\ j <= i /\ i \in Int /\ j \in Int
      BY <1>1, <2>1, <2>2, <2>3
    <3> QED BY <3>1
  <2>6. rows[i][q] = r[q][i]
    BY <1>1, <2>1
  <2> QED BY <2>4, <2>5, <2>6 DEF Counterpart, i
<1>6. Abstract!IsRegistered(rows, p, a) <=> \E k \in DOMAIN rows : rows[k][p] = a
  BY DEF Abstract!IsRegistered
<1> QED BY <1>4, <1>5, <1>6 DEF rows
-----------------------------------------------------------------------------
(* The invariant. *)

Payloads(messages) == [i \in DOMAIN messages |-> messages[i].payload_size]
Posted == [put : [Proc -> Seq(Write1)], get : [Proc -> Seq(Request)], send : [Proc -> Seq(Payload)],
           push : Seq([Proc -> Addr]), pop : Seq([Proc -> Addr])]

(* What the program of p passes for q in the calls made so far. *)
PassedFor(p, q, op) ==
  IF step[p] < Len(program.coll) THEN Args(Collectives(p), op, q)[done[p]] ELSE <<>>

(* The calls of the superstep are in the tables, until the answers to the  *)
(* gets join the puts.                                                     *)
Recorded(p) ==
  \A q \in Proc :
    /\ ColumnOf(posted[p].push, q) = PassedFor(p, q, "push")
    /\ ColumnOf(posted[p].pop, q) = PassedFor(p, q, "pop")
    /\ posted[p].get[q] = reqTab[p][q]
    /\ pc[p] # "deliv" => /\ posted[p].put[q] = delTab[p][q].put
                          /\ posted[p].send[q] = Payloads(delTab[p][q].send)

Requests(p, q) == \A b \in InTransit(p, q) : b.kind = "req" => b.body = posted[p].get[q]

(* What is due from p to q, which is in bspx_sync, as deliveries of this   *)
(* superstep: it is on its way, behind at most one other block that q has  *)
(* to take, or p still has to send what was called for.                    *)
HasSent(p, q) == step[p] > step[q] \/ (step[p] = step[q] /\ pc[p] = "deliv")
Sent(p, q) == chan[p][q][IF pc[q] = "deliv" THEN 1 ELSE 2].body
DueWrites(p, q) == IF HasSent(p, q) THEN Sent(p, q).put ELSE Abstract!WritesFrom(p, q, posted)
DueMessages(p, q) == IF HasSent(p, q) THEN Payloads(Sent(p, q).send) ELSE posted[p].send[q]

(* The outcome fixed for a process that all have joined in bspx_sync.      *)
Aborts(q) ==
  0 \in PoppedRows(Pushed(reg[q], Collectives(q))[q], AllArgs(Collectives(q), "pop", q))
Settled(q) ==
  pc[q] # "compute" /\ Released(q) =>
    /\ outcome[q].mem = AfterPuts(mem[q], OfPuts([p \in Proc |-> DueWrites(p, q)]))
    /\ outcome[q].box = [p \in Proc |-> DueMessages(p, q)]
    /\ ~Aborts(q) => outcome[q].regs = ByRows(RowsAfter(reg[q], Collectives(q)))

RefInv ==
  /\ posted \in [Proc -> Posted]
  /\ \A p \in Proc : Recorded(p) /\ Settled(p)
  /\ \A p, q \in Proc : Requests(p, q)

-----------------------------------------------------------------------------
(* Where a process is in relation to the others. *)

LEMMA ReleasedInSync ==
  ASSUME ControlInv, NEW p \in Proc
  PROVE  /\ pc[p] \in {"req", "deliv"} => Released(p)
         /\ \A q \in Proc : pc[p] = "compute" => step[q] <= step[p]
         /\ \A q \in Proc : step[p] \in Nat /\ (step[p] > step[q] => pc[q] = "deliv")
<1>1. ASSUME NEW q \in Proc
      PROVE  /\ Meeting(p, q) /\ Meeting(q, p) /\ step[p] \in Nat /\ step[q] \in Nat
  BY DEF ControlInv, InStep, ControlTypeOK
<1>2. ASSUME NEW q \in Proc, pc[p] \in {"req", "deliv"}
      PROVE  step[q] > step[p] \/ (step[q] = step[p] /\ pc[q] # "compute")
  BY <1>1, <1>2 DEF Meeting, SameStep, Ahead, Behind
<1>3. ASSUME NEW q \in Proc, pc[p] = "compute" PROVE step[q] <= step[p]
  BY <1>1, <1>3 DEF Meeting, SameStep, Ahead, Behind
<1>4. ASSUME NEW q \in Proc, step[p] > step[q] PROVE pc[q] = "deliv"
  BY <1>1, <1>4 DEF Meeting, SameStep, Ahead, Behind
<1> QED BY <1>1, <1>2, <1>3, <1>4 DEF Released

(* A process that computes is waited for, or has sent its deliveries. *)
LEMMA ComputingHasSent ==
  ASSUME ControlInv, NEW p \in Proc, pc[p] = "compute", NEW q \in Proc, Released(q)
  PROVE  HasSent(p, q)
BY DEF Released, HasSent

(* It has no request on its way. *)
LEMMA NoRequests ==
  ASSUME ControlInv, NEW p \in Proc, pc[p] = "compute", NEW q \in Proc
  PROVE  \A b \in InTransit(p, q) : b.kind # "req"
<1>1. Meeting(p, q)
  BY DEF ControlInv, InStep
<1>2. None(p, q) \/ One(p, q, "deliv")
  BY <1>1 DEF Meeting, SameStep, Ahead, Behind
<1>3. CASE None(p, q)
  BY <1>3 DEF None, InTransit
<1>4. CASE One(p, q, "deliv")
  <2>1. PICK a : chan[p][q] = <<a>> /\ a.kind = "deliv"
    BY <1>4 DEF One, IsBlock
  <2> QED BY <2>1 DEF InTransit
<1> QED BY <1>2, <1>3, <1>4

(* What is due stays due. *)
LEMMA DueStays ==
  ASSUME NEW p \in Proc, NEW q \in Proc,
         \/ HasSent(p, q) /\ HasSent(p, q)' /\ Sent(p, q)' = Sent(p, q)
         \/ /\ ~HasSent(p, q) /\ ~HasSent(p, q)'
            /\ posted'[p] = posted[p] /\ posted'[q] = posted[q] /\ mem'[p] = mem[p]
  PROVE  DueWrites(p, q)' = DueWrites(p, q) /\ DueMessages(p, q)' = DueMessages(p, q)
<1>1. CASE HasSent(p, q) /\ HasSent(p, q)' /\ Sent(p, q)' = Sent(p, q)
  BY <1>1 DEF DueWrites, DueMessages
<1>2. CASE /\ ~HasSent(p, q) /\ ~HasSent(p, q)'
           /\ posted'[p] = posted[p] /\ posted'[q] = posted[q] /\ mem'[p] = mem[p]
  <2>1. Abstract!WritesFrom(p, q, posted)' = Abstract!WritesFrom(p, q, posted)
    BY <1>2 DEF Abstract!WritesFrom
  <2> QED BY <1>2, <2>1 DEF DueWrites, DueMessages
<1> QED BY <1>1, <1>2

SameDue(q) ==
  \A p \in Proc : DueWrites(p, q)' = DueWrites(p, q) /\ DueMessages(p, q)' = DueMessages(p, q)

LEMMA SettledStays ==
  ASSUME NEW q \in Proc, Settled(q),
         pc'[q] # "compute" /\ Released(q)' =>
           /\ pc[q] # "compute" /\ Released(q) /\ SameDue(q)
           /\ mem'[q] = mem[q] /\ reg'[q] = reg[q] /\ outcome'[q] = outcome[q]
           /\ step'[q] = step[q] /\ program' = program
  PROVE  Settled(q)'
<1> SUFFICES ASSUME (pc[q] # "compute" /\ Released(q))'
             PROVE  (/\ outcome[q].mem = AfterPuts(mem[q], OfPuts([p \in Proc |-> DueWrites(p, q)]))
                     /\ outcome[q].box = [p \in Proc |-> DueMessages(p, q)]
                     /\ ~Aborts(q) => outcome[q].regs = ByRows(RowsAfter(reg[q], Collectives(q))))'
  BY DEF Settled
<1>1. /\ pc[q] # "compute" /\ Released(q) /\ SameDue(q)
      /\ mem'[q] = mem[q] /\ reg'[q] = reg[q] /\ outcome'[q] = outcome[q]
      /\ step'[q] = step[q] /\ program' = program
  OBVIOUS
<1>2. /\ outcome[q].mem = AfterPuts(mem[q], OfPuts([p \in Proc |-> DueWrites(p, q)]))
      /\ outcome[q].box = [p \in Proc |-> DueMessages(p, q)]
      /\ ~Aborts(q) => outcome[q].regs = ByRows(RowsAfter(reg[q], Collectives(q)))
  BY <1>1 DEF Settled
<1>3. /\ [p \in Proc |-> DueWrites(p, q)]' = [p \in Proc |-> DueWrites(p, q)]
      /\ [p \in Proc |-> DueMessages(p, q)]' = [p \in Proc |-> DueMessages(p, q)]
  BY <1>1 DEF SameDue
<1>4. Collectives(q)' = Collectives(q) /\ (Aborts(q)' <=> Aborts(q))
  BY <1>1 DEF Aborts, Collectives
<1> QED BY <1>1, <1>2, <1>3, <1>4

LEMMA RecordedStays ==
  ASSUME NEW p \in Proc, Recorded(p), UNCHANGED program, step'[p] = step[p], done'[p] = done[p],
         posted'[p] = posted[p], reqTab'[p] = reqTab[p],
         pc'[p] # "deliv" => pc[p] # "deliv" /\ delTab'[p] = delTab[p]
  PROVE  Recorded(p)'
<1>1. \A q \in Proc, op \in {"push", "pop"} : PassedFor(p, q, op)' = PassedFor(p, q, op)
  BY DEF PassedFor, Collectives
<1> QED BY <1>1 DEF Recorded
-----------------------------------------------------------------------------
(* The calls of a superstep: they change the state of one process, which   *)
(* nothing due to others depends on any more.                              *)

LEMMA CallKeepsRef ==
  ASSUME ControlInv, RefInv, NEW p \in Proc, pc[p] = "compute",
         UNCHANGED <<pc, step, program, reg, chan, outcome>>,
         posted' \in [Proc -> Posted], Recorded(p)',
         \A r \in Proc \ {p} : /\ mem'[r] = mem[r] /\ posted'[r] = posted[r] /\ done'[r] = done[r]
                               /\ reqTab'[r] = reqTab[r] /\ delTab'[r] = delTab[r]
  PROVE  RefInv'
<1>1. ASSUME NEW q \in Proc PROVE Settled(q)'
  <2>1. Settled(q) /\ Released(q)' = Released(q)
    BY DEF RefInv, Released
  <2>2. ASSUME pc[q] # "compute", Released(q)
        PROVE  SameDue(q) /\ mem'[q] = mem[q]
    <3>1. q # p
      BY <2>2
    <3>2. ASSUME NEW r \in Proc PROVE DueWrites(r, q)' = DueWrites(r, q) /\ DueMessages(r, q)' = DueMessages(r, q)
      <4>1. (HasSent(r, q)' <=> HasSent(r, q)) /\ Sent(r, q)' = Sent(r, q)
        BY DEF HasSent, Sent
      <4>2. r = p => HasSent(r, q)
        BY <2>2, ComputingHasSent
      <4> QED BY <3>1, <4>1, <4>2, DueStays
    <3> QED BY <3>1, <3>2 DEF SameDue
  <2> QED BY <2>1, <2>2, SettledStays
<1>2. ASSUME NEW q \in Proc PROVE Recorded(q)'
  <2>1. CASE q = p
    BY <2>1
  <2>2. CASE q # p
    <3>1. Recorded(q)
      BY DEF RefInv
    <3> QED BY <2>2, <3>1, RecordedStays
  <2> QED BY <2>1, <2>2
<1>3. ASSUME NEW q \in Proc, NEW r \in Proc PROVE Requests(q, r)'
  <2>1. InTransit(q, r)' = InTransit(q, r) /\ Requests(q, r)
    BY DEF InTransit, RefInv
  <2>2. CASE q = p
    <3>1. \A b \in InTransit(q, r) : b.kind # "req"
      BY <2>2, NoRequests
    <3> QED BY <2>1, <3>1 DEF Requests
  <2>3. CASE q # p
    BY <2>1, <2>3 DEF Requests
  <2> QED BY <2>2, <2>3
<1> QED BY <1>1, <1>2, <1>3 DEF RefInv

(* What Bsplib sees of the library. *)
Phase == [p \in Proc |-> IF pc[p] = "compute" THEN "compute"
                         ELSE IF Released(p) THEN "released" ELSE "waiting"]
Box  == [p \in Proc |-> [q \in Proc |-> Payloads(mq[p].pending[q])]]
Regs == [p \in Proc |-> ByRows(reg[p])]
Seen == <<Phase, mem, Box, Regs, posted, outcome>>

LEMMA Unseen ==
  /\ UNCHANGED <<pc, step>> => UNCHANGED Phase
  /\ UNCHANGED mq => UNCHANGED Box
  /\ UNCHANGED reg => UNCHANGED Regs
  /\ UNCHANGED Seen => UNCHANGED Abstract!vars
BY DEF Phase, Box, Regs, Seen, Released, Abstract!vars, Payloads, ByRows

LEMMA AbstractPost ==
  ASSUME NEW p \in Proc, pc[p] = "compute", NEW made, UNCHANGED <<pc, step, mem, mq, reg>>,
         Record(p, made)
  PROVE  Abstract!Post(p, made)
<1>1. Phase[p] = "compute" /\ UNCHANGED <<Phase, Box, Regs>>
  BY Unseen DEF Phase
<1>2. posted' = [posted EXCEPT ![p] = made] /\ UNCHANGED <<mem, outcome>>
  BY DEF Record
<1> QED BY <1>1, <1>2 DEF Abstract!Post, Phase, Box, Regs, Payloads, ByRows

(* One call more. *)
AddPut(c, q, x) == [c EXCEPT !.put[q] = Append(@, x)]
AddGet(c, q, x) == [c EXCEPT !.get[q] = Append(@, x)]
AddSend(c, q, x) == [c EXCEPT !.send[q] = Append(@, x)]
AddPush(c, x) == [c EXCEPT !.push = Append(@, x)]
AddPop(c, x) == [c EXCEPT !.pop = Append(@, x)]

LEMMA PostedTyped ==
  ASSUME NEW c \in Posted
  PROVE  /\ c = [put |-> c.put, get |-> c.get, send |-> c.send, push |-> c.push, pop |-> c.pop]
         /\ c.put \in [Proc -> Seq(Write1)] /\ c.get \in [Proc -> Seq(Request)]
         /\ c.send \in [Proc -> Seq(Payload)]
         /\ c.push \in Seq([Proc -> Addr]) /\ c.pop \in Seq([Proc -> Addr])
BY DEF Posted

LEMMA OneListLonger ==
  ASSUME NEW S, NEW f \in [Proc -> Seq(S)], NEW q \in Proc, NEW x \in S
  PROVE  /\ [f EXCEPT ![q] = Append(@, x)] \in [Proc -> Seq(S)]
         /\ \A r \in Proc : [f EXCEPT ![q] = Append(@, x)][r] = IF r = q THEN Append(f[q], x) ELSE f[r]
OBVIOUS

(* A record of calls with one field changed. *)
LEMMA OneFieldChanged ==
  ASSUME NEW c, c = [put |-> c.put, get |-> c.get, send |-> c.send, push |-> c.push, pop |-> c.pop],
         NEW v
  PROVE  /\ [c EXCEPT !.put = v] = [put |-> v, get |-> c.get, send |-> c.send,
                                    push |-> c.push, pop |-> c.pop]
         /\ [c EXCEPT !.get = v] = [put |-> c.put, get |-> v, send |-> c.send,
                                    push |-> c.push, pop |-> c.pop]
         /\ [c EXCEPT !.send = v] = [put |-> c.put, get |-> c.get, send |-> v,
                                     push |-> c.push, pop |-> c.pop]
         /\ [c EXCEPT !.push = v] = [put |-> c.put, get |-> c.get, send |-> c.send,
                                     push |-> v, pop |-> c.pop]
         /\ [c EXCEPT !.pop = v] = [put |-> c.put, get |-> c.get, send |-> c.send,
                                    push |-> c.push, pop |-> v]
OBVIOUS

LEMMA AddedTyped ==
  ASSUME NEW c \in Posted, NEW q \in Proc
  PROVE  /\ \A x \in Write1 :
              /\ AddPut(c, q, x) = [put |-> [c.put EXCEPT ![q] = Append(@, x)], get |-> c.get,
                                    send |-> c.send, push |-> c.push, pop |-> c.pop]
              /\ AddPut(c, q, x) \in Posted
         /\ \A x \in Request :
              /\ AddGet(c, q, x) = [put |-> c.put, get |-> [c.get EXCEPT ![q] = Append(@, x)],
                                    send |-> c.send, push |-> c.push, pop |-> c.pop]
              /\ AddGet(c, q, x) \in Posted
         /\ \A x \in Payload :
              /\ AddSend(c, q, x) = [put |-> c.put, get |-> c.get,
                                     send |-> [c.send EXCEPT ![q] = Append(@, x)],
                                     push |-> c.push, pop |-> c.pop]
              /\ AddSend(c, q, x) \in Posted
         /\ \A x \in [Proc -> Addr] :
              /\ AddPush(c, x) = [put |-> c.put, get |-> c.get, send |-> c.send,
                                  push |-> Append(c.push, x), pop |-> c.pop]
              /\ AddPush(c, x) \in Posted
              /\ AddPop(c, x) = [put |-> c.put, get |-> c.get, send |-> c.send,
                                 push |-> c.push, pop |-> Append(c.pop, x)]
              /\ AddPop(c, x) \in Posted
<1>1. /\ c = [put |-> c.put, get |-> c.get, send |-> c.send, push |-> c.push, pop |-> c.pop]
      /\ c.put \in [Proc -> Seq(Write1)] /\ c.get \in [Proc -> Seq(Request)]
      /\ c.send \in [Proc -> Seq(Payload)]
      /\ c.push \in Seq([Proc -> Addr]) /\ c.pop \in Seq([Proc -> Addr])
  BY PostedTyped
<1>2. ASSUME NEW x \in Write1
      PROVE  /\ AddPut(c, q, x) = [put |-> [c.put EXCEPT ![q] = Append(@, x)], get |-> c.get,
                  send |-> c.send, push |-> c.push, pop |-> c.pop]
             /\ AddPut(c, q, x) \in Posted
  <2> DEFINE v == [c.put EXCEPT ![q] = Append(@, x)]
  <2>1. v \in [Proc -> Seq(Write1)]
    BY <1>1, OneListLonger
  <2>2. [c EXCEPT !.put = v] = [put |-> v, get |-> c.get,
                  send |-> c.send, push |-> c.push, pop |-> c.pop]
    BY <1>1, OneFieldChanged
  <2>3. AddPut(c, q, x) = [c EXCEPT !.put = v]
    BY DEF AddPut
  <2>4. [put |-> v, get |-> c.get,
                  send |-> c.send, push |-> c.push, pop |-> c.pop] \in Posted
    <3> HIDE DEF v
    <3> QED BY <1>1, <2>1 DEF Posted
  <2> QED BY <2>2, <2>3, <2>4
<1>3. ASSUME NEW x \in Request
      PROVE  /\ AddGet(c, q, x) = [put |-> c.put, get |-> [c.get EXCEPT ![q] = Append(@, x)],
                  send |-> c.send, push |-> c.push, pop |-> c.pop]
             /\ AddGet(c, q, x) \in Posted
  <2> DEFINE v == [c.get EXCEPT ![q] = Append(@, x)]
  <2>1. v \in [Proc -> Seq(Request)]
    BY <1>1, OneListLonger
  <2>2. [c EXCEPT !.get = v] = [put |-> c.put, get |-> v,
                  send |-> c.send, push |-> c.push, pop |-> c.pop]
    BY <1>1, OneFieldChanged
  <2>3. AddGet(c, q, x) = [c EXCEPT !.get = v]
    BY DEF AddGet
  <2>4. [put |-> c.put, get |-> v,
                  send |-> c.send, push |-> c.push, pop |-> c.pop] \in Posted
    <3> HIDE DEF v
    <3> QED BY <1>1, <2>1 DEF Posted
  <2> QED BY <2>2, <2>3, <2>4
<1>4. ASSUME NEW x \in Payload
      PROVE  /\ AddSend(c, q, x) = [put |-> c.put, get |-> c.get,
                  send |-> [c.send EXCEPT ![q] = Append(@, x)], push |-> c.push, pop |-> c.pop]
             /\ AddSend(c, q, x) \in Posted
  <2> DEFINE v == [c.send EXCEPT ![q] = Append(@, x)]
  <2>1. v \in [Proc -> Seq(Payload)]
    BY <1>1, OneListLonger
  <2>2. [c EXCEPT !.send = v] = [put |-> c.put, get |-> c.get,
                  send |-> v, push |-> c.push, pop |-> c.pop]
    BY <1>1, OneFieldChanged
  <2>3. AddSend(c, q, x) = [c EXCEPT !.send = v]
    BY DEF AddSend
  <2>4. [put |-> c.put, get |-> c.get,
                  send |-> v, push |-> c.push, pop |-> c.pop] \in Posted
    <3> HIDE DEF v
    <3> QED BY <1>1, <2>1 DEF Posted
  <2> QED BY <2>2, <2>3, <2>4
<1>5. ASSUME NEW x \in [Proc -> Addr]
      PROVE  /\ AddPush(c, x) = [put |-> c.put, get |-> c.get,
                  send |-> c.send, push |-> Append(c.push, x), pop |-> c.pop]
             /\ AddPush(c, x) \in Posted
  <2> DEFINE v == Append(c.push, x)
  <2>1. v \in Seq([Proc -> Addr])
    BY <1>1
  <2>2. [c EXCEPT !.push = v] = [put |-> c.put, get |-> c.get,
                  send |-> c.send, push |-> v, pop |-> c.pop]
    BY <1>1, OneFieldChanged
  <2>3. AddPush(c, x) = [c EXCEPT !.push = v]
    BY DEF AddPush
  <2>4. [put |-> c.put, get |-> c.get,
                  send |-> c.send, push |-> v, pop |-> c.pop] \in Posted
    <3> HIDE DEF v
    <3> QED BY <1>1, <2>1 DEF Posted
  <2> QED BY <2>2, <2>3, <2>4
<1>6. ASSUME NEW x \in [Proc -> Addr]
      PROVE  /\ AddPop(c, x) = [put |-> c.put, get |-> c.get,
                  send |-> c.send, push |-> c.push, pop |-> Append(c.pop, x)]
             /\ AddPop(c, x) \in Posted
  <2> DEFINE v == Append(c.pop, x)
  <2>1. v \in Seq([Proc -> Addr])
    BY <1>1
  <2>2. [c EXCEPT !.pop = v] = [put |-> c.put, get |-> c.get,
                  send |-> c.send, push |-> c.push, pop |-> v]
    BY <1>1, OneFieldChanged
  <2>3. AddPop(c, x) = [c EXCEPT !.pop = v]
    BY DEF AddPop
  <2>4. [put |-> c.put, get |-> c.get,
                  send |-> c.send, push |-> c.push, pop |-> v] \in Posted
    <3> HIDE DEF v
    <3> QED BY <1>1, <2>1 DEF Posted
  <2> QED BY <2>2, <2>3, <2>4
<1> QED BY <1>2, <1>3, <1>4, <1>5, <1>6

LEMMA PostedNext ==
  ASSUME RefInv, NEW p \in Proc, NEW made, made \in Posted, Record(p, made)
  PROVE  /\ posted' \in [Proc -> Posted] /\ posted'[p] = made
         /\ \A r \in Proc \ {p} : posted'[r] = posted[r]
BY DEF RefInv, Record

LEMMA LastOfAppend ==
  ASSUME NEW S, NEW s \in Seq(S), NEW x \in S
  PROVE  Last(Append(s, x)) = x
BY DEF Last

(* What a column has of puts and messages after a call. *)
LEMMA OneMoreOf ==
  ASSUME NEW c \in Deliveries
  PROVE  /\ \A x \in Write1 : WithPut(c, x).put = Append(c.put, x)
         /\ \A x \in Message : WithSend(c, x).put = c.put
         /\ \A x \in Addr : WithPush(c, x).put = c.put /\ WithPop(c, x).put = c.put
         /\ \A x \in Nat : WithTagsize(c, x).put = c.put
         /\ c.put \in Seq(Write1) /\ c.send \in Seq(Message)
<1>1. c = [put |-> c.put, push |-> c.push, send |-> c.send, pop |-> c.pop, tag |-> c.tag]
  BY DEF Deliveries
<1>2. c.put \in Seq(Write1) /\ c.send \in Seq(Message)
  BY DEF Deliveries, Write1
<1> QED BY <1>1, <1>2 DEF WithPut, WithSend, WithPush, WithPop, WithTagsize

LEMMA RefPutSteps ==
  ASSUME ControlInv, DataInv, RefInv, NEW p \in Proc, NEW q \in Proc, NEW a \in Addr, NEW b \in Addr,
         RefPut(p, q, a, b)
  PROVE  RefInv' /\ Abstract!Put(p, q, a, b)
<1> DEFINE x == [dst |-> Counterpart(reg[p], p, q, b), val |-> mem[p][a]]
           c == WithPut(delTab[p][q], x)
           made == AddPut(posted[p], q, x)
<1>1. /\ pc[p] = "compute" /\ HasLiveRow(reg[p][p], {}, b)
      /\ UNCHANGED <<pc, step, program, done, mem, reg, mq, reqTab, chan>>
  BY DEF RefPut, Put, MayCall, Computing, Registered
<1>2. x \in Write1
  <2>1. Counterpart(reg[p], p, q, b) \in Addr
    BY <1>1, AtCall, CounterpartTyped
  <2> QED BY <2>1, AtCall DEF Write1
<1>3. delTab' = Changed(delTab, p, q, c)
  BY DEF RefPut, Put, Changed, WithPut
<1>4. Abstract!IsRegistered(Regs[p], p, b) /\ Regs[p][Abstract!Newest(Regs[p], p, b)][q] = Counterpart(reg[p], p, q, b)
  <2>1. Regs[p] = ByRows(reg[p])
    BY DEF Regs
  <2> QED BY <1>1, <2>1, AtCall, SameRow
<1>5. x = [dst |-> Regs[p][Abstract!Newest(Regs[p], p, b)][q], val |-> mem[p][a]]
  BY <1>4
<1> HIDE DEF x
<1>6. /\ c \in Deliveries /\ c.put = Append(delTab[p][q].put, x) /\ c.send = delTab[p][q].send
      /\ delTab[p][q].put \in Seq(Write1)
  <2>1. delTab[p][q] \in Deliveries
    BY AtCall
  <2>2. c \in Deliveries /\ c.send = delTab[p][q].send
    BY <1>2, <2>1, OneMore
  <2> QED BY <1>2, <2>1, <2>2, OneMoreOf
<1> HIDE DEF c
<1>7. /\ \A s \in Proc : delTab'[p][s] = IF s = q THEN c ELSE delTab[p][s]
      /\ \A r \in Proc \ {p} : delTab'[r] = delTab[r]
  <2>1. \A s \in Proc : delTab'[p][s] = IF s = q THEN c ELSE delTab[p][s]
    BY <1>3, <1>6, AtCall, OneChanged
  <2>2. \A r \in Proc \ {p} : delTab'[r] = delTab[r]
    BY <1>3, AtCall DEF Changed, Tables
  <2> QED BY <2>1, <2>2
<1>8. Newly(p, q, "put") = x
  <2>1. Newly(p, q, "put") = Last(c.put)
    BY <1>7 DEF Newly
  <2> QED BY <1>2, <1>6, <2>1, LastOfAppend
<1>9. Record(p, made)
  BY <1>8 DEF RefPut, AddPut
<1>10. posted[p] \in Posted
  BY DEF RefInv
<1>11. /\ made = [put |-> [posted[p].put EXCEPT ![q] = Append(@, x)], get |-> posted[p].get,
                  send |-> posted[p].send, push |-> posted[p].push, pop |-> posted[p].pop]
       /\ made \in Posted
  BY <1>2, <1>10, AddedTyped
<1>12. \A s \in Proc : made.put[s] = IF s = q THEN Append(posted[p].put[q], x) ELSE posted[p].put[s]
  <2>1. posted[p].put \in [Proc -> Seq(Write1)]
    BY <1>10, PostedTyped
  <2> QED BY <1>2, <1>11, <2>1, OneListLonger
<1> HIDE DEF made
<1>13. posted' \in [Proc -> Posted] /\ posted'[p] = made /\ \A r \in Proc \ {p} : posted'[r] = posted[r]
  BY <1>9, <1>11, PostedNext
<1>14. Recorded(p)'
  <2>1. Recorded(p) /\ pc[p] # "deliv"
    BY <1>1 DEF RefInv
  <2>2. \A s \in Proc, op \in {"push", "pop"} : PassedFor(p, s, op)' = PassedFor(p, s, op)
    BY <1>1 DEF PassedFor, Collectives
  <2>3. /\ posted'[p].get = posted[p].get /\ posted'[p].send = posted[p].send
        /\ posted'[p].push = posted[p].push /\ posted'[p].pop = posted[p].pop
    BY <1>11, <1>13
  <2>4. \A s \in Proc : posted'[p].put[s] = delTab'[p][s].put /\ delTab'[p][s].send = delTab[p][s].send
    BY <1>6, <1>7, <1>12, <1>13, <2>1 DEF Recorded
  <2> QED BY <1>1, <2>1, <2>2, <2>3, <2>4 DEF Recorded
<1>15. RefInv'
  <2>1. UNCHANGED outcome
    BY <1>9 DEF Record
  <2> QED BY <1>1, <1>7, <1>13, <1>14, <2>1, CallKeepsRef
<1>16. Abstract!Put(p, q, a, b)
  <2>1. Abstract!Post(p, made)
    BY <1>1, <1>9, AbstractPost
  <2> QED BY <1>4, <1>5, <2>1 DEF Abstract!Put, made, AddPut, Regs, ByRows
<1> QED BY <1>15, <1>16

LEMMA RefGetSteps ==
  ASSUME ControlInv, DataInv, RefInv, NEW p \in Proc, NEW q \in Proc, NEW a \in Addr, NEW b \in Addr,
         RefGet(p, q, a, b)
  PROVE  RefInv' /\ Abstract!Get(p, q, a, b)
<1> DEFINE x == [src |-> Counterpart(reg[p], p, q, a), dst |-> b]
           c == Append(reqTab[p][q], x)
           made == AddGet(posted[p], q, x)
<1>1. /\ pc[p] = "compute" /\ HasLiveRow(reg[p][p], {}, a)
      /\ UNCHANGED <<pc, step, program, done, mem, reg, mq, delTab, chan>>
  BY DEF RefGet, Get, MayCall, Computing, Registered
<1>2. x \in Request
  <2>1. Counterpart(reg[p], p, q, a) \in Addr
    BY <1>1, AtCall, CounterpartTyped
  <2> QED BY <2>1 DEF Request
<1>3. reqTab' = Changed(reqTab, p, q, c)
  BY DEF RefGet, Get, Changed
<1>4. Abstract!IsRegistered(Regs[p], p, a) /\ Regs[p][Abstract!Newest(Regs[p], p, a)][q] = Counterpart(reg[p], p, q, a)
  <2>1. Regs[p] = ByRows(reg[p])
    BY DEF Regs
  <2> QED BY <1>1, <2>1, AtCall, SameRow
<1>5. x = [src |-> Regs[p][Abstract!Newest(Regs[p], p, a)][q], dst |-> b]
  BY <1>4
<1> HIDE DEF x
<1>6. reqTab[p][q] \in Seq(Request) /\ c \in Seq(Request) /\ c = Append(reqTab[p][q], x)
  <2> DEFINE R == Request
  <2>1. reqTab[p][q] \in Seq(R) /\ x \in R
    BY <1>2, AtCall
  <2> HIDE DEF R
  <2>2. Append(reqTab[p][q], x) \in Seq(R)
    BY <2>1
  <2> QED BY <2>1, <2>2 DEF R
<1> HIDE DEF c
<1>7. /\ \A s \in Proc : reqTab'[p][s] = IF s = q THEN c ELSE reqTab[p][s]
      /\ \A r \in Proc \ {p} : reqTab'[r] = reqTab[r]
  <2> DEFINE W == Seq(Request)
  <2>1. reqTab \in Tables(W) /\ c \in W
    BY <1>6, AtCall
  <2> HIDE DEF W
  <2>2. \A s \in Proc : reqTab'[p][s] = IF s = q THEN c ELSE reqTab[p][s]
    BY <1>3, <2>1, OneChanged
  <2>3. \A r \in Proc \ {p} : reqTab'[r] = reqTab[r]
    BY <1>3, <2>1 DEF Changed, Tables
  <2> QED BY <2>2, <2>3
<1>8. Last(reqTab'[p][q]) = x
  <2>1. Last(reqTab'[p][q]) = Last(c)
    BY <1>7
  <2> QED BY <1>2, <1>6, <2>1, LastOfAppend
<1>9. Record(p, made)
  BY <1>8 DEF RefGet, AddGet
<1>10. posted[p] \in Posted
  BY DEF RefInv
<1>11. /\ made = [put |-> posted[p].put, get |-> [posted[p].get EXCEPT ![q] = Append(@, x)],
                  send |-> posted[p].send, push |-> posted[p].push, pop |-> posted[p].pop]
       /\ made \in Posted
  BY <1>2, <1>10, AddedTyped
<1>12. \A s \in Proc : made.get[s] = IF s = q THEN Append(posted[p].get[q], x) ELSE posted[p].get[s]
  <2>1. posted[p].get \in [Proc -> Seq(Request)]
    BY <1>10, PostedTyped
  <2> QED BY <1>2, <1>11, <2>1, OneListLonger
<1> HIDE DEF made
<1>13. posted' \in [Proc -> Posted] /\ posted'[p] = made /\ \A r \in Proc \ {p} : posted'[r] = posted[r]
  BY <1>9, <1>11, PostedNext
<1>14. Recorded(p)'
  <2>1. Recorded(p) /\ pc[p] # "deliv"
    BY <1>1 DEF RefInv
  <2>2. \A s \in Proc, op \in {"push", "pop"} : PassedFor(p, s, op)' = PassedFor(p, s, op)
    BY <1>1 DEF PassedFor, Collectives
  <2>3. /\ posted'[p].put = posted[p].put /\ posted'[p].send = posted[p].send
        /\ posted'[p].push = posted[p].push /\ posted'[p].pop = posted[p].pop
    BY <1>11, <1>13
  <2>4. \A s \in Proc : posted'[p].get[s] = reqTab'[p][s]
    BY <1>6, <1>7, <1>12, <1>13, <2>1 DEF Recorded
  <2> QED BY <1>1, <2>1, <2>2, <2>3, <2>4 DEF Recorded
<1>15. RefInv'
  <2>1. UNCHANGED outcome
    BY <1>9 DEF Record
  <2> QED BY <1>1, <1>7, <1>13, <1>14, <2>1, CallKeepsRef
<1>16. Abstract!Get(p, q, a, b)
  <2>1. Abstract!Post(p, made)
    BY <1>1, <1>9, AbstractPost
  <2> QED BY <1>4, <1>5, <2>1 DEF Abstract!Get, made, AddGet, Regs, ByRows
<1> QED BY <1>15, <1>16

(* The payloads of messages. *)
LEMMA PayloadsOf ==
  ASSUME NEW s \in Seq(Message)
  PROVE  /\ Payloads(s) \in Seq(Payload) /\ Len(Payloads(s)) = Len(s)
         /\ \A i \in 1 .. Len(s) : Payloads(s)[i] = s[i].payload_size
BY DEF Payloads, Message

LEMMA PayloadsChange ==
  ASSUME NEW s \in Seq(Message)
  PROVE  /\ s = <<>> => Payloads(s) = <<>>
         /\ s # <<>> => Payloads(s) # <<>> /\ Payloads(Tail(s)) = Tail(Payloads(s))
         /\ \A x \in Message : Payloads(Append(s, x)) = Append(Payloads(s), x.payload_size)
<1> DEFINE M == Message
<1>1. /\ \A t \in Seq(M) : /\ Payloads(t) \in Seq(Payload) /\ Len(Payloads(t)) = Len(t)
                          /\ \A i \in 1 .. Len(t) : Payloads(t)[i] = t[i].payload_size
      /\ s \in Seq(M) /\ \A x \in M : x.payload_size \in Payload
  BY PayloadsOf DEF Message
<1> HIDE DEF M
<1>2. Payloads(s) \in Seq(Payload) /\ Len(Payloads(s)) = Len(s) /\ Len(s) \in Nat
      /\ \A i \in 1 .. Len(s) : Payloads(s)[i] = s[i].payload_size
  BY <1>1
<1>3. ASSUME NEW x \in M PROVE Payloads(Append(s, x)) = Append(Payloads(s), x.payload_size)
  <2> DEFINE t == Append(s, x)
             u == Append(Payloads(s), x.payload_size)
  <2>1. /\ t \in Seq(M) /\ Len(t) = Len(s) + 1
        /\ \A i \in 1 .. Len(s) : t[i] = s[i]
        /\ t[Len(s) + 1] = x
    BY <1>1, AppendProperties
  <2>2. /\ u \in Seq(Payload) /\ Len(u) = Len(s) + 1
        /\ \A i \in 1 .. Len(s) : u[i] = Payloads(s)[i]
        /\ u[Len(s) + 1] = x.payload_size
    BY <1>1, <1>2, AppendProperties
  <2> HIDE DEF t, u
  <2>3. /\ Payloads(t) \in Seq(Payload) /\ Len(Payloads(t)) = Len(t)
        /\ \A i \in 1 .. Len(t) : Payloads(t)[i] = t[i].payload_size
    BY <1>1, <2>1
  <2>4. ASSUME NEW i \in 1 .. Len(s) + 1 PROVE Payloads(t)[i] = u[i]
    <3>1. i \in 1 .. Len(s) \/ i = Len(s) + 1
      BY <1>2
    <3>2. Payloads(t)[i] = t[i].payload_size
      BY <2>1, <2>3
    <3> QED BY <1>2, <2>1, <2>2, <3>1, <3>2
  <2>5. Payloads(t) = u
    BY <2>1, <2>2, <2>3, <2>4, SeqEqual
  <2> QED BY <2>5 DEF t, u
<1>4. ASSUME s # <<>> PROVE Payloads(s) # <<>> /\ Payloads(Tail(s)) = Tail(Payloads(s))
  <2> DEFINE t == Tail(s)
             u == Tail(Payloads(s))
  <2>1. /\ t \in Seq(M) /\ Len(t) = Len(s) - 1
        /\ \A i \in 1 .. Len(t) : t[i] = s[i+1]
    BY <1>1, <1>4, HeadTailProperties
  <2>2. Payloads(s) # <<>> /\ Len(s) >= 1
    BY <1>1, <1>2, <1>4
  <2>3. /\ u \in Seq(Payload) /\ Len(u) = Len(s) - 1
        /\ \A i \in 1 .. Len(u) : u[i] = Payloads(s)[i+1]
    BY <1>2, <2>2, HeadTailProperties
  <2> HIDE DEF t, u
  <2>4. /\ Payloads(t) \in Seq(Payload) /\ Len(Payloads(t)) = Len(t)
        /\ \A i \in 1 .. Len(t) : Payloads(t)[i] = t[i].payload_size
    BY <1>1, <2>1
  <2>5. \A i \in 1 .. Len(t) : Payloads(t)[i] = u[i]
    <3>1. \A i \in 1 .. Len(t) : i + 1 \in 1 .. Len(s)
      BY <1>2, <2>1
    <3> QED BY <1>2, <2>1, <2>3, <2>4, <3>1
  <2>6. Payloads(t) = u
    BY <2>1, <2>3, <2>4, <2>5, SeqEqual
  <2> QED BY <2>2, <2>6 DEF t, u
<1>5. s = <<>> => Payloads(s) = <<>>
  BY <1>1, <1>2
<1> QED BY <1>3, <1>4, <1>5 DEF M

LEMMA RefSendSteps ==
  ASSUME ControlInv, DataInv, RefInv, NEW p \in Proc, NEW q \in Proc, NEW m \in Payload,
         RefSend(p, q, m)
  PROVE  RefInv' /\ Abstract!Send(p, q, m)
<1> DEFINE x == [size |-> m + mq[p].send_tag_size, payload_size |-> m]
           c == WithSend(delTab[p][q], x)
           made == AddSend(posted[p], q, m)
<1>1. /\ pc[p] = "compute"
      /\ UNCHANGED <<pc, step, program, done, mem, reg, mq, reqTab, chan>>
  BY DEF RefSend, Send, MayCall, Computing
<1>2. x \in Message /\ x.payload_size = m
  <2>1. mq[p].send_tag_size \in Nat /\ m \in Nat
    BY AtCall, QueueTyped, PayloadAssumption
  <2> QED BY <2>1 DEF Message
<1>3. delTab' = Changed(delTab, p, q, c)
  BY DEF RefSend, Send, Changed, WithSend
<1> HIDE DEF x
<1>4. /\ c \in Deliveries /\ c.send = Append(delTab[p][q].send, x) /\ c.put = delTab[p][q].put
      /\ delTab[p][q].send \in Seq(Message)
  <2>1. delTab[p][q] \in Deliveries
    BY AtCall
  <2>2. c \in Deliveries /\ c.send = Append(delTab[p][q].send, x)
    BY <1>2, <2>1, OneMore
  <2> QED BY <1>2, <2>1, <2>2, OneMoreOf
<1> HIDE DEF c
<1>5. /\ \A s \in Proc : delTab'[p][s] = IF s = q THEN c ELSE delTab[p][s]
      /\ \A r \in Proc \ {p} : delTab'[r] = delTab[r]
  <2>1. \A s \in Proc : delTab'[p][s] = IF s = q THEN c ELSE delTab[p][s]
    BY <1>3, <1>4, AtCall, OneChanged
  <2>2. \A r \in Proc \ {p} : delTab'[r] = delTab[r]
    BY <1>3, AtCall DEF Changed, Tables
  <2> QED BY <2>1, <2>2
<1>6. Newly(p, q, "send") = x
  <2>1. Newly(p, q, "send") = Last(c.send)
    BY <1>5 DEF Newly
  <2> QED BY <1>2, <1>4, <2>1, LastOfAppend
<1>7. Record(p, made)
  BY <1>2, <1>6 DEF RefSend, AddSend
<1>8. posted[p] \in Posted
  BY DEF RefInv
<1>9. /\ made = [put |-> posted[p].put, get |-> posted[p].get,
                 send |-> [posted[p].send EXCEPT ![q] = Append(@, m)],
                 push |-> posted[p].push, pop |-> posted[p].pop]
      /\ made \in Posted
  BY <1>8, AddedTyped
<1>10. \A s \in Proc : made.send[s] = IF s = q THEN Append(posted[p].send[q], m) ELSE posted[p].send[s]
  <2>1. posted[p].send \in [Proc -> Seq(Payload)]
    BY <1>8, PostedTyped
  <2> QED BY <1>9, <2>1, OneListLonger
<1>11. Abstract!Send(p, q, m)
  <2>1. Abstract!Post(p, made)
    BY <1>1, <1>7, AbstractPost
  <2> QED BY <2>1 DEF Abstract!Send, AddSend
<1> HIDE DEF made
<1>12. posted' \in [Proc -> Posted] /\ posted'[p] = made /\ \A r \in Proc \ {p} : posted'[r] = posted[r]
  BY <1>7, <1>9, PostedNext
<1>13. Recorded(p)'
  <2>1. Recorded(p) /\ pc[p] # "deliv"
    BY <1>1 DEF RefInv
  <2>2. \A s \in Proc, op \in {"push", "pop"} : PassedFor(p, s, op)' = PassedFor(p, s, op)
    BY <1>1 DEF PassedFor, Collectives
  <2>3. /\ posted'[p].get = posted[p].get /\ posted'[p].put = posted[p].put
        /\ posted'[p].push = posted[p].push /\ posted'[p].pop = posted[p].pop
    BY <1>9, <1>12
  <2>4. Payloads(c.send) = Append(Payloads(delTab[p][q].send), m)
    BY <1>2, <1>4, PayloadsChange
  <2>5. \A s \in Proc : posted'[p].send[s] = Payloads(delTab'[p][s].send)
                        /\ delTab'[p][s].put = delTab[p][s].put
    BY <1>4, <1>5, <1>10, <1>12, <2>1, <2>4 DEF Recorded
  <2> QED BY <1>1, <2>1, <2>2, <2>3, <2>5 DEF Recorded
<1>14. RefInv'
  <2>1. UNCHANGED outcome
    BY <1>7 DEF Record
  <2> QED BY <1>1, <1>5, <1>12, <1>13, <2>1, CallKeepsRef
<1> QED BY <1>11, <1>14

(* The next collective call, and what a process has passed for another. *)
LEMMA PassedForNext ==
  ASSUME DataInv, NEW p \in Proc, NEW op \in {"push", "pop", "tag"}, MustCall(p, op),
         UNCHANGED <<step, program>>
  PROVE  /\ op # "tag" => NextCollective(p).at \in [Proc -> Addr]
         /\ \A q \in Proc :
              /\ PassedFor(p, q, op)' = Append(PassedFor(p, q, op), NextCollective(p).at[q])
              /\ \A o \in {"push", "pop", "tag"} \ {op} : PassedFor(p, q, o)' = PassedFor(p, q, o)
<1> DEFINE list == Collectives(p)
           k == done[p] + 1
<1>1. /\ step[p] < Len(program.coll)
      /\ done' = [done EXCEPT ![p] = done[p] + 1] /\ list[k].op = op
      /\ done[p] < Len(list)
  BY DEF MustCall, Computing, NextCollective
<1>2. /\ program \in Programs /\ step[p] \in 0 .. Len(program.coll)
      /\ done \in [Proc -> Nat]
  BY DEF DataInv, Types
<1>3. list \in Seq(Collective) /\ Len(list) \in Nat
  <2>1. step[p] < Len(program.coll) /\ step[p] \in 0 .. Len(program.coll)
        /\ Len(program.coll) \in Nat
    BY <1>1, <1>2, Typed
  <2>2. step[p] + 1 \in 1 .. Len(program.coll)
    BY <2>1
  <2> QED BY <1>2, <2>2, Typed DEF Collectives
<1>4. k \in 1 .. Len(list) /\ k - 1 = done[p]
  BY <1>1, <1>2, <1>3
<1>5. NextCollective(p) = list[k]
  BY DEF NextCollective
<1>6. op # "tag" => list[k].at \in [Proc -> Addr]
  <2>1. list[k] \in Collective
    <3> HIDE DEF list, k
    <3> QED BY <1>3, <1>4
  <2> HIDE DEF list, k
  <2> QED BY <1>1, <2>1 DEF Collective
<1>7. Collectives(p)' = list /\ done'[p] = k
  BY <1>1, <1>2 DEF Collectives
<1>8. ASSUME NEW q \in Proc, NEW o
      PROVE  /\ Args(list, o, q)[k] = IF list[k].op = o
                                     THEN Append(Args(list, o, q)[k-1], list[k].at[q])
                                     ELSE Args(list, o, q)[k-1]
             /\ PassedFor(p, q, o) = Args(list, o, q)[k-1] /\ PassedFor(p, q, o)' = Args(list, o, q)[k]
  <2>1. /\ Args(list, o, q)[k] = IF list[k].op = o
                                     THEN Append(Args(list, o, q)[k-1], list[k].at[q])
                                     ELSE Args(list, o, q)[k-1]
    <3> HIDE DEF list, k
    <3> QED BY <1>3, <1>4, ArgsFacts
  <2>2. PassedFor(p, q, o) = Args(list, o, q)[k-1]
    BY <1>1, <1>4 DEF PassedFor
  <2>3. PassedFor(p, q, o)' = Args(list, o, q)[k]
    BY <1>1, <1>7 DEF PassedFor
  <2> QED BY <2>1, <2>2, <2>3
<1>9. list[k].op = op
  BY <1>1
<1> HIDE DEF k, list
<1>10. ASSUME NEW q \in Proc
       PROVE  PassedFor(p, q, op)' = Append(PassedFor(p, q, op), NextCollective(p).at[q])
  <2>1. Args(list, op, q)[k] = Append(Args(list, op, q)[k-1], list[k].at[q])
    BY <1>8, <1>9
  <2> QED BY <1>5, <1>8, <2>1
<1>11. ASSUME NEW q \in Proc, NEW o \in {"push", "pop", "tag"} \ {op}
       PROVE  PassedFor(p, q, o)' = PassedFor(p, q, o)
  <2>1. Args(list, o, q)[k] = Args(list, o, q)[k-1]
    BY <1>8, <1>9
  <2> QED BY <1>8, <2>1
<1> QED BY <1>5, <1>6, <1>10, <1>11

LEMMA ColumnOfChange ==
  ASSUME NEW rows \in Seq([Proc -> Addr]), NEW q \in Proc
  PROVE  /\ ColumnOf(<<>>, q) = <<>>
         /\ \A at \in [Proc -> Addr] : ColumnOf(Append(rows, at), q) = Append(ColumnOf(rows, q), at[q])
<1> DEFINE A == [Proc -> Addr]
<1>1. ASSUME NEW at \in A PROVE ColumnOf(Append(rows, at), q) = Append(ColumnOf(rows, q), at[q])
  <2> DEFINE more == Append(rows, at)
             u == Append(ColumnOf(rows, q), at[q])
  <2>1. /\ more \in Seq(A) /\ Len(more) = Len(rows) + 1 /\ more[Len(rows) + 1] = at
        /\ \A i \in 1 .. Len(rows) : more[i] = rows[i]
    <3>1. rows \in Seq(A)
      OBVIOUS
    <3> HIDE DEF A
    <3> QED BY <3>1, AppendProperties
  <2>2. /\ ColumnOf(rows, q) \in Seq(Addr) /\ Len(ColumnOf(rows, q)) = Len(rows) /\ at[q] \in Addr
        /\ \A i \in 1 .. Len(rows) : ColumnOf(rows, q)[i] = rows[i][q]
    BY ColumnOfTyped
  <2>3. /\ u \in Seq(Addr) /\ Len(u) = Len(rows) + 1 /\ u[Len(rows) + 1] = at[q]
        /\ \A i \in 1 .. Len(rows) : u[i] = rows[i][q]
    BY <2>2, AppendProperties
  <2> HIDE DEF more, u
  <2>4. /\ ColumnOf(more, q) \in Seq(Addr) /\ Len(ColumnOf(more, q)) = Len(more)
        /\ \A i \in 1 .. Len(more) : ColumnOf(more, q)[i] = more[i][q]
    BY <2>1, ColumnOfTyped
  <2>5. ASSUME NEW i \in 1 .. Len(more) PROVE ColumnOf(more, q)[i] = u[i]
    <3>1. i \in 1 .. Len(rows) \/ i = Len(rows) + 1
      BY <2>1
    <3> QED BY <2>1, <2>3, <2>4, <3>1
  <2>6. ColumnOf(more, q) = u
    BY <2>1, <2>3, <2>4, <2>5, SeqEqual
  <2> QED BY <2>6 DEF more, u
<1>2. ColumnOf(<<>>, q) = <<>>
  BY DEF ColumnOf
<1> QED BY <1>1, <1>2

LEMMA RefPushSteps ==
  ASSUME ControlInv, DataInv, RefInv, NEW p \in Proc, RefPush(p)
  PROVE  RefInv' /\ \E at \in [Proc -> Addr] : Abstract!PushReg(p, at)
<1> DEFINE at == NextCollective(p).at
           a == at[p]
           row == [q \in Proc |-> WithPush(delTab[p][q], a)]
           made == AddPush(posted[p], at)
<1>1. /\ MustCall(p, "push") /\ pc[p] = "compute"
      /\ UNCHANGED <<pc, step, program, mem, reg, mq, reqTab, chan>>
      /\ \A r \in Proc \ {p} : done'[r] = done[r]
  <2>1. MustCall(p, "push") /\ UNCHANGED <<pc, step, program, mem, reg, mq, reqTab, chan>>
    BY DEF RefPush, PushReg
  <2>2. done \in [Proc -> Nat]
    BY DEF DataInv, Types
  <2> QED BY <2>1, <2>2 DEF MustCall, Computing
<1>2. delTab' = [delTab EXCEPT ![p] = row]
  BY DEF RefPush, PushReg, WithPush
<1>3. Record(p, made)
  BY DEF RefPush, AddPush
<1>4. /\ at \in [Proc -> Addr]
      /\ \A q \in Proc : /\ PassedFor(p, q, "push")' = Append(PassedFor(p, q, "push"), at[q])
                         /\ PassedFor(p, q, "pop")' = PassedFor(p, q, "pop")
  BY <1>1, PassedForNext
<1> HIDE DEF at
<1>5. a \in Addr
  BY <1>4
<1> HIDE DEF a
<1>6. \A q \in Proc : row[q].put = delTab[p][q].put /\ row[q].send = delTab[p][q].send
  BY <1>5, AtCall, OneMore, OneMoreOf
<1> HIDE DEF row
<1>7. delTab'[p] = row /\ \A r \in Proc \ {p} : delTab'[r] = delTab[r]
  <2>1. delTab \in Tables(Deliveries)
    BY AtCall
  <2> QED BY <1>2, <2>1 DEF Tables
<1>8. posted[p] \in Posted /\ posted[p].push \in Seq([Proc -> Addr])
  BY PostedTyped DEF RefInv
<1>9. /\ made = [put |-> posted[p].put, get |-> posted[p].get, send |-> posted[p].send,
                 push |-> Append(posted[p].push, at), pop |-> posted[p].pop]
      /\ made \in Posted
  BY <1>4, <1>8, ZeroIsProcess, AddedTyped
<1>10. Abstract!PushReg(p, at)
  <2>1. Abstract!Post(p, made)
    BY <1>1, <1>3, AbstractPost
  <2> QED BY <2>1 DEF Abstract!PushReg, AddPush
<1> HIDE DEF made
<1>11. posted' \in [Proc -> Posted] /\ posted'[p] = made /\ \A r \in Proc \ {p} : posted'[r] = posted[r]
  BY <1>3, <1>9, PostedNext
<1>12. Recorded(p)'
  <2>1. Recorded(p) /\ pc[p] # "deliv"
    BY <1>1 DEF RefInv
  <2>2. /\ posted'[p].get = posted[p].get /\ posted'[p].put = posted[p].put
        /\ posted'[p].send = posted[p].send /\ posted'[p].pop = posted[p].pop
        /\ posted'[p].push = Append(posted[p].push, at)
    BY <1>9, <1>11
  <2>3. \A q \in Proc : ColumnOf(posted'[p].push, q) = Append(ColumnOf(posted[p].push, q), at[q])
    BY <1>4, <1>8, <2>2, ColumnOfChange
  <2>4. \A q \in Proc : /\ ColumnOf(posted'[p].push, q) = PassedFor(p, q, "push")'
                        /\ ColumnOf(posted'[p].pop, q) = PassedFor(p, q, "pop")'
    BY <1>4, <2>1, <2>2, <2>3 DEF Recorded
  <2>5. \A q \in Proc : posted'[p].get[q] = reqTab'[p][q]
    BY <1>1, <2>1, <2>2 DEF Recorded
  <2>6. \A q \in Proc : delTab'[p][q].put = delTab[p][q].put /\ delTab'[p][q].send = delTab[p][q].send
    BY <1>6, <1>7
  <2>7. \A q \in Proc : /\ posted'[p].put[q] = delTab'[p][q].put
                        /\ posted'[p].send[q] = Payloads(delTab'[p][q].send)
    BY <2>1, <2>2, <2>6 DEF Recorded
  <2> QED BY <2>4, <2>5, <2>7 DEF Recorded
<1>13. RefInv'
  <2>1. UNCHANGED outcome
    BY <1>3 DEF Record
  <2> QED BY <1>1, <1>7, <1>11, <1>12, <2>1, CallKeepsRef
<1> QED BY <1>4, <1>10, <1>13

LEMMA RefPopSteps ==
  ASSUME ControlInv, DataInv, RefInv, NEW p \in Proc, RefPop(p)
  PROVE  RefInv' /\ \E at \in [Proc -> Addr] : Abstract!PopReg(p, at)
<1> DEFINE at == NextCollective(p).at
           a == at[p]
           c == WithPop(delTab[p][p], a)
           made == AddPop(posted[p], at)
<1>1. /\ MustCall(p, "pop") /\ pc[p] = "compute"
      /\ UNCHANGED <<pc, step, program, mem, reg, mq, reqTab, chan>>
      /\ \A r \in Proc \ {p} : done'[r] = done[r]
  <2>1. MustCall(p, "pop") /\ UNCHANGED <<pc, step, program, mem, reg, mq, reqTab, chan>>
    BY DEF RefPop, PopReg
  <2>2. done \in [Proc -> Nat]
    BY DEF DataInv, Types
  <2> QED BY <2>1, <2>2 DEF MustCall, Computing
<1>2. delTab' = Changed(delTab, p, p, c)
  BY DEF RefPop, PopReg, WithPop, Changed
<1>3. Record(p, made)
  BY DEF RefPop, AddPop
<1>4. /\ at \in [Proc -> Addr]
      /\ \A q \in Proc : /\ PassedFor(p, q, "pop")' = Append(PassedFor(p, q, "pop"), at[q])
                         /\ PassedFor(p, q, "push")' = PassedFor(p, q, "push")
  BY <1>1, PassedForNext
<1> HIDE DEF at
<1>5. a \in Addr
  BY <1>4
<1> HIDE DEF a
<1>6. c \in Deliveries /\ c.put = delTab[p][p].put /\ c.send = delTab[p][p].send
  BY <1>5, AtCall, OneMore, OneMoreOf
<1> HIDE DEF c
<1>7. /\ \A s \in Proc : delTab'[p][s] = IF s = p THEN c ELSE delTab[p][s]
      /\ \A r \in Proc \ {p} : delTab'[r] = delTab[r]
  <2>1. \A s \in Proc : delTab'[p][s] = IF s = p THEN c ELSE delTab[p][s]
    BY <1>2, <1>6, AtCall, OneChanged
  <2>2. \A r \in Proc \ {p} : delTab'[r] = delTab[r]
    BY <1>2, AtCall DEF Changed, Tables
  <2> QED BY <2>1, <2>2
<1>8. posted[p] \in Posted /\ posted[p].pop \in Seq([Proc -> Addr])
  BY PostedTyped DEF RefInv
<1>9. /\ made = [put |-> posted[p].put, get |-> posted[p].get, send |-> posted[p].send,
                 push |-> posted[p].push, pop |-> Append(posted[p].pop, at)]
      /\ made \in Posted
  BY <1>4, <1>8, ZeroIsProcess, AddedTyped
<1>10. Abstract!PopReg(p, at)
  <2>1. Abstract!Post(p, made)
    BY <1>1, <1>3, AbstractPost
  <2> QED BY <2>1 DEF Abstract!PopReg, AddPop
<1> HIDE DEF made
<1>11. posted' \in [Proc -> Posted] /\ posted'[p] = made /\ \A r \in Proc \ {p} : posted'[r] = posted[r]
  BY <1>3, <1>9, PostedNext
<1>12. Recorded(p)'
  <2>1. Recorded(p) /\ pc[p] # "deliv"
    BY <1>1 DEF RefInv
  <2>2. /\ posted'[p].get = posted[p].get /\ posted'[p].put = posted[p].put
        /\ posted'[p].send = posted[p].send /\ posted'[p].push = posted[p].push
        /\ posted'[p].pop = Append(posted[p].pop, at)
    BY <1>9, <1>11
  <2>3. \A q \in Proc : ColumnOf(posted'[p].pop, q) = Append(ColumnOf(posted[p].pop, q), at[q])
    BY <1>4, <1>8, <2>2, ColumnOfChange
  <2>4. \A q \in Proc : /\ ColumnOf(posted'[p].pop, q) = PassedFor(p, q, "pop")'
                        /\ ColumnOf(posted'[p].push, q) = PassedFor(p, q, "push")'
    BY <1>4, <2>1, <2>2, <2>3 DEF Recorded
  <2>5. \A q \in Proc : posted'[p].get[q] = reqTab'[p][q]
    BY <1>1, <2>1, <2>2 DEF Recorded
  <2>6. \A q \in Proc : delTab'[p][q].put = delTab[p][q].put /\ delTab'[p][q].send = delTab[p][q].send
    BY <1>6, <1>7
  <2>7. \A q \in Proc : /\ posted'[p].put[q] = delTab'[p][q].put
                        /\ posted'[p].send[q] = Payloads(delTab'[p][q].send)
    BY <2>1, <2>2, <2>6 DEF Recorded
  <2> QED BY <2>4, <2>5, <2>7 DEF Recorded
<1>13. RefInv'
  <2>1. UNCHANGED outcome
    BY <1>3 DEF Record
  <2> QED BY <1>1, <1>7, <1>11, <1>12, <2>1, CallKeepsRef
<1> QED BY <1>4, <1>10, <1>13

LEMMA WriteSteps ==
  ASSUME ControlInv, DataInv, RefInv, NEW p \in Proc, NEW a \in Addr, NEW v \in Val,
         Write(p, a, v), Same
  PROVE  RefInv' /\ Abstract!Write(p, a, v)
<1>1. /\ pc[p] = "compute" /\ mem' = [mem EXCEPT ![p][a] = v]
      /\ UNCHANGED <<pc, step, program, done, reg, mq, reqTab, delTab, chan, posted, outcome>>
  BY DEF Write, MayCall, Computing, Same
<1>2. \A r \in Proc \ {p} : mem'[r] = mem[r]
  BY <1>1, AtCall
<1>3. Recorded(p) /\ posted \in [Proc -> Posted]
  BY DEF RefInv
<1>4. Recorded(p)'
  BY <1>1, <1>3, RecordedStays
<1>5. RefInv'
  BY <1>1, <1>2, <1>3, <1>4, CallKeepsRef
<1>6. Abstract!Write(p, a, v)
  <2>1. Phase[p] = "compute" /\ UNCHANGED <<Phase, Box, Regs>>
    BY <1>1, Unseen DEF Phase
  <2> QED BY <1>1, <2>1 DEF Abstract!Write, Phase, Box, Regs, Payloads, ByRows
<1> QED BY <1>5, <1>6

(* Reading a message. *)
LEMMA MoveSteps ==
  ASSUME ControlInv, DataInv, RefInv, NEW p \in Proc, Move(p) \/ HpMove(p), Same
  PROVE  RefInv' /\ \E q \in Proc : Abstract!Move(p, q)
<1> DEFINE m == mq[p]
           h == HeadColumn(m)
<1>1. /\ pc[p] = "compute"
      /\ UNCHANGED <<pc, step, program, done, mem, reg, reqTab, delTab, chan, posted, outcome>>
  BY DEF Move, HpMove, MayCall, Computing, Same
<1>2. m \in Queue /\ m.n_mesg > 0
  BY AtCall, QueueTyped DEF Move, HpMove
<1>3. \E bytes : mq' = [mq EXCEPT ![p] = Dequeue(m, bytes)]
  BY DEF Move, HpMove, AfterMove, AfterHpMove
<1>4. m.pending \in [Proc -> Seq(Message)]
  BY <1>2, QueueTyped
<1>5. /\ h \in Proc /\ m.pending[h] # <<>>
      /\ \A r \in Proc : m.pending[r] # <<>> => h <= r
  BY <1>2, HeadExists
<1>6. \A bytes : Dequeue(m, bytes).pending = [m.pending EXCEPT ![h] = Tail(@)]
  <2>1. m = [recv_tag_size |-> m.recv_tag_size, send_tag_size |-> m.send_tag_size,
             n_mesg |-> m.n_mesg, accum_size |-> m.accum_size, pending |-> m.pending]
    BY <1>2, QueueTyped
  <2> HIDE DEF m
  <2> QED BY <2>1 DEF Dequeue
<1>7. /\ mq'[p].pending = [m.pending EXCEPT ![h] = Tail(@)]
      /\ \A r \in Proc \ {p} : mq'[r] = mq[r]
  BY <1>3, <1>6, AtCall
<1>8. Box' = [Box EXCEPT ![p][h] = Tail(@)]
  <2>1. \A r \in Proc \ {p} : Box'[r] = Box[r]
    BY <1>7 DEF Box
  <2>2. \A s \in Proc : mq'[p].pending[s] = IF s = h THEN Tail(m.pending[h]) ELSE m.pending[s]
    BY <1>4, <1>7
  <2>3. Payloads(Tail(m.pending[h])) = Tail(Payloads(m.pending[h]))
    BY <1>4, <1>5, PayloadsChange
  <2>4. Box'[p] = [s \in Proc |-> Payloads(mq'[p].pending[s])] /\ Box[p] = [s \in Proc |-> Payloads(m.pending[s])]
    BY DEF Box
  <2> HIDE DEF m, h
  <2>5. ASSUME NEW s \in Proc PROVE Box'[p][s] = IF s = h THEN Tail(Box[p][h]) ELSE Box[p][s]
    <3>1. /\ Box'[p][s] = Payloads(mq'[p].pending[s]) /\ Box[p][s] = Payloads(m.pending[s])
          /\ Box[p][h] = Payloads(m.pending[h])
      BY <1>5, <2>4
    <3>2. CASE s = h
      BY <2>2, <2>3, <3>1, <3>2
    <3>3. CASE s # h
      BY <2>2, <3>1, <3>3
    <3> QED BY <3>2, <3>3
  <2>6. Box'[p] = [Box[p] EXCEPT ![h] = Tail(@)]
    <3>1. Box[p] = [s \in Proc |-> Box[p][s]] /\ Box'[p] = [s \in Proc |-> Box'[p][s]]
      BY <2>4
    <3> QED BY <1>5, <2>5, <3>1
  <2>7. Box = [r \in Proc |-> Box[r]] /\ Box' = [r \in Proc |-> Box'[r]]
    BY DEF Box
  <2> QED BY <2>1, <2>6, <2>7
<1>9. RefInv'
  <2>1. Recorded(p) /\ posted \in [Proc -> Posted]
    BY DEF RefInv
  <2>2. Recorded(p)'
    BY <1>1, <2>1, RecordedStays
  <2> QED BY <1>1, <2>1, <2>2, CallKeepsRef
<1>10. ASSUME NEW q \in Proc, q = h PROVE Abstract!Move(p, q)
  <2>1. Phase[p] = "compute" /\ UNCHANGED <<Phase, Regs>>
    BY <1>1, Unseen DEF Phase
  <2>2. Box[p][h] # <<>>
    <3>1. Box[p][h] = Payloads(m.pending[h])
      BY <1>5 DEF Box
    <3> QED BY <1>4, <1>5, <3>1, PayloadsChange
  <2>3. ASSUME NEW r \in Proc, r < h PROVE Box[p][r] = <<>>
    <3>1. Box[p][r] = Payloads(m.pending[r])
      BY DEF Box
    <3>2. m.pending[r] = <<>>
      <4>1. r \in Int /\ h \in Int
        BY <1>5 DEF Proc
      <4> QED BY <1>5, <2>3, <4>1
    <3> QED BY <1>4, <3>1, <3>2, PayloadsChange
  <2> HIDE DEF h, m
  <2>4. Abstract!Move(p, q) <=>
          /\ Phase[p] = "compute"
          /\ Box[p][q] # <<>> /\ \A r \in Proc : r < q => Box[p][r] = <<>>
          /\ Box' = [Box EXCEPT ![p][q] = Tail(@)]
          /\ UNCHANGED <<Phase, mem, Regs, posted, outcome>>
    BY DEF Abstract!Move, Abstract!Proc, Proc, Phase, Box, Regs, Payloads, ByRows
  <2> QED BY <1>1, <1>8, <1>10, <2>1, <2>2, <2>3, <2>4
<1> HIDE DEF h, m
<1>11. \E q \in Proc : q = h
  BY <1>5
<1> QED BY <1>9, <1>10, <1>11

LEMMA NothingPosted ==
  ASSUME NEW c \in Posted, c.push = <<>>, c.pop = <<>>,
         \A q \in Proc : c.put[q] = <<>> /\ c.get[q] = <<>> /\ c.send[q] = <<>>
  PROVE  c = Abstract!Nothing
<1> DEFINE none == [q \in Proc |-> <<>>]
<1>1. c.put = none /\ c.get = none /\ c.send = none
  BY PostedTyped
<1>2. c = [put |-> c.put, get |-> c.get, send |-> c.send, push |-> c.push, pop |-> c.pop]
  BY PostedTyped
<1>3. Abstract!Nothing = [put |-> none, get |-> none, send |-> none, push |-> <<>>, pop |-> <<>>]
  BY DEF Abstract!Nothing, Abstract!Proc, Proc
<1> HIDE DEF none
<1> QED BY <1>1, <1>2, <1>3

LEMMA NothingTyped ==
  /\ Abstract!Nothing \in Posted
  /\ \A q \in Proc : /\ Abstract!Nothing.put[q] = <<>> /\ Abstract!Nothing.get[q] = <<>>
                     /\ Abstract!Nothing.send[q] = <<>>
  /\ Abstract!Nothing.push = <<>> /\ Abstract!Nothing.pop = <<>>
<1> DEFINE none == [q \in Proc |-> <<>>]
<1>1. none \in [Proc -> Seq(Write1)] /\ none \in [Proc -> Seq(Request)] /\ none \in [Proc -> Seq(Payload)]
  OBVIOUS
<1>2. Abstract!Nothing = [put |-> none, get |-> none, send |-> none, push |-> <<>>, pop |-> <<>>]
  BY DEF Abstract!Nothing, Abstract!Proc, Proc
<1>3. \A q \in Proc : none[q] = <<>>
  OBVIOUS
<1> HIDE DEF none
<1> QED BY <1>1, <1>2, <1>3 DEF Posted

(* Empty tables tell that no call has been made. *)
LEMMA NoCallMade ==
  ASSUME DataInv, RefInv, NEW p \in Proc, pc[p] = "compute",
         reqTab[p] = EmptyRequests, delTab[p] = EmptyDeliveries
  PROVE  posted[p] = Abstract!Nothing
<1>1. posted[p] \in Posted /\ Recorded(p)
  BY DEF RefInv
<1>2. \A q \in Proc : /\ reqTab[p][q] = <<>> /\ delTab[p][q].put = <<>> /\ delTab[p][q].send = <<>>
                      /\ delTab[p][q].push = <<>> /\ delTab[p][q].pop = <<>>
  BY DEF EmptyRequests, EmptyDeliveries, EmptyColumn
<1>3. \A q \in Proc : posted[p].put[q] = <<>> /\ posted[p].get[q] = <<>> /\ posted[p].send[q] = <<>>
  <2>1. Payloads(<<>>) = <<>>
    BY DEF Payloads
  <2> QED BY <1>1, <1>2, <2>1 DEF Recorded
<1>4. Passed(p, "push") = <<>> /\ Passed(p, "pop") = <<>>
  BY <1>2 DEF DataInv, KeepsUp
<1>5. ColumnOf(posted[p].push, p) = <<>> /\ ColumnOf(posted[p].pop, p) = <<>>
  <2>1. PassedFor(p, p, "push") = Passed(p, "push") /\ PassedFor(p, p, "pop") = Passed(p, "pop")
    BY DEF PassedFor, Passed
  <2> QED BY <1>1, <1>4, <2>1 DEF Recorded
<1>6. posted[p].push = <<>> /\ posted[p].pop = <<>>
  <2>1. \A s \in Seq([Proc -> Addr]) : ColumnOf(s, p) = <<>> => s = <<>>
    <3> SUFFICES ASSUME NEW s \in Seq([Proc -> Addr]), ColumnOf(s, p) = <<>> PROVE s = <<>>
      OBVIOUS
    <3>1. Len(s) = 0
      BY ColumnOfTyped
    <3> DEFINE A == [Proc -> Addr]
    <3>2. s \in Seq(A)
      OBVIOUS
    <3> HIDE DEF A
    <3> QED BY <3>1, <3>2
  <2> QED BY <1>1, <1>5, <2>1, PostedTyped
<1> QED BY <1>1, <1>3, <1>6, NothingPosted

(* Both bspx_resetbuffers and bspx_sync empty the queue. *)
LEMMA BoxEmptied ==
  ASSUME DataInv, NEW p \in Proc, mq' = [mq EXCEPT ![p] = QueueSync(mq[p])]
  PROVE  Box' = [Box EXCEPT ![p] = Abstract!EmptyBox]
<1>1. \A q \in Proc : mq'[p].pending[q] = <<>>
  BY AtCall, SyncTyped
<1>2. \A r \in Proc \ {p} : mq'[r] = mq[r]
  BY AtCall
<1>3. Payloads(<<>>) = <<>>
  BY DEF Payloads
<1>4. Box'[p] = [q \in Proc |-> <<>>]
  BY <1>1, <1>3 DEF Box
<1>5. \A r \in Proc \ {p} : Box'[r] = Box[r]
  BY <1>2 DEF Box
<1>6. Box = [r \in Proc |-> Box[r]] /\ Box' = [r \in Proc |-> Box'[r]]
  BY DEF Box
<1>7. Abstract!EmptyBox = [q \in Proc |-> <<>>]
  BY DEF Abstract!EmptyBox, Abstract!Proc, Proc
<1> QED BY <1>4, <1>5, <1>6, <1>7

LEMMA ResetSteps ==
  ASSUME ControlInv, DataInv, RefInv, NEW p \in Proc, ResetBuffers(p), Same
  PROVE  RefInv' /\ Abstract!ResetBuffers(p)
<1>1. /\ pc[p] = "compute" /\ mq' = [mq EXCEPT ![p] = QueueSync(mq[p])]
      /\ reqTab[p] = EmptyRequests /\ delTab[p] = EmptyDeliveries
      /\ UNCHANGED <<pc, step, program, done, mem, reg, reqTab, delTab, chan, posted, outcome>>
  BY DEF ResetBuffers, MayCall, Computing, Same
<1>2. Box' = [Box EXCEPT ![p] = Abstract!EmptyBox]
  BY <1>1, BoxEmptied
<1>3. RefInv'
  <2>1. Recorded(p) /\ posted \in [Proc -> Posted]
    BY DEF RefInv
  <2>2. Recorded(p)'
    BY <1>1, <2>1, RecordedStays
  <2> QED BY <1>1, <2>1, <2>2, CallKeepsRef
<1>4. Abstract!ResetBuffers(p)
  <2>1. Phase[p] = "compute" /\ UNCHANGED <<Phase, Regs>>
    BY <1>1, Unseen DEF Phase
  <2>2. posted[p] = Abstract!Nothing
    BY <1>1, NoCallMade
  <2>3. Abstract!ResetBuffers(p) <=>
          /\ Phase[p] = "compute" /\ posted[p] = Abstract!Nothing
          /\ Box' = [Box EXCEPT ![p] = Abstract!EmptyBox]
          /\ UNCHANGED <<Phase, mem, Regs, posted, outcome>>
    BY DEF Abstract!ResetBuffers, Phase, Box, Regs, Payloads, ByRows
  <2> QED BY <1>1, <1>2, <2>1, <2>2, <2>3
<1> QED BY <1>3, <1>4

LEMMA SetTagsizeSteps ==
  ASSUME ControlInv, DataInv, RefInv, NEW p \in Proc, SetTagsize(p), Same
  PROVE  RefInv' /\ UNCHANGED Abstract!vars
<1> DEFINE a == NextCollective(p).at[p]
           c == WithTagsize(delTab[p][p], a)
<1>1. /\ MustCall(p, "tag") /\ pc[p] = "compute"
      /\ UNCHANGED <<pc, step, program, mem, reg, mq, reqTab, chan, posted, outcome>>
      /\ \A r \in Proc \ {p} : done'[r] = done[r]
  <2>1. /\ MustCall(p, "tag")
        /\ UNCHANGED <<pc, step, program, mem, reg, mq, reqTab, chan, posted, outcome>>
    BY DEF SetTagsize, Same
  <2>2. done \in [Proc -> Nat]
    BY DEF DataInv, Types
  <2> QED BY <2>1, <2>2 DEF MustCall, Computing
<1>2. delTab' = Changed(delTab, p, p, c)
  BY DEF SetTagsize, WithTagsize, Changed
<1>3. a \in Nat
  BY <1>1, PassedNext DEF Arg
<1>4. \A q \in Proc : PassedFor(p, q, "push")' = PassedFor(p, q, "push")
                      /\ PassedFor(p, q, "pop")' = PassedFor(p, q, "pop")
  BY <1>1, PassedForNext
<1> HIDE DEF a
<1>5. c \in Deliveries /\ c.put = delTab[p][p].put /\ c.send = delTab[p][p].send
  BY <1>3, AtCall, OneMore, OneMoreOf
<1> HIDE DEF c
<1>6. /\ \A s \in Proc : delTab'[p][s] = IF s = p THEN c ELSE delTab[p][s]
      /\ \A r \in Proc \ {p} : delTab'[r] = delTab[r]
  <2>1. \A s \in Proc : delTab'[p][s] = IF s = p THEN c ELSE delTab[p][s]
    BY <1>2, <1>5, AtCall, OneChanged
  <2>2. \A r \in Proc \ {p} : delTab'[r] = delTab[r]
    BY <1>2, AtCall DEF Changed, Tables
  <2> QED BY <2>1, <2>2
<1>7. Recorded(p) /\ posted \in [Proc -> Posted]
  BY DEF RefInv
<1>8. Recorded(p)'
  <2>1. \A q \in Proc : delTab'[p][q].put = delTab[p][q].put /\ delTab'[p][q].send = delTab[p][q].send
    BY <1>5, <1>6
  <2> QED BY <1>1, <1>4, <1>7, <2>1 DEF Recorded
<1>9. RefInv'
  BY <1>1, <1>6, <1>7, <1>8, CallKeepsRef
<1>10. UNCHANGED Abstract!vars
  BY <1>1, Unseen DEF Seen
<1> QED BY <1>9, <1>10

-----------------------------------------------------------------------------
(* Calling bsp_sync. *)

IsLast(p) == \A q \in Proc \ {p} : step[q] = step[p] /\ pc[q] # "compute"

LEMMA EnterPhases ==
  ASSUME ControlInv, NEW p \in Proc, pc[p] = "compute", pc' = [pc EXCEPT ![p] = "info"],
         UNCHANGED step
  PROVE  /\ IsLast(p) <=> \A q \in Proc \ {p} : Phase[q] = "waiting"
         /\ IsLast(p) => /\ Phase' = [q \in Proc |-> "released"]
                       /\ \A q \in Proc : step[q] = step[p] /\ pc'[q] = "info"
         /\ ~IsLast(p) => Phase' = [Phase EXCEPT ![p] = "waiting"]
<1>1. \A q \in Proc : /\ Meeting(p, q) /\ step[q] <= step[p]
                      /\ step[q] \in Nat
                      /\ pc[q] \in {"req", "deliv"} => Released(q)
                      /\ pc[q] \in {"compute", "info", "req", "deliv"}
  BY ReleasedInSync DEF ControlInv, InStep, ControlTypeOK, Kinds
<1>2. pc'[p] = "info" /\ (\A q \in Proc \ {p} : pc'[q] = pc[q]) /\ step' = step
  BY DEF ControlInv, ControlTypeOK
<1>3. \A q \in Proc : Phase[q] = IF pc[q] = "compute" THEN "compute"
                                ELSE IF Released(q) THEN "released" ELSE "waiting"
  BY DEF Phase
<1>4. \A q \in Proc : Phase'[q] = IF pc'[q] = "compute" THEN "compute"
                                 ELSE IF Released(q)' THEN "released" ELSE "waiting"
  BY DEF Phase
<1>5. /\ Phase = [q \in Proc |-> Phase[q]] /\ Phase' = [q \in Proc |-> Phase'[q]]
  BY DEF Phase
<1>6. ASSUME IsLast(p) PROVE \A q \in Proc \ {p} : Phase[q] = "waiting"
  <2> SUFFICES ASSUME NEW q \in Proc \ {p} PROVE Phase[q] = "waiting"
    OBVIOUS
  <2>1. step[q] = step[p] /\ pc[q] # "compute" /\ step[q] \in Nat
    BY <1>1, <1>6 DEF IsLast
  <2>2. ~Released(q)
    BY <2>1 DEF Released
  <2> QED BY <1>3, <2>1, <2>2
<1>7. ASSUME \A q \in Proc \ {p} : Phase[q] = "waiting" PROVE IsLast(p)
  <2> SUFFICES ASSUME NEW q \in Proc \ {p} PROVE step[q] = step[p] /\ pc[q] # "compute"
    BY DEF IsLast
  <2>1. pc[q] # "compute" /\ ~Released(q)
    BY <1>3, <1>7
  <2>2. pc[q] = "info"
    BY <1>1, <2>1
  <2>3. step[q] = step[p]
    BY <1>1, <2>2 DEF Meeting, SameStep, Ahead, Behind
  <2> QED BY <2>1, <2>3
<1>8. ASSUME IsLast(p)
      PROVE  /\ Phase' = [q \in Proc |-> "released"]
             /\ \A q \in Proc : step[q] = step[p] /\ pc'[q] = "info"
  <2>1. \A q \in Proc : step[q] = step[p] /\ pc'[q] = "info"
    <3> SUFFICES ASSUME NEW q \in Proc PROVE step[q] = step[p] /\ pc'[q] = "info"
      OBVIOUS
    <3>1. CASE q = p
      BY <1>2, <3>1
    <3>2. CASE q # p
      <4>1. step[q] = step[p] /\ pc[q] # "compute" /\ step[p] \in Nat
        BY <1>1, <1>8, <3>2 DEF IsLast
      <4>2. pc[q] = "info"
        BY <1>1, <4>1 DEF Meeting, SameStep, Ahead, Behind
      <4> QED BY <1>2, <3>2, <4>1, <4>2
    <3> QED BY <3>1, <3>2
  <2>2. \A q \in Proc : Released(q)'
    BY <1>2, <2>1 DEF Released
  <2>3. \A q \in Proc : Phase'[q] = "released"
    BY <1>4, <2>1, <2>2
  <2> QED BY <1>5, <2>1, <2>3
<1>9. ASSUME ~IsLast(p) PROVE Phase' = [Phase EXCEPT ![p] = "waiting"]
  <2>1. PICK r \in Proc \ {p} : ~(step[r] = step[p] /\ pc[r] # "compute")
    BY <1>9 DEF IsLast
  <2>2. r \in Proc /\ pc'[r] = pc[r] /\ step[r] <= step[p] /\ step[r] \in Nat /\ step[p] \in Nat
    BY <1>1, <1>2
  <2>3. ~Released(p)'
    <3>1. ~(step[r] > step[p] \/ (step[r] = step[p] /\ pc'[r] # "compute"))
      BY <2>1, <2>2
    <3> QED BY <1>2, <2>2, <3>1 DEF Released
  <2>4. Phase'[p] = "waiting"
    BY <1>2, <1>4, <2>3
  <2>5. ASSUME NEW q \in Proc \ {p} PROVE Phase'[q] = Phase[q]
    <3>1. pc'[q] = pc[q] /\ step[q] <= step[p] /\ step[q] \in Nat
      BY <1>1, <1>2
    <3>2. CASE step[q] < step[p]
      <4>1. \A s \in Proc : (step[s] > step[q] \/ (step[s] = step[q] /\ pc'[s] # "compute"))
                            <=> (step[s] > step[q] \/ (step[s] = step[q] /\ pc[s] # "compute"))
        <5> SUFFICES ASSUME NEW s \in Proc
                     PROVE  (step[s] > step[q] \/ (step[s] = step[q] /\ pc'[s] # "compute"))
                            <=> (step[s] > step[q] \/ (step[s] = step[q] /\ pc[s] # "compute"))
          OBVIOUS
        <5>1. CASE s = p
          BY <2>2, <3>1, <3>2, <5>1
        <5>2. CASE s # p
          BY <1>2, <5>2
        <5> QED BY <5>1, <5>2
      <4>2. Released(q)' <=> Released(q)
        BY <1>2, <4>1 DEF Released
      <4> QED BY <1>3, <1>4, <3>1, <4>2
    <3>3. CASE step[q] = step[p]
      <4>1. ~Released(q)
        BY <2>2, <3>3 DEF Released
      <4>2. pc[q] # "compute" => ~Released(q)'
        <5>1. ~(step[r] > step[q] \/ (step[r] = step[q] /\ pc'[r] # "compute"))
          BY <2>1, <2>2, <3>3
        <5> QED BY <1>2, <2>2, <5>1 DEF Released
      <4> QED BY <1>3, <1>4, <3>1, <4>1, <4>2
    <3> QED BY <2>2, <3>1, <3>2, <3>3
  <2> QED BY <1>5, <2>4, <2>5
<1> QED BY <1>6, <1>7, <1>8, <1>9

(* What Bsplib says the superstep leaves a process with. *)
LEMMA WritesTyped ==
  ASSUME DataInv, posted \in [Proc -> Posted], NEW q \in Proc, NEW p \in Proc
  PROVE  Abstract!WritesFrom(q, p, posted) \in Seq(Write1)
<1> DEFINE gets == posted[p].get[q]
           Answer(i) == [dst |-> gets[i].dst, val |-> mem[q][gets[i].src]]
           answers == [i \in DOMAIN gets |-> Answer(i)]
<1>1. posted[q].put[p] \in Seq(Write1) /\ gets \in Seq(Request)
  BY PostedTyped
<1>2. DOMAIN gets = 1 .. Len(gets) /\ Len(gets) \in Nat /\ \A i \in 1 .. Len(gets) : gets[i] \in Request
  <2> DEFINE R == Request
  <2>1. gets \in Seq(R)
    BY <1>1
  <2> HIDE DEF R, gets
  <2>2. DOMAIN gets = 1 .. Len(gets) /\ Len(gets) \in Nat /\ \A i \in 1 .. Len(gets) : gets[i] \in R
    BY <2>1
  <2> QED BY <2>2 DEF R
<1>3. mem[q] \in [Addr -> Val]
  BY AtCall
<1> HIDE DEF gets
<1>4. \A i \in 1 .. Len(gets) : Answer(i) \in Write1
  BY <1>2, <1>3 DEF Request, Write1
<1> HIDE DEF Answer
<1>5. answers \in Seq(Write1)
  <2> DEFINE W == Write1
  <2>1. \A i \in 1 .. Len(gets) : Answer(i) \in W
    BY <1>4
  <2> HIDE DEF W
  <2>2. answers \in Seq(W)
    BY <1>2, <2>1
  <2> QED BY <2>2 DEF W
<1>6. posted[q].put[p] \o answers \in Seq(Write1)
  <2> HIDE DEF answers
  <2> QED BY <1>1, <1>5, ConcatProperties
<1>7. Abstract!WritesFrom(q, p, posted) = posted[q].put[p] \o answers
  BY DEF Abstract!WritesFrom, answers, Answer, gets
<1> QED BY <1>6, <1>7

LEMMA MemoryOf ==
  ASSUME DataInv, posted \in [Proc -> Posted], NEW q \in Proc
  PROVE  Abstract!MemAfter(q, posted)
           = AfterPuts(mem[q], OfPuts([p \in Proc |-> Abstract!WritesFrom(p, q, posted)]))
<1> DEFINE puts == [p \in Proc |-> Abstract!WritesFrom(p, q, posted)]
           Rec(f) == f = [n \in 0 .. N |-> IF n = 0 THEN mem[q]
                            ELSE [a \in Addr |->
                                    Abstract!LastOf(Abstract!WritesFrom(n-1, q, posted), a, f[n-1][a])]]
           after == CHOOSE f : Rec(f)
<1>1. mem[q] \in [Addr -> Val] /\ puts \in [Proc -> Seq(Write1)]
  BY AtCall, WritesTyped
<1>2. /\ \E f : SourcesInTurn(f, mem[q], puts)
      /\ \A f : SourcesInTurn(f, mem[q], puts) => f[N] = AfterPuts(mem[q], OfPuts(puts))
  <2> HIDE DEF puts
  <2> QED BY <1>1, ColumnsInTurn
<1>3. \A n \in 1 .. N : puts[n-1] = Abstract!WritesFrom(n-1, q, posted)
  <2>1. \A n \in 1 .. N : n - 1 \in Proc
    BY NAssumption DEF Proc
  <2> QED BY <2>1
<1> HIDE DEF puts
<1>4. ASSUME NEW f PROVE Rec(f) <=> SourcesInTurn(f, mem[q], puts)
  <2>1. ASSUME NEW n \in 0 .. N
        PROVE  (IF n = 0 THEN mem[q]
                ELSE [a \in Addr |-> Abstract!LastOf(Abstract!WritesFrom(n-1, q, posted), a, f[n-1][a])])
               = (IF n = 0 THEN mem[q]
                  ELSE [a \in Addr |-> Abstract!LastOf(puts[n-1], a, f[n-1][a])])
    <3>1. CASE n = 0
      BY <3>1
    <3>2. CASE n # 0
      <4>1. n \in 1 .. N
        BY <3>2, NAssumption
      <4>2. puts[n-1] = Abstract!WritesFrom(n-1, q, posted)
        BY <1>3, <4>1
      <4> QED BY <4>2
    <3> QED BY <3>1, <3>2
  <2>2. [n \in 0 .. N |-> IF n = 0 THEN mem[q]
           ELSE [a \in Addr |-> Abstract!LastOf(Abstract!WritesFrom(n-1, q, posted), a, f[n-1][a])]]
        = [n \in 0 .. N |-> IF n = 0 THEN mem[q]
             ELSE [a \in Addr |-> Abstract!LastOf(puts[n-1], a, f[n-1][a])]]
    BY <2>1
  <2> QED BY <2>2 DEF SourcesInTurn
<1>5. Rec(after)
  <2> HIDE DEF Rec
  <2> QED BY <1>2, <1>4
<1>6. after[N] = AfterPuts(mem[q], OfPuts(puts))
  <2> HIDE DEF Rec, after
  <2> QED BY <1>2, <1>4, <1>5
<1>7. Abstract!MemAfter(q, posted) = after[N]
  BY DEF Abstract!MemAfter
<1> QED BY <1>6, <1>7 DEF puts

LEMMA PushedByRows ==
  ASSUME NEW r \in Registers, NEW pushed \in Registers, NEW push \in Seq([Proc -> Addr]),
         \A q \in Proc : ColumnOf(push, q) = pushed[q]
  PROVE  ByRows(r) \o push = ByRows(PushRows(r, pushed))
<1> DEFINE A == [Proc -> Addr]
           all == PushRows(r, pushed)
           left == ByRows(r) \o push
           n == Len(r[0])
           k == Len(push)
<1>1. /\ all \in Registers /\ \A q \in Proc : all[q] = r[q] \o pushed[q]
  BY PushesTyped
<1> HIDE DEF all
<1>2. push \in Seq(A)
  OBVIOUS
<1>3. /\ ByRows(r) \in Seq(A) /\ Len(ByRows(r)) = n /\ n \in Nat
      /\ \A i \in 1 .. n : ByRows(r)[i] = Row(r, i)
  BY ByRowsTyped
<1>4. /\ ByRows(all) \in Seq(A) /\ Len(ByRows(all)) = Len(all[0])
      /\ \A i \in 1 .. Len(all[0]) : ByRows(all)[i] = Row(all, i)
  BY <1>1, ByRowsTyped
<1>5. \A q \in Proc : /\ r[q] \in Seq(Addr) /\ Len(r[q]) = n
                      /\ pushed[q] \in Seq(Addr) /\ Len(pushed[q]) = k
                      /\ \A i \in 1 .. k : pushed[q][i] = push[i][q]
  BY ColumnOfTyped DEF Registers
<1>6. k \in Nat /\ \A i \in 1 .. k : push[i] \in A
  <2> HIDE DEF A
  <2> QED BY <1>2
<1> HIDE DEF A
<1>7. /\ left \in Seq(A) /\ Len(left) = n + k
      /\ \A i \in 1 .. n + k : left[i] = IF i <= n THEN ByRows(r)[i] ELSE push[i - n]
  <2> HIDE DEF n
  <2>1. /\ left \in Seq(A) /\ Len(left) = Len(ByRows(r)) + Len(push)
        /\ \A i \in 1 .. Len(ByRows(r)) + Len(push) :
             left[i] = IF i <= Len(ByRows(r)) THEN ByRows(r)[i] ELSE push[i - Len(ByRows(r))]
    BY <1>2, <1>3, ConcatProperties
  <2> HIDE DEF left
  <2> QED BY <1>3, <2>1
<1> HIDE DEF left, n, k
<1>8. ASSUME NEW q \in Proc
      PROVE  /\ Len(all[q]) = n + k
             /\ \A i \in 1 .. n + k : all[q][i] = IF i <= n THEN r[q][i] ELSE pushed[q][i - n]
  <2> DEFINE u == r[q]
             v == pushed[q]
             w == all[q]
  <2>1. u \in Seq(Addr) /\ Len(u) = n /\ v \in Seq(Addr) /\ Len(v) = k /\ w = u \o v
    BY <1>1, <1>5
  <2> HIDE DEF u, v, w
  <2>2. /\ Len(u \o v) = Len(u) + Len(v)
        /\ \A i \in 1 .. Len(u) + Len(v) : (u \o v)[i] = IF i <= Len(u) THEN u[i] ELSE v[i - Len(u)]
    BY <2>1, ConcatProperties
  <2>3. Len(w) = n + k /\ \A i \in 1 .. n + k : w[i] = IF i <= n THEN u[i] ELSE v[i - n]
    BY <2>1, <2>2
  <2> QED BY <2>3 DEF u, v, w
<1>9. Len(all[0]) = n + k
  BY <1>8, ZeroIsProcess
<1>10. ASSUME NEW i \in 1 .. n + k PROVE left[i] = ByRows(all)[i]
  <2>1. ByRows(all)[i] = [q \in Proc |-> all[q][i]]
    BY <1>4, <1>9 DEF Row
  <2>2. CASE i <= n
    <3>1. left[i] = [q \in Proc |-> r[q][i]]
      BY <1>3, <1>7, <2>2 DEF Row
    <3>2. \A q \in Proc : all[q][i] = r[q][i]
      BY <1>8, <2>2
    <3> QED BY <2>1, <3>1, <3>2
  <2>3. CASE ~(i <= n)
    <3>1. i - n \in 1 .. k
      BY <1>3, <1>6, <2>3
    <3>2. left[i] = push[i - n] /\ push[i - n] \in [Proc -> Addr]
      BY <1>6, <1>7, <2>3, <3>1 DEF A
    <3>3. \A q \in Proc : all[q][i] = push[i - n][q]
      BY <1>5, <1>8, <2>3, <3>1
    <3> QED BY <2>1, <3>2, <3>3
  <2> QED BY <2>2, <2>3
<1>11. left = ByRows(all)
  BY <1>4, <1>7, <1>9, <1>10, SeqEqual
<1> QED BY <1>11 DEF left, all

(* What a process in bspx_sync has passed are all its arguments. *)
LEMMA RecordedAll ==
  ASSUME DataInv, NEW q \in Proc, Recorded(q), step[q] < Len(program.coll),
         done[q] = Len(Collectives(q))
  PROVE  /\ Collectives(q) \in Seq(Collective) /\ step[q] + 1 \in 1 .. Len(program.coll)
         /\ \A s \in Proc : /\ ColumnOf(posted[q].push, s) = AllArgs(Collectives(q), "push", s)
                            /\ ColumnOf(posted[q].pop, s) = AllArgs(Collectives(q), "pop", s)
<1>1. program \in Programs /\ step[q] \in 0 .. Len(program.coll)
  BY DEF DataInv, Types
<1>2. step[q] + 1 \in 1 .. Len(program.coll)
  BY <1>1, Typed
<1>3. Collectives(q) \in Seq(Collective)
  BY <1>1, <1>2, Typed DEF Collectives
<1> QED BY <1>2, <1>3 DEF Recorded, PassedFor, AllArgs

LEMMA SameFunction ==
  ASSUME NEW S, NEW T, NEW g \in [S -> T], NEW h \in [S -> T], \A x \in S : g[x] = h[x]
  PROVE  g = h
OBVIOUS

LEMMA RegistersOf ==
  ASSUME AgreedPops, DataInv, Accord, NEW q \in Proc, posted \in [Proc -> Posted], Recorded(q),
         step[q] < Len(program.coll), done[q] = Len(Collectives(q)), ~Aborts(q)
  PROVE  Abstract!RegsAfter(q, posted) = ByRows(RowsAfter(reg[q], Collectives(q)))
<1> DEFINE list == Collectives(q)
           r == Pushed(reg[q], list)
           push == posted[q].push
           pop == posted[q].pop
           L == Len(pop)
           Popped(s, k) == PoppedRows(r[s], SubSeq(ColumnOf(pop, s), 1, k))
<1>1. /\ list \in Seq(Collective)
      /\ \A s \in Proc : /\ ColumnOf(push, s) = AllArgs(list, "push", s)
                         /\ ColumnOf(pop, s) = AllArgs(list, "pop", s)
  BY RecordedAll
<1>2. push \in Seq([Proc -> Addr]) /\ pop \in Seq([Proc -> Addr])
  BY PostedTyped
<1>3. /\ reg[q] \in Registers /\ r \in Registers
      /\ [p \in Proc |-> AllArgs(list, "push", p)] \in Registers
  BY <1>1, AtCall, PushedTyped
<1>4. ByRows(reg[q]) \o push = ByRows(r)
  BY <1>1, <1>2, <1>3, PushedByRows DEF Pushed
<1>5. \A s \in Proc, k \in 0 .. L : Popped(s, k) = Popped(0, k)
  <2>1. program \in Programs /\ step[q] + 1 \in DOMAIN program.coll /\ step[q] \in Nat
    <3>1. program \in Programs /\ step[q] \in 0 .. Len(program.coll) /\ step[q] + 1 \in 1 .. Len(program.coll)
      BY RecordedAll DEF DataInv, Types
    <3> QED BY <3>1, Typed
  <2>2. r = Pushed(Rows(program)[(step[q] + 1) - 1], program.coll[step[q] + 1])
    <3>1. reg[q] = Rows(program)[step[q]] /\ (step[q] + 1) - 1 = step[q]
      BY <2>1 DEF Accord, Accords
    <3> QED BY <3>1 DEF Collectives
  <2>3. \A s \in Proc, k \in 0 .. Len(AllArgs(list, "pop", 0)) :
          PoppedRows(r[s], SubSeq(AllArgs(list, "pop", s), 1, k))
            = PoppedRows(r[0], SubSeq(AllArgs(list, "pop", 0), 1, k))
    <3>1. PopsAgree(program)
      BY <2>1 DEF AgreedPops
    <3> QED BY <2>1, <2>2, <3>1 DEF PopsAgree, Collectives
  <2>4. Len(AllArgs(list, "pop", 0)) = L
    <3>1. ColumnOf(pop, 0) = AllArgs(list, "pop", 0)
      BY <1>1, ZeroIsProcess
    <3> HIDE DEF list, pop
    <3>2. Len(ColumnOf(pop, 0)) = Len(pop)
      BY <1>2, ZeroIsProcess, ColumnOfTyped
    <3> QED BY <3>1, <3>2
  <2> HIDE DEF r, L, list, pop
  <2> QED BY <1>1, <2>3, <2>4, ZeroIsProcess
<1> HIDE DEF list, r, push, pop
<1>6. ASSUME NEW s \in Proc
      PROVE  \E h : /\ PopsTo(h, r[s], ColumnOf(pop, s))
                    /\ h \in [0 .. L -> RowSets]
                    /\ \A k \in 0 .. L : h[k] = Popped(s, k)
                    /\ h[L] = PoppedRows(r[s], ColumnOf(pop, s))
  <2>1. r[s] \in Seq(Addr) /\ ColumnOf(pop, s) \in Seq(Addr) /\ Len(ColumnOf(pop, s)) = L
    BY <1>2, <1>3, ColumnOfTyped DEF Registers
  <2>2. PICK h : PopsTo(h, r[s], ColumnOf(pop, s)) /\ h[L] = PoppedRows(r[s], ColumnOf(pop, s))
    <3> HIDE DEF L
    <3> QED BY <2>1, PopsInOrder
  <2>3. h \in [0 .. L -> RowSets]
    <3> HIDE DEF L
    <3> QED BY <2>1, <2>2 DEF PopsTo
  <2>4. \A k \in 0 .. L : h[k] = Popped(s, k)
    <3> HIDE DEF L
    <3> QED BY <2>1, <2>2, PopsGrow
  <2> QED BY <2>2, <2>3, <2>4
<1>7. PICK h : /\ PopsTo(h, r[0], ColumnOf(pop, 0))
               /\ h \in [0 .. L -> RowSets]
               /\ \A k \in 0 .. L : h[k] = Popped(0, k)
               /\ h[L] = PoppedRows(r[0], ColumnOf(pop, 0))
  <2>1. 0 \in Proc
    BY ZeroIsProcess
  <2> HIDE DEF L, Popped
  <2> QED BY <1>6, <2>1
<1>8. ASSUME NEW s \in Proc
      PROVE  PopsTo(h, r[s], ColumnOf(pop, s)) /\ h[L] = PoppedRows(r[s], ColumnOf(pop, s))
  <2>1. PICK g : /\ PopsTo(g, r[s], ColumnOf(pop, s))
                 /\ g \in [0 .. L -> RowSets]
                 /\ \A k \in 0 .. L : g[k] = Popped(s, k)
                 /\ g[L] = PoppedRows(r[s], ColumnOf(pop, s))
    <3> HIDE DEF L, Popped
    <3> QED BY <1>6
  <2> HIDE DEF Popped, L
  <2>2. \A k \in 0 .. L : g[k] = h[k]
    <3>1. \A k \in 0 .. L : Popped(s, k) = Popped(0, k)
      BY <1>5
    <3> QED BY <1>7, <2>1, <3>1
  <2>3. g \in [0 .. L -> RowSets] /\ h \in [0 .. L -> RowSets]
    BY <1>7, <2>1
  <2>4. g = h
    <3> DEFINE D == 0 .. L
    <3>1. g \in [D -> RowSets] /\ h \in [D -> RowSets] /\ \A k \in D : g[k] = h[k]
      BY <2>2, <2>3
    <3> HIDE DEF D
    <3> QED BY <3>1, SameFunction
  <2> QED BY <2>1, <2>4
<1>9. PopsEverywhere(h, r, pop)
  BY <1>8 DEF PopsEverywhere
<1>10. 0 \notin h[L] /\ h[L] = PoppedRows(r[0], AllArgs(list, "pop", 0))
  <2>1. Aborts(q) <=> 0 \in PoppedRows(r[q], AllArgs(list, "pop", q))
    BY DEF Aborts, r, list
  <2>2. h[L] = PoppedRows(r[q], AllArgs(list, "pop", q))
    BY <1>1, <1>8
  <2>3. h[L] = PoppedRows(r[0], AllArgs(list, "pop", 0))
    BY <1>1, <1>8, ZeroIsProcess
  <2> QED BY <2>1, <2>2, <2>3
<1>11. /\ \E f : PopsInTurn(f, ByRows(r), pop)
       /\ \A f : PopsInTurn(f, ByRows(r), pop) => f[L] = ByRows(Pack(r, h[L]))
  BY <1>2, <1>3, <1>9, <1>10, PopsAreWithout
<1> DEFINE Rec(f) == f = [n \in 0 .. L |-> IF n = 0 THEN ByRows(reg[q]) \o push
                            ELSE Abstract!Without(f[n-1], pop[n])]
           after == CHOOSE f : Rec(f)
<1>12. \A f : Rec(f) <=> PopsInTurn(f, ByRows(r), pop)
  BY <1>4 DEF PopsInTurn
<1>13. Rec(after)
  <2> HIDE DEF Rec
  <2> QED BY <1>11, <1>12
<1>14. after[L] = ByRows(Pack(r, h[L]))
  <2> HIDE DEF Rec, after
  <2> QED BY <1>11, <1>12, <1>13
<1>15. Abstract!RegsAfter(q, posted) = after[L]
  BY DEF Abstract!RegsAfter, push, pop, ByRows
<1>16. RowsAfter(reg[q], list) = Pack(r, h[L])
  BY <1>10 DEF RowsAfter, r
<1> QED BY <1>14, <1>15, <1>16 DEF list

LEMMA SyncSeen ==
  ASSUME NEW p \in Proc
  PROVE  Abstract!Sync(p) <=>
           /\ Phase[p] = "compute"
           /\ Box' = [Box EXCEPT ![p] = Abstract!EmptyBox]
           /\ IF \A q \in Proc \ {p} : Phase[q] = "waiting"
                THEN /\ Phase' = [q \in Proc |-> "released"]
                     /\ outcome' = [q \in Proc |-> Abstract!Outcome(q, posted)]
                ELSE /\ Phase' = [Phase EXCEPT ![p] = "waiting"]
                     /\ UNCHANGED outcome
           /\ UNCHANGED <<mem, Regs, posted>>
BY DEF Abstract!Sync, Abstract!Proc, Proc, Phase, Box, Regs, Payloads, ByRows

LEMMA OutcomeSeen ==
  ASSUME NEW q \in Proc
  PROVE  /\ Abstract!Outcome(q, posted).mem = Abstract!MemAfter(q, posted)
         /\ Abstract!Outcome(q, posted).regs = Abstract!RegsAfter(q, posted)
         /\ Abstract!Outcome(q, posted).box = [p \in Proc |-> posted[p].send[q]]
BY DEF Abstract!Outcome, Abstract!Proc, Proc

(* The call of the last process fixes what all are left with. *)
LEMMA LastSettles ==
  ASSUME AgreedPops, ControlInv, DataInv, Accord, RefInv, NEW p \in Proc, pc[p] = "compute",
         step[p] < Len(program.coll), done[p] = Len(Collectives(p)),
         pc' = [pc EXCEPT ![p] = "info"], UNCHANGED <<step, program, mem, reg, posted>>,
         IsLast(p), outcome' = [q \in Proc |-> Abstract!Outcome(q, posted)], NEW q \in Proc
  PROVE  Settled(q)'
<1>1. \A r \in Proc : step[r] = step[p] /\ pc'[r] = "info"
  BY EnterPhases
<1>2. posted \in [Proc -> Posted] /\ Recorded(q)
  BY DEF RefInv
<1>3. step[q] < Len(program.coll) /\ done[q] = Len(Collectives(q))
  <2>1. CASE q = p
    BY <2>1
  <2>2. CASE q # p
    <3>1. pc[q] # "compute" /\ KeepsUp(q)
      BY <2>2 DEF IsLast, DataInv
    <3> QED BY <3>1 DEF KeepsUp
  <2> QED BY <2>1, <2>2
<1>4. ASSUME NEW r \in Proc
      PROVE  /\ DueWrites(r, q)' = Abstract!WritesFrom(r, q, posted)
             /\ DueMessages(r, q)' = posted[r].send[q]
  <2>1. ~HasSent(r, q)'
    <3>1. step'[r] = step'[q] /\ pc'[r] = "info" /\ step[q] \in Nat
      BY <1>1 DEF ControlInv, ControlTypeOK
    <3> QED BY <3>1 DEF HasSent
  <2>2. Abstract!WritesFrom(r, q, posted)' = Abstract!WritesFrom(r, q, posted)
    BY DEF Abstract!WritesFrom
  <2> QED BY <2>1, <2>2 DEF DueWrites, DueMessages
<1>5. /\ [r \in Proc |-> DueWrites(r, q)]' = [r \in Proc |-> Abstract!WritesFrom(r, q, posted)]
      /\ [r \in Proc |-> DueMessages(r, q)]' = [r \in Proc |-> posted[r].send[q]]
  BY <1>4
<1>6. outcome'[q].mem = AfterPuts(mem[q], OfPuts([r \in Proc |-> Abstract!WritesFrom(r, q, posted)]))
  BY <1>2, MemoryOf, OutcomeSeen
<1>7. outcome'[q].box = [r \in Proc |-> posted[r].send[q]]
  BY OutcomeSeen
<1>8. ~Aborts(q) => outcome'[q].regs = ByRows(RowsAfter(reg[q], Collectives(q)))
  BY <1>2, <1>3, RegistersOf, OutcomeSeen
<1>9. Collectives(q)' = Collectives(q) /\ (Aborts(q)' <=> Aborts(q))
  BY DEF Aborts, Collectives
<1>10. /\ outcome'[q].mem = AfterPuts(mem'[q], OfPuts([r \in Proc |-> DueWrites(r, q)]'))
       /\ outcome'[q].box = [r \in Proc |-> DueMessages(r, q)]'
       /\ ~Aborts(q)' => outcome'[q].regs = ByRows(RowsAfter(reg'[q], Collectives(q)'))
  BY <1>5, <1>6, <1>7, <1>8, <1>9
<1> QED BY <1>10 DEF Settled

LEMMA RefEnterSteps ==
  ASSUME AgreedPops, ControlInv, DataInv, Accord, RefInv, NEW p \in Proc, RefEnter(p)
  PROVE  RefInv' /\ Abstract!Sync(p)
<1> DEFINE blocks == [q \in Proc |-> Block("info", anyGets'[p])]
<1>1. /\ pc[p] = "compute" /\ step[p] < Len(program.coll) /\ done[p] = Len(Collectives(p))
      /\ mq' = [mq EXCEPT ![p] = QueueSync(mq[p])] /\ pc' = [pc EXCEPT ![p] = "info"]
      /\ Enter(p, blocks)
      /\ UNCHANGED <<step, program, done, mem, reg, reqTab, delTab, posted>>
  BY DEF RefEnter, EnterSync, Computing
<1>2. outcome' = IF IsLast(p) THEN [q \in Proc |-> Abstract!Outcome(q, posted)] ELSE outcome
  BY DEF RefEnter, IsLast
<1>3. ControlTypeOK /\ \A q \in Proc : pc'[q] = IF q = p THEN "info" ELSE pc[q]
  BY <1>1 DEF ControlInv, ControlTypeOK
<1>4. Abstract!Sync(p)
  <2>1. Phase[p] = "compute" /\ UNCHANGED Regs
    BY <1>1, Unseen DEF Phase
  <2>2. Box' = [Box EXCEPT ![p] = Abstract!EmptyBox]
    BY <1>1, BoxEmptied
  <2>3. /\ IsLast(p) <=> \A q \in Proc \ {p} : Phase[q] = "waiting"
        /\ IsLast(p) => Phase' = [q \in Proc |-> "released"]
        /\ ~IsLast(p) => Phase' = [Phase EXCEPT ![p] = "waiting"]
    BY <1>1, EnterPhases
  <2> QED BY <1>1, <1>2, <2>1, <2>2, <2>3, SyncSeen
<1>5. ASSUME NEW q \in Proc, NEW r \in Proc PROVE Requests(q, r)'
  <2>1. InTransit(q, r)' \subseteq InTransit(q, r) \union {b \in {blocks[r]} : q = p}
    BY <1>1, EnterTransit
  <2>2. blocks[r].kind = "info"
    BY DEF Block
  <2>3. Requests(q, r)
    BY DEF RefInv
  <2> QED BY <1>1, <2>1, <2>2, <2>3 DEF Requests
<1>6. ASSUME NEW q \in Proc PROVE Recorded(q)'
  <2>1. Recorded(q) /\ (pc'[q] # "deliv" => pc[q] # "deliv")
    BY <1>1, <1>3 DEF RefInv
  <2> QED BY <1>1, <2>1, RecordedStays
<1>7. ASSUME ~IsLast(p), NEW q \in Proc PROVE Settled(q)'
  <2>1. Settled(q)
    BY DEF RefInv
  <2>2. ASSUME pc'[q] # "compute", Released(q)'
        PROVE  pc[q] # "compute" /\ Released(q) /\ SameDue(q)
    <3>1. Phase' = [Phase EXCEPT ![p] = "waiting"] /\ Phase'[q] = "released"
      BY <1>1, <1>7, <2>2, EnterPhases DEF Phase
    <3>2. q # p /\ Phase[q] = "released"
      BY <3>1 DEF Phase
    <3>3. pc[q] # "compute" /\ Released(q) /\ pc'[q] = pc[q]
      BY <1>3, <3>2 DEF Phase
    <3>4. ASSUME NEW r \in Proc
          PROVE  DueWrites(r, q)' = DueWrites(r, q) /\ DueMessages(r, q)' = DueMessages(r, q)
      <4>1. CASE r = p
        <5>1. HasSent(p, q)
          BY <1>1, <3>3, ComputingHasSent
        <5>2. step[p] > step[q]
          BY <1>1, <5>1 DEF HasSent
        <5>3. Meeting(p, q) /\ step[p] \in Nat /\ step[q] \in Nat
          BY DEF ControlInv, InStep, ControlTypeOK
        <5>4. One(p, q, "deliv") /\ pc[q] = "deliv"
          BY <1>1, <5>2, <5>3 DEF Meeting, SameStep, Ahead, Behind
        <5>5. PICK b : chan[p][q] = <<b>>
          BY <5>4 DEF One
        <5>6. chan'[p][q] = Append(chan[p][q], blocks[q])
          <6>1. Enter(p, blocks)
            BY <1>1
          <6> HIDE DEF blocks
          <6>2. \A s, t \in Proc : chan'[s][t] = IF s = p THEN Append(chan[s][t], blocks[t])
                                                          ELSE chan[s][t]
            BY <1>3, <6>1, EnterChan
          <6> QED BY <6>2
        <5>7. chan'[p][q] = <<b, blocks[q]>>
          <6> HIDE DEF blocks
          <6> QED BY <5>5, <5>6, AppendToOne
        <5>8. chan'[p][q][1] = chan[p][q][1]
          <6> HIDE DEF blocks
          <6> QED BY <5>5, <5>7, OfOne, OfTwo
        <5>9. HasSent(p, q)' /\ Sent(p, q)' = Sent(p, q)
          BY <1>1, <3>3, <5>2, <5>4, <5>8 DEF HasSent, Sent
        <5> QED BY <4>1, <5>1, <5>9, DueStays
      <4>2. CASE r # p
        <5>1. chan'[r][q] = chan[r][q]
          BY <1>1, <1>3, <4>2, EnterChan
        <5>2. (HasSent(r, q)' <=> HasSent(r, q)) /\ Sent(r, q)' = Sent(r, q)
          BY <1>1, <1>3, <3>3, <4>2, <5>1 DEF HasSent, Sent
        <5> QED BY <1>1, <5>2, DueStays
      <4> QED BY <4>1, <4>2
    <3> QED BY <3>3, <3>4 DEF SameDue
  <2> QED BY <1>1, <1>2, <1>7, <2>1, <2>2, SettledStays
<1>8. ASSUME IsLast(p), NEW q \in Proc PROVE Settled(q)'
  BY <1>1, <1>2, <1>8, LastSettles
<1> QED BY <1>1, <1>4, <1>5, <1>6, <1>7, <1>8 DEF RefInv

-----------------------------------------------------------------------------
(* Going on inside bspx_sync changes nothing for Bsplib: what was due and  *)
(* what is now on its way are the same.                                    *)

LEMMA StillInSync ==
  ASSUME NEW p \in Proc, pc[p] # "compute", pc'[p] # "compute",
         \A q \in Proc \ {p} : pc'[q] = pc[q], UNCHANGED step
  PROVE  /\ UNCHANGED Phase
         /\ \A q \in Proc : (Released(q)' <=> Released(q)) /\ (pc'[q] = "compute" <=> pc[q] = "compute")
<1>1. \A q \in Proc : pc'[q] = "compute" <=> pc[q] = "compute"
  OBVIOUS
<1>2. ASSUME NEW q \in Proc PROVE Released(q)' <=> Released(q)
  BY <1>1 DEF Released
<1>3. \A q \in Proc : Phase'[q] = Phase[q]
  BY <1>1, <1>2 DEF Phase
<1>4. Phase = [q \in Proc |-> Phase[q]] /\ Phase' = [q \in Proc |-> Phase'[q]]
  BY DEF Phase
<1> QED BY <1>1, <1>2, <1>3, <1>4

LEMMA LastGiven ==
  ASSUME NEW S, NEW s \in Seq(S), NEW b
  PROVE  Append(s, b)[Len(Append(s, b))] = b
<1> DEFINE T == S \union {b}
<1>1. s \in Seq(T) /\ b \in T
  BY SeqMonotonic
<1> HIDE DEF T
<1> QED BY <1>1, AppendProperties

(* The deliveries of p are the last it has given to q ... *)
LEMMA SentLast ==
  ASSUME ControlInv, ControlInv', NEW p \in Proc, pc[p] \in {"info", "req"}, CanLeave(p),
         NEW blocks, LeaveAndEnter(p, blocks), pc' = [pc EXCEPT ![p] = "deliv"], UNCHANGED step,
         NEW q \in Proc
  PROVE  HasSent(p, q)' /\ ~HasSent(p, q) /\ Sent(p, q)' = blocks[q].body
<1>1. step[q] = step[p] /\ step[p] \in Nat /\ pc'[p] = "deliv"
  BY AllInStep DEF ControlInv, ControlTypeOK
<1>2. HasSent(p, q)' /\ ~HasSent(p, q)
  BY <1>1 DEF HasSent
<1>3. \E rest, S : rest \in Seq(S) /\ chan'[p][q] = Append(rest, blocks[q])
  <2> DEFINE rest == IF q = p THEN Tail(chan[p][q]) ELSE chan[p][q]
  <2>1. chan'[p][q] = Append(rest, blocks[q])
    <3>1. ControlTypeOK
      BY DEF ControlInv
    <3>2. \A s, r \in Proc :
            chan'[s][r] = LET kept == IF r = p THEN Tail(chan[s][r]) ELSE chan[s][r]
                          IN  IF s = p THEN Append(kept, blocks[r]) ELSE kept
      BY <3>1, LeaveAndEnterChan
    <3> QED BY <3>2
  <2>2. PICK S : chan[p][q] \in Seq(S)
    BY TransitShape
  <2>3. chan[p][q] # <<>> => \E T : Tail(chan[p][q]) \in Seq(T)
    BY <2>2, ElementsAfter
  <2>4. q = p => chan[p][q] # <<>>
    BY DEF CanLeave
  <2>5. \E T : rest \in Seq(T)
    BY <2>2, <2>3, <2>4
  <2> HIDE DEF rest
  <2> QED BY <2>1, <2>5
<1>4. chan'[p][q][Len(chan'[p][q])] = blocks[q]
  BY <1>3, LastGiven
<1>5. Len(chan'[p][q]) = IF pc'[q] = "deliv" THEN 1 ELSE 2
  <2>1. SameStep(p, q)'
    <3>1. Meeting(p, q)'
      BY DEF ControlInv, InStep
    <3> QED BY <1>1, <3>1 DEF Meeting, Ahead, Behind
  <2>2. \/ pc'[q] = "info" /\ Two(p, q, "info", "deliv")'
        \/ pc'[q] = "req" /\ Two(p, q, "req", "deliv")'
        \/ pc'[q] = "deliv" /\ One(p, q, "deliv")'
    BY <1>1, <2>1 DEF SameStep
  <2> QED BY <2>2 DEF One, Two
<1> QED BY <1>2, <1>4, <1>5 DEF Sent

(* ... and those of the others become the next that p takes. *)
LEMMA NextIsSent ==
  ASSUME ControlInv, NEW p \in Proc, pc[p] \in {"info", "req"}, CanLeave(p),
         NEW blocks, LeaveAndEnter(p, blocks), pc' = [pc EXCEPT ![p] = "deliv"], UNCHANGED step,
         NEW r \in Proc, r # p, HasSent(r, p)
  PROVE  HasSent(r, p)' /\ Sent(r, p)' = Sent(r, p)
<1>1. step[r] = step[p] /\ step[p] \in Nat /\ pc'[p] = "deliv" /\ pc'[r] = pc[r]
  BY AllInStep DEF ControlInv, ControlTypeOK
<1>2. pc[r] = "deliv"
  BY <1>1 DEF HasSent
<1>3. Two(r, p, pc[p], "deliv")
  <2>1. Meeting(r, p)
    BY DEF ControlInv, InStep
  <2> QED BY <1>1, <1>2, <2>1 DEF Meeting, SameStep, Ahead, Behind
<1>4. PICK a, b : chan[r][p] = <<a, b>>
  BY <1>3 DEF Two
<1>5. chan'[r][p] = Tail(chan[r][p])
  BY LeaveAndEnterChan DEF ControlInv
<1>6. chan'[r][p] = <<b>>
  BY <1>4, <1>5, OfTwo
<1>7. chan'[r][p][1] = chan[r][p][2]
  BY <1>4, <1>6, OfOne, OfTwo
<1>8. HasSent(r, p)' /\ pc[p] # "deliv"
  BY <1>1, <1>2 DEF HasSent
<1> QED BY <1>1, <1>7, <1>8 DEF Sent

LEMMA DeliveriesSettle ==
  ASSUME ControlInv, ControlInv', RefInv, NEW p \in Proc, pc[p] \in {"info", "req"}, CanLeave(p),
         NEW blocks, LeaveAndEnter(p, blocks), pc' = [pc EXCEPT ![p] = "deliv"],
         UNCHANGED <<step, program, mem, reg, posted, outcome>>,
         \A q \in Proc : /\ blocks[q].body.put = Abstract!WritesFrom(p, q, posted)
                         /\ Payloads(blocks[q].body.send) = posted[p].send[q],
         NEW q \in Proc
  PROVE  Settled(q)'
<1>1. Settled(q)
  BY DEF RefInv
<1>2. pc'[p] = "deliv" /\ (\A r \in Proc \ {p} : pc'[r] = pc[r])
  BY DEF ControlInv, ControlTypeOK
<1>3. (Released(q)' <=> Released(q)) /\ (pc'[q] = "compute" <=> pc[q] = "compute")
  BY <1>2, StillInSync
<1>4. ASSUME NEW r \in Proc
      PROVE  DueWrites(r, q)' = DueWrites(r, q) /\ DueMessages(r, q)' = DueMessages(r, q)
  <2>1. CASE r = p
    <3>1. HasSent(p, q)' /\ ~HasSent(p, q) /\ Sent(p, q)' = blocks[q].body
      BY SentLast
    <3>2. DueWrites(p, q)' = blocks[q].body.put /\ DueMessages(p, q)' = Payloads(blocks[q].body.send)
      BY <3>1 DEF DueWrites, DueMessages
    <3>3. DueWrites(p, q) = Abstract!WritesFrom(p, q, posted) /\ DueMessages(p, q) = posted[p].send[q]
      BY <3>1 DEF DueWrites, DueMessages
    <3> QED BY <2>1, <3>2, <3>3
  <2>2. CASE r # p /\ q = p
    <3>1. CASE HasSent(r, p)
      <4>1. HasSent(r, q)' /\ Sent(r, q)' = Sent(r, q)
        BY <2>2, <3>1, NextIsSent
      <4> QED BY <2>2, <3>1, <4>1, DueStays
    <3>2. CASE ~HasSent(r, p)
      <4>1. ~HasSent(r, q)'
        BY <1>2, <2>2, <3>2 DEF HasSent
      <4> QED BY <2>2, <3>2, <4>1, DueStays
    <3> QED BY <3>1, <3>2
  <2>3. CASE r # p /\ q # p
    <3>1. ControlTypeOK
      BY DEF ControlInv
    <3>2. \A s, t \in Proc :
            chan'[s][t] = LET kept == IF t = p THEN Tail(chan[s][t]) ELSE chan[s][t]
                          IN  IF s = p THEN Append(kept, blocks[t]) ELSE kept
      BY <3>1, LeaveAndEnterChan
    <3>3. chan'[r][q] = chan[r][q] /\ pc'[r] = pc[r] /\ pc'[q] = pc[q]
      BY <1>2, <2>3, <3>2
    <3>4. (HasSent(r, q)' <=> HasSent(r, q)) /\ Sent(r, q)' = Sent(r, q)
      BY <3>3 DEF HasSent, Sent
    <3> QED BY <3>4, DueStays
  <2> QED BY <2>1, <2>2, <2>3
<1>5. SameDue(q)
  BY <1>4 DEF SameDue
<1> QED BY <1>1, <1>3, <1>5, SettledStays

(* The blocks with the requests are not deliveries. *)
LEMMA RequestsSettle ==
  ASSUME ControlInv, ControlInv', RefInv, NEW p \in Proc, pc[p] = "info", CanLeave(p),
         NEW blocks, LeaveAndEnter(p, blocks), pc' = [pc EXCEPT ![p] = "req"],
         UNCHANGED <<step, program, mem, reg, posted, outcome>>,
         NEW q \in Proc
  PROVE  Settled(q)'
<1>1. Settled(q)
  BY DEF RefInv
<1>2. pc'[p] = "req" /\ (\A r \in Proc \ {p} : pc'[r] = pc[r]) /\ step[p] \in Nat
  BY DEF ControlInv, ControlTypeOK
<1>3. (Released(q)' <=> Released(q)) /\ (pc'[q] = "compute" <=> pc[q] = "compute")
  BY <1>2, StillInSync
<1>4. \A r, s \in Proc :
        chan'[r][s] = LET kept == IF s = p THEN Tail(chan[r][s]) ELSE chan[r][s]
                      IN  IF r = p THEN Append(kept, blocks[s]) ELSE kept
  <2>1. ControlTypeOK
    BY DEF ControlInv
  <2> QED BY <2>1, LeaveAndEnterChan
<1>5. ASSUME NEW r \in Proc
      PROVE  DueWrites(r, q)' = DueWrites(r, q) /\ DueMessages(r, q)' = DueMessages(r, q)
  <2>1. HasSent(r, q)' <=> HasSent(r, q)
    <3>1. (pc'[r] = "deliv") <=> (pc[r] = "deliv")
      BY <1>2
    <3> QED BY <3>1 DEF HasSent
  <2>2. CASE ~HasSent(r, q)
    BY <2>1, <2>2, DueStays
  <2>3. CASE HasSent(r, q)
    <3>1. r # p
      <4>1. step[q] = step[p]
        BY AllInStep
      <4> QED BY <1>2, <2>3, <4>1 DEF HasSent
    <3>2. q # p
      <4> SUFFICES ASSUME q = p PROVE FALSE
        OBVIOUS
      <4>1. step[r] = step[p]
        BY AllInStep
      <4>2. pc[r] = "deliv"
        BY <1>2, <2>3, <4>1 DEF HasSent
      <4>3. Meeting(r, p) /\ Meeting(r, p)'
        BY DEF ControlInv, InStep
      <4>4. Two(r, p, "info", "deliv")
        BY <1>2, <4>1, <4>2, <4>3 DEF Meeting, SameStep, Ahead, Behind
      <4>5. Two(r, p, "req", "deliv")'
        BY <1>2, <3>1, <4>1, <4>2, <4>3 DEF Meeting, SameStep, Ahead, Behind
      <4>6. chan'[r][p] = Tail(chan[r][p])
        BY <1>4, <3>1
      <4>7. PICK a, b : chan[r][p] = <<a, b>>
        BY <4>4 DEF Two
      <4>8. chan'[r][p] = <<b>>
        BY <4>6, <4>7, OfTwo
      <4> QED BY <4>5, <4>8, OfOne DEF Two
    <3>3. chan'[r][q] = chan[r][q] /\ pc'[q] = pc[q]
      BY <1>2, <1>4, <3>1, <3>2
    <3>4. Sent(r, q)' = Sent(r, q)
      BY <3>3 DEF Sent
    <3> QED BY <2>1, <2>3, <3>4, DueStays
  <2> QED BY <2>2, <2>3
<1>6. SameDue(q)
  BY <1>5 DEF SameDue
<1> QED BY <1>1, <1>3, <1>6, SettledStays

LEMMA LeaveInfoSteps ==
  ASSUME ControlInv, DataInv, RefInv, NEW p \in Proc, LeaveInfo(p), Same
  PROVE  RefInv' /\ UNCHANGED Abstract!vars
<1>1. /\ pc[p] = "info" /\ CanLeave(p)
      /\ anyGets' = [anyGets EXCEPT ![p] = AnyGets(p)]
      /\ UNCHANGED <<step, program, done, mem, reg, mq, reqTab, delTab, posted, outcome>>
  BY DEF LeaveInfo, Same
<1>2. PICK next, blocks :
        /\ next \in {"req", "deliv"} /\ pc' = [pc EXCEPT ![p] = next]
        /\ LeaveAndEnter(p, blocks)
        /\ \/ next = "req" /\ \A q \in Proc : blocks[q] = Block("req", reqTab[p][q])
           \/ next = "deliv" /\ ~anyGets'[p] /\ \A q \in Proc : blocks[q] = Block("deliv", delTab[p][q])
  BY DEF LeaveInfo
<1>3. ControlInv'
  BY LeaveInfoKeepsControl
<1>4. pc'[p] = next /\ (\A r \in Proc \ {p} : pc'[r] = pc[r]) /\ anyGets'[p] = AnyGets(p)
  BY <1>1, <1>2 DEF ControlInv, ControlTypeOK
<1>5. posted \in [Proc -> Posted] /\ \A q \in Proc : Recorded(q)
  BY DEF RefInv
<1>6. UNCHANGED Abstract!vars
  <2>1. UNCHANGED Phase
    BY <1>1, <1>2, <1>4, StillInSync
  <2> QED BY <1>1, <2>1, Unseen DEF Seen
<1>7. ASSUME NEW q \in Proc, NEW r \in Proc PROVE Requests(q, r)'
  <2>1. InTransit(q, r)' \subseteq InTransit(q, r) \union {b \in {blocks[r]} : q = p}
    BY <1>1, <1>2, LeaveAndEnterTransit
  <2>2. blocks[r].kind = "req" => blocks[r].body = posted[p].get[r]
    <3>1. blocks[r] = Block("req", reqTab[p][r]) \/ blocks[r] = Block("deliv", delTab[p][r])
      BY <1>2
    <3>2. posted[p].get[r] = reqTab[p][r]
      BY <1>5 DEF Recorded
    <3> QED BY <3>1, <3>2 DEF Block
  <2>3. Requests(q, r)
    BY DEF RefInv
  <2> QED BY <1>1, <2>1, <2>2, <2>3 DEF Requests
<1>8. ASSUME NEW q \in Proc PROVE Recorded(q)'
  <2>1. pc'[q] # "deliv" => pc[q] # "deliv"
    BY <1>1, <1>4
  <2> QED BY <1>1, <1>5, <2>1, RecordedStays
<1>9. ASSUME NEW q \in Proc PROVE Settled(q)'
  <2>1. CASE next = "req"
    <3>1. pc' = [pc EXCEPT ![p] = "req"]
      BY <1>2, <2>1
    <3> QED BY <1>1, <1>2, <1>3, <3>1, RequestsSettle
  <2>2. CASE next = "deliv"
    <3>1. pc' = [pc EXCEPT ![p] = "deliv"]
      BY <1>2, <2>2
    <3>2. ASSUME NEW r \in Proc
          PROVE  /\ blocks[r].body.put = Abstract!WritesFrom(p, r, posted)
                 /\ Payloads(blocks[r].body.send) = posted[p].send[r]
      <4>1. blocks[r].body = delTab[p][r]
        <5>1. blocks[r] = Block("deliv", delTab[p][r])
          BY <1>2, <2>2
        <5> QED BY <5>1 DEF Block
      <4>2. delTab[p][r].put = posted[p].put[r] /\ Payloads(delTab[p][r].send) = posted[p].send[r]
        BY <1>1, <1>5 DEF Recorded
      <4>3. posted[r].get[p] = <<>>
        <5>1. ~Received(p, r)
          BY <1>2, <1>4, <2>2 DEF AnyGets
        <5>2. Received(p, r) = IssuedGets(r)
          <6>1. Meeting(r, p) /\ chan[r][p] # <<>>
            BY <1>1 DEF ControlInv, InStep, CanLeave
          <6>2. IsBlock(chan[r][p][1], r, "info") /\ \E b, c : chan[r][p] = <<b>> \/ chan[r][p] = <<b, c>>
            BY <1>1, <6>1 DEF Meeting, SameStep, Ahead, Behind, None, One, Two
          <6>3. Head(chan[r][p]) = chan[r][p][1]
            BY <6>2, OfOne, OfTwo
          <6> QED BY <6>2, <6>3 DEF Received, IsBlock
        <5>3. reqTab[r][p] = <<>>
          BY <5>1, <5>2 DEF IssuedGets
        <5> QED BY <1>5, <5>3 DEF Recorded
      <4>4. Abstract!WritesFrom(p, r, posted) = posted[p].put[r]
        <5> DEFINE gets == posted[r].get[p]
                   answers == [i \in DOMAIN gets |-> [dst |-> gets[i].dst, val |-> mem[p][gets[i].src]]]
        <5>1. answers = <<>>
          BY <4>3
        <5>2. Abstract!WritesFrom(p, r, posted) = posted[p].put[r] \o answers
          BY DEF Abstract!WritesFrom
        <5> HIDE DEF answers
        <5>3. posted[p].put[r] \in Seq(Write1)
          BY <1>5, PostedTyped
        <5>4. posted[p].put[r] \o <<>> = posted[p].put[r]
          <6> HIDE DEF gets
          <6> QED BY <5>3
        <5> QED BY <5>1, <5>2, <5>4
      <4> QED BY <4>1, <4>2, <4>4
    <3>3. LeaveAndEnter(p, blocks) /\ pc[p] \in {"info", "req"}
      BY <1>1, <1>2
    <3> QED BY <1>1, <1>3, <3>1, <3>2, <3>3, DeliveriesSettle
  <2> QED BY <1>2, <2>1, <2>2
<1> QED BY <1>1, <1>5, <1>6, <1>7, <1>8, <1>9 DEF RefInv

LEMMA LeaveReqSteps ==
  ASSUME ControlInv, DataInv, RefInv, NEW p \in Proc, LeaveReq(p), Same
  PROVE  RefInv' /\ UNCHANGED Abstract!vars
<1> DEFINE blocks == [q \in Proc |-> Block("deliv", delTab'[p][q])]
<1>1. /\ pc[p] = "req" /\ CanLeave(p) /\ pc' = [pc EXCEPT ![p] = "deliv"]
      /\ delTab' = [delTab EXCEPT ![p] = Answered(p)]
      /\ LeaveAndEnter(p, blocks)
      /\ UNCHANGED <<step, program, done, mem, reg, mq, reqTab, posted, outcome>>
  BY DEF LeaveReq, Same
<1>2. ControlInv'
  BY LeaveReqKeepsControl
<1>3. pc'[p] = "deliv" /\ (\A r \in Proc \ {p} : pc'[r] = pc[r])
  BY <1>1 DEF ControlInv, ControlTypeOK
<1>4. delTab'[p] = Answered(p) /\ \A r \in Proc \ {p} : delTab'[r] = delTab[r]
  BY <1>1, AtCall DEF Tables
<1>5. posted \in [Proc -> Posted] /\ \A q \in Proc : Recorded(q)
  BY DEF RefInv
<1>6. UNCHANGED Abstract!vars
  <2>1. UNCHANGED Phase
    BY <1>1, <1>3, StillInSync
  <2> QED BY <1>1, <2>1, Unseen DEF Seen
<1>7. ASSUME NEW q \in Proc, NEW r \in Proc PROVE Requests(q, r)'
  <2>1. InTransit(q, r)' \subseteq InTransit(q, r) \union {b \in {blocks[r]} : q = p}
    BY <1>1, LeaveAndEnterTransit
  <2>2. blocks[r].kind = "deliv"
    BY DEF Block
  <2>3. Requests(q, r)
    BY DEF RefInv
  <2> QED BY <1>1, <2>1, <2>2, <2>3 DEF Requests
<1>8. ASSUME NEW q \in Proc PROVE Recorded(q)'
  <2>1. pc'[q] # "deliv" => pc[q] # "deliv" /\ delTab'[q] = delTab[q]
    BY <1>3, <1>4
  <2> QED BY <1>1, <1>5, <2>1, RecordedStays
<1>9. ASSUME NEW r \in Proc
      PROVE  /\ blocks[r].body.put = Abstract!WritesFrom(p, r, posted)
             /\ Payloads(blocks[r].body.send) = posted[p].send[r]
  <2> DEFINE gets == posted[r].get[p]
             requests == Received(p, r)
             c == delTab[p][r]
  <2>1. blocks[r].body = Answered(p)[r]
    BY <1>4 DEF Block
  <2>2. posted[p].put[r] = c.put /\ posted[p].send[r] = Payloads(c.send)
    BY <1>1, <1>5 DEF Recorded
  <2>3. requests = gets
    <3>1. Head(chan[r][p]) \in InTransit(r, p) /\ Head(chan[r][p]).kind = "req"
      BY <1>1, NextBlock
    <3>2. Requests(r, p)
      BY DEF RefInv
    <3> QED BY <3>1, <3>2 DEF Requests, Received
  <2>4. Answered(p)[r].send = c.send
    BY <1>1, AnswersTyped
  <2>5. Answered(p)[r] = [c EXCEPT !.put = @ \o [i \in DOMAIN requests |-> Reply(p, requests[i])]]
    BY DEF Answered
  <2>6. c = [put |-> c.put, push |-> c.push, send |-> c.send, pop |-> c.pop, tag |-> c.tag]
    BY AtCall DEF Deliveries
  <2>7. Answered(p)[r].put = c.put \o [i \in DOMAIN requests |-> Reply(p, requests[i])]
    <3> HIDE DEF c, requests
    <3> QED BY <2>5, <2>6
  <2>8. [i \in DOMAIN requests |-> Reply(p, requests[i])]
          = [i \in DOMAIN gets |-> [dst |-> gets[i].dst, val |-> mem[p][gets[i].src]]]
    BY <2>3 DEF Reply
  <2>9. Abstract!WritesFrom(p, r, posted)
          = posted[p].put[r] \o [i \in DOMAIN gets |-> [dst |-> gets[i].dst, val |-> mem[p][gets[i].src]]]
    BY DEF Abstract!WritesFrom
  <2> HIDE DEF blocks, c, requests, gets
  <2> QED BY <2>1, <2>2, <2>4, <2>7, <2>8, <2>9
<1>10. ASSUME NEW q \in Proc PROVE Settled(q)'
  <2> HIDE DEF blocks
  <2> QED BY <1>1, <1>2, <1>9, DeliveriesSettle
<1> QED BY <1>1, <1>5, <1>6, <1>7, <1>8, <1>10 DEF RefInv

-----------------------------------------------------------------------------
(* Returning from bsp_sync. *)

LEMMA ReturnPhases ==
  ASSUME ControlInv, NEW p \in Proc, pc[p] = "deliv", pc' = [pc EXCEPT ![p] = "compute"],
         step' = [step EXCEPT ![p] = step[p] + 1]
  PROVE  /\ Phase[p] = "released" /\ Phase' = [Phase EXCEPT ![p] = "compute"]
         /\ \A q \in Proc \ {p} : /\ Released(q)' <=> Released(q)
                                  /\ HasSent(p, q)' <=> HasSent(p, q)
                                  /\ Released(q) => HasSent(p, q)
<1>1. /\ \A q \in Proc : step[q] \in Nat
      /\ pc'[p] = "compute" /\ step'[p] = step[p] + 1
      /\ \A q \in Proc \ {p} : pc'[q] = pc[q] /\ step'[q] = step[q]
  BY DEF ControlInv, ControlTypeOK
<1>2. ASSUME NEW q \in Proc \ {p}
      PROVE  /\ Released(q)' <=> Released(q)
             /\ HasSent(p, q)' <=> HasSent(p, q)
             /\ Released(q) => HasSent(p, q)
  <2>1. ASSUME NEW r \in Proc
        PROVE  (step'[r] > step'[q] \/ (step'[r] = step'[q] /\ pc'[r] # "compute"))
               <=> (step[r] > step[q] \/ (step[r] = step[q] /\ pc[r] # "compute"))
    BY <1>1
  <2>2. Released(q)' <=> Released(q)
    BY <2>1 DEF Released
  <2>3. HasSent(p, q)' <=> HasSent(p, q)
    BY <1>1 DEF HasSent
  <2>4. Released(q) => HasSent(p, q)
    BY <1>1 DEF Released, HasSent
  <2> QED BY <2>2, <2>3, <2>4
<1>3. Phase[p] = "released"
  BY ReleasedInSync DEF Phase
<1>4. \A q \in Proc : Phase'[q] = IF q = p THEN "compute" ELSE Phase[q]
  BY <1>1, <1>2 DEF Phase
<1>5. Phase = [q \in Proc |-> Phase[q]] /\ Phase' = [q \in Proc |-> Phase'[q]]
  BY DEF Phase
<1> QED BY <1>2, <1>3, <1>4, <1>5

(* What is due to p is what it takes. *)
LEMMA DueIsTaken ==
  ASSUME ControlInv, NEW p \in Proc, pc[p] = "deliv", CanLeave(p), NEW q \in Proc
  PROVE  /\ DueWrites(q, p) = Columns(p)[q].put
         /\ DueMessages(q, p) = Payloads(Columns(p)[q].send)
<1>1. /\ Meeting(q, p) /\ ~None(q, p) /\ step[p] \in Nat /\ step[q] \in Nat
  BY DEF ControlInv, InStep, CanLeave, None, ControlTypeOK
<1>2. HasSent(q, p)
  BY <1>1 DEF Meeting, SameStep, Ahead, Behind, HasSent
<1>3. \E a, b : chan[q][p] = <<a>> \/ chan[q][p] = <<a, b>>
  BY <1>1 DEF Meeting, SameStep, Ahead, Behind, One, Two
<1>4. Head(chan[q][p]) = chan[q][p][1]
  BY <1>3, OfOne, OfTwo
<1>5. Sent(q, p) = Columns(p)[q]
  BY <1>4 DEF Sent, Columns, Received
<1> QED BY <1>2, <1>5 DEF DueWrites, DueMessages

LEMMA ReturnOutcome ==
  ASSUME LegalPrograms, ControlInv, DataInv, Accord, RefInv, NEW p \in Proc, Returns(p), ~Aborts(p)
  PROVE  /\ mem' = [mem EXCEPT ![p] = outcome[p].mem]
         /\ Regs' = [Regs EXCEPT ![p] = outcome[p].regs]
         /\ Box' = [Box EXCEPT ![p] = outcome[p].box]
<1> DEFINE list == Collectives(p)
           columns == Columns(p)
           removed == PoppedRows(PushedRows(p)[p], columns[p].pop)
<1>1. /\ pc[p] = "deliv" /\ CanLeave(p)
      /\ mem' = [mem EXCEPT ![p] = AfterPuts(mem[p], columns)]
      /\ reg' = [reg EXCEPT ![p] = Pack(PushedRows(p), removed)]
      /\ \A r \in Proc \ {p} : mq'[r] = mq[r]
      /\ \A q \in Proc : mq'[p].pending[q] = columns[q].send
  BY DEF Returns
<1>2. /\ columns \in [Proc -> Deliveries] /\ columns[p].pop = AllArgs(list, "pop", p)
      /\ step[p] < Len(program.coll) /\ PushedRows(p) = Pushed(reg[p], list)
  BY <1>1, DeliveriesTaken
<1>3. /\ outcome[p].mem = AfterPuts(mem[p], OfPuts([q \in Proc |-> DueWrites(q, p)]))
      /\ outcome[p].box = [q \in Proc |-> DueMessages(q, p)]
      /\ outcome[p].regs = ByRows(RowsAfter(reg[p], list))
  <2>1. Released(p) /\ Settled(p)
    BY <1>1, ReleasedInSync DEF RefInv
  <2> QED BY <1>1, <2>1 DEF Settled
<1>4. \A q \in Proc : /\ DueWrites(q, p) = columns[q].put
                      /\ DueMessages(q, p) = Payloads(columns[q].send)
  BY <1>1, DueIsTaken
<1>5. mem' = [mem EXCEPT ![p] = outcome[p].mem]
  <2> DEFINE puts == [q \in Proc |-> DueWrites(q, p)]
  <2> HIDE DEF columns
  <2>1. puts \in [Proc -> Seq(Write1)] /\ \A q \in Proc : puts[q] = columns[q].put
    <3>1. \A q \in Proc : columns[q].put \in Seq(Write1)
      BY <1>2, OneMoreOf
    <3> QED BY <1>4, <3>1
  <2> HIDE DEF puts
  <2>2. OfPuts(puts) \in [Proc -> Deliveries] /\ \A q \in Proc : columns[q].put = OfPuts(puts)[q].put
    BY <2>1, OfPutsTyped
  <2>3. AfterPuts(mem[p], columns) = AfterPuts(mem[p], OfPuts(puts))
    BY <1>2, <2>2, SamePuts
  <2> QED BY <1>1, <1>3, <2>3 DEF puts
<1>6. Box' = [Box EXCEPT ![p] = outcome[p].box]
  <2> HIDE DEF columns
  <2>1. Box'[p] = [q \in Proc |-> Payloads(columns[q].send)]
    BY <1>1 DEF Box
  <2>2. outcome[p].box = [q \in Proc |-> Payloads(columns[q].send)]
    BY <1>3, <1>4
  <2>3. \A r \in Proc \ {p} : Box'[r] = Box[r]
    BY <1>1 DEF Box
  <2>4. Box = [r \in Proc |-> Box[r]] /\ Box' = [r \in Proc |-> Box'[r]]
    BY DEF Box
  <2> QED BY <2>1, <2>2, <2>3, <2>4
<1>7. Pack(PushedRows(p), removed) = RowsAfter(reg[p], list)
  <2>1. /\ program \in Programs /\ Legal(program) /\ step[p] + 1 \in DOMAIN program.coll
        /\ (step[p] + 1) - 1 = step[p]
    <3>1. program \in Programs /\ step[p] \in 0 .. Len(program.coll)
      BY DEF DataInv, Types
    <3>2. Len(program.coll) \in Nat
      BY <3>1, Typed
    <3>3. DOMAIN program.coll = 1 .. Len(program.coll)
      BY <3>1, Typed
    <3>4. step[p] < Len(program.coll)
      BY <1>2
    <3>5. step[p] + 1 \in 1 .. Len(program.coll) /\ (step[p] + 1) - 1 = step[p]
      BY <3>1, <3>2, <3>4
    <3>6. Legal(program)
      BY <3>1 DEF LegalPrograms
    <3> QED BY <3>1, <3>3, <3>5, <3>6
  <2>2. reg[p] = Rows(program)[step[p]]
    BY DEF Accord, Accords
  <2>3. PoppedRows(Pushed(reg[p], list)[p], AllArgs(list, "pop", p))
          = PoppedRows(Pushed(reg[p], list)[0], AllArgs(list, "pop", 0))
    BY <2>1, <2>2 DEF Legal, Collectives
  <2> HIDE DEF list, columns
  <2> QED BY <1>2, <2>3 DEF RowsAfter
<1>8. Regs' = [Regs EXCEPT ![p] = outcome[p].regs]
  <2> HIDE DEF list, removed
  <2>1. reg'[p] = RowsAfter(reg[p], list) /\ \A r \in Proc \ {p} : reg'[r] = reg[r]
    BY <1>1, <1>7, AtCall
  <2>2. Regs'[p] = outcome[p].regs
    BY <1>3, <2>1 DEF Regs
  <2>3. \A r \in Proc \ {p} : Regs'[r] = Regs[r]
    BY <2>1 DEF Regs
  <2>4. Regs = [r \in Proc |-> Regs[r]] /\ Regs' = [r \in Proc |-> Regs'[r]]
    BY DEF Regs
  <2> QED BY <2>2, <2>3, <2>4
<1> QED BY <1>5, <1>6, <1>8

LEMMA NothingChanges ==
  ASSUME RefInv, UNCHANGED <<pc, step, program, done, mem, reg, mq, reqTab, delTab, chan, posted, outcome>>
  PROVE  RefInv' /\ UNCHANGED Abstract!vars
<1>1. UNCHANGED Abstract!vars
  BY Unseen DEF Seen
<1>2. ASSUME NEW q \in Proc PROVE Recorded(q)'
  BY RecordedStays DEF RefInv
<1>3. ASSUME NEW q \in Proc PROVE Settled(q)'
  <2>1. Settled(q) /\ (Released(q)' <=> Released(q))
    BY DEF RefInv, Released
  <2>2. ASSUME NEW r \in Proc
        PROVE  DueWrites(r, q)' = DueWrites(r, q) /\ DueMessages(r, q)' = DueMessages(r, q)
    <3>1. (HasSent(r, q)' <=> HasSent(r, q)) /\ Sent(r, q)' = Sent(r, q)
      BY DEF HasSent, Sent
    <3> QED BY <3>1, DueStays
  <2>3. SameDue(q)
    BY <2>2 DEF SameDue
  <2> QED BY <2>1, <2>3, SettledStays
<1>4. ASSUME NEW q \in Proc, NEW r \in Proc PROVE Requests(q, r)'
  <2>1. Requests(q, r)
    BY DEF RefInv
  <2> QED BY <2>1 DEF Requests, InTransit
<1> QED BY <1>1, <1>2, <1>3, <1>4 DEF RefInv

(* A process that has returned has no call made. *)
LEMMA RecordsNothing ==
  ASSUME DataInv, NEW p \in Proc, pc'[p] = "compute", posted'[p] = Abstract!Nothing, done'[p] = 0,
         reqTab'[p] = EmptyRequests, delTab'[p] = EmptyDeliveries, UNCHANGED program,
         step'[p] \in Nat
  PROVE  Recorded(p)'
<1>1. ASSUME NEW q \in Proc, NEW op PROVE PassedFor(p, q, op)' = <<>>
  <2>1. CASE step'[p] < Len(program.coll)
    <3>1. program \in Programs
      BY DEF DataInv, Types
    <3>2. step'[p] + 1 \in 1 .. Len(program.coll)
      BY <2>1, <3>1, Typed
    <3>3. program.coll[step'[p] + 1] \in Seq(Collective)
      BY <3>1, <3>2, Typed
    <3>4. Args(program.coll[step'[p] + 1], op, q)[0] = <<>>
      BY <3>3, ArgsFacts
    <3>5. PassedFor(p, q, op)' = IF step'[p] < Len(program.coll)
                                 THEN Args(program.coll[step'[p] + 1], op, q)[0] ELSE <<>>
      BY DEF PassedFor, Collectives
    <3> QED BY <2>1, <3>4, <3>5
  <2>2. CASE ~(step'[p] < Len(program.coll))
    BY <2>2 DEF PassedFor
  <2> QED BY <2>1, <2>2
<1>2. \A q \in Proc : /\ reqTab'[p][q] = <<>> /\ delTab'[p][q].put = <<>> /\ delTab'[p][q].send = <<>>
  BY DEF EmptyRequests, EmptyDeliveries, EmptyColumn
<1>3. Payloads(<<>>) = <<>> /\ \A q \in Proc : ColumnOf(<<>>, q) = <<>>
  BY DEF Payloads, ColumnOf
<1> QED BY <1>1, <1>2, <1>3, NothingTyped DEF Recorded

RequestsAnswered ==
  \A p, q \in Proc : pc[p] = "compute" => \A b \in InTransit(p, q) : b.kind # "req"

LEMMA NoRequestsNext == ControlInv' => RequestsAnswered'
<1>1. ControlInv => RequestsAnswered
  BY NoRequests DEF RequestsAnswered
<1> QED BY <1>1, PTL

LEMMA ReturnsSteps ==
  ASSUME LegalPrograms, ControlInv, DataInv, Accord, RefInv, ControlInv', NEW p \in Proc,
         Returns(p), ~Aborts(p), posted' = [posted EXCEPT ![p] = Abstract!Nothing], UNCHANGED outcome
  PROVE  RefInv' /\ Abstract!Return(p)
<1>1. /\ pc[p] = "deliv" /\ CanLeave(p) /\ Leave(p) /\ pc' = [pc EXCEPT ![p] = "compute"]
      /\ step' = [step EXCEPT ![p] = step[p] + 1] /\ done' = [done EXCEPT ![p] = 0]
      /\ mem' = [mem EXCEPT ![p] = AfterPuts(mem[p], Columns(p))]
      /\ reg' = [reg EXCEPT ![p] = Pack(PushedRows(p), PoppedRows(PushedRows(p)[p], Columns(p)[p].pop))]
      /\ reqTab' = [reqTab EXCEPT ![p] = EmptyRequests]
      /\ delTab' = [delTab EXCEPT ![p] = EmptyDeliveries]
      /\ UNCHANGED program
  BY DEF Returns
<1>2. /\ posted \in [Proc -> Posted] /\ done \in [Proc -> Nat]
      /\ step \in [Proc -> Nat] /\ pc \in [Proc -> Kinds \union {"compute"}]
  BY DEF RefInv, DataInv, Types, ControlInv, ControlTypeOK
<1>3. posted' \in [Proc -> Posted] /\ posted'[p] = Abstract!Nothing
      /\ \A q \in Proc \ {p} : posted'[q] = posted[q]
  BY <1>2, NothingTyped
<1>4. /\ pc'[p] = "compute" /\ step'[p] = step[p] + 1 /\ done'[p] = 0
      /\ \A q \in Proc \ {p} : pc'[q] = pc[q] /\ step'[q] = step[q] /\ done'[q] = done[q]
  BY <1>1, <1>2
<1>5. \A q \in Proc \ {p} : mem'[q] = mem[q] /\ reg'[q] = reg[q]
  BY <1>1, AtCall
<1>6. /\ reqTab'[p] = EmptyRequests /\ delTab'[p] = EmptyDeliveries
      /\ \A q \in Proc \ {p} : reqTab'[q] = reqTab[q] /\ delTab'[q] = delTab[q]
  BY <1>1, AtCall DEF Tables
<1>7. \A q, r \in Proc : chan'[q][r] = IF r = p THEN Tail(chan[q][r]) ELSE chan[q][r]
  <2>1. ControlTypeOK
    BY DEF ControlInv
  <2> QED BY <1>1, <2>1, LeaveChan
<1>8. /\ Phase[p] = "released" /\ Phase' = [Phase EXCEPT ![p] = "compute"]
      /\ \A q \in Proc \ {p} : /\ Released(q)' <=> Released(q)
                               /\ HasSent(p, q)' <=> HasSent(p, q)
                               /\ Released(q) => HasSent(p, q)
  BY <1>1, ReturnPhases
<1>9. Abstract!Return(p)
  <2>1. /\ mem' = [mem EXCEPT ![p] = outcome[p].mem]
        /\ Regs' = [Regs EXCEPT ![p] = outcome[p].regs]
        /\ Box' = [Box EXCEPT ![p] = outcome[p].box]
    BY ReturnOutcome
  <2>2. Abstract!Return(p) <=>
          /\ Phase[p] = "released"
          /\ Phase' = [Phase EXCEPT ![p] = "compute"]
          /\ mem' = [mem EXCEPT ![p] = outcome[p].mem]
          /\ Regs' = [Regs EXCEPT ![p] = outcome[p].regs]
          /\ Box' = [Box EXCEPT ![p] = outcome[p].box]
          /\ posted' = [posted EXCEPT ![p] = Abstract!Nothing]
          /\ UNCHANGED outcome
    BY DEF Abstract!Return, Phase, Box, Regs, Payloads, ByRows
  <2> QED BY <1>8, <2>1, <2>2
<1>10. ASSUME NEW q \in Proc PROVE Recorded(q)'
  <2>1. CASE q = p
    BY <1>1, <1>2, <1>3, <1>4, <1>6, <2>1, RecordsNothing
  <2>2. CASE q # p
    <3>1. Recorded(q)
      BY DEF RefInv
    <3> QED BY <1>1, <1>3, <1>4, <1>6, <2>2, <3>1, RecordedStays
  <2> QED BY <2>1, <2>2
<1>11. ASSUME NEW q \in Proc PROVE Settled(q)'
  <2>1. CASE q = p
    BY <1>4, <2>1 DEF Settled
  <2>2. CASE q # p
    <3>1. Settled(q) /\ (Released(q)' <=> Released(q)) /\ pc'[q] = pc[q]
      BY <1>4, <1>8, <2>2 DEF RefInv
    <3>2. ASSUME Released(q), NEW r \in Proc
          PROVE  DueWrites(r, q)' = DueWrites(r, q) /\ DueMessages(r, q)' = DueMessages(r, q)
      <4>1. Sent(r, q)' = Sent(r, q)
        BY <1>7, <2>2, <3>1 DEF Sent
      <4>2. CASE r = p
        <5>1. HasSent(r, q) /\ HasSent(r, q)'
          BY <1>8, <2>2, <3>2, <4>2
        <5> QED BY <4>1, <5>1, DueStays
      <4>3. CASE r # p
        <5>1. HasSent(r, q)' <=> HasSent(r, q)
          BY <1>4, <2>2, <4>3 DEF HasSent
        <5> QED BY <1>3, <1>5, <2>2, <4>1, <4>3, <5>1, DueStays
      <4> QED BY <4>2, <4>3
    <3>3. Released(q) => SameDue(q)
      BY <3>2 DEF SameDue
    <3> QED BY <1>1, <1>4, <1>5, <2>2, <3>1, <3>3, SettledStays
  <2> QED BY <2>1, <2>2
<1>12. ASSUME NEW q \in Proc, NEW r \in Proc PROVE Requests(q, r)'
  <2>1. InTransit(q, r)' \subseteq InTransit(q, r)
    BY <1>1, LeaveTransit
  <2>2. CASE q = p
    <3>1. \A b \in InTransit(q, r)' : b.kind # "req"
      BY <1>4, <2>2, NoRequestsNext DEF RequestsAnswered
    <3> QED BY <3>1 DEF Requests
  <2>3. CASE q # p
    <3>1. Requests(q, r)
      BY DEF RefInv
    <3> QED BY <1>3, <2>1, <2>3, <3>1 DEF Requests
  <2> QED BY <2>2, <2>3
<1> QED BY <1>3, <1>9, <1>10, <1>11, <1>12 DEF RefInv

LEMMA RefReturnSteps ==
  ASSUME LegalPrograms, ControlInv, DataInv, Accord, RefInv, NEW p \in Proc, RefReturn(p)
  PROVE  RefInv' /\ (Abstract!Return(p) \/ UNCHANGED Abstract!vars)
<1> DEFINE removed == PoppedRows(PushedRows(p)[p], Columns(p)[p].pop)
<1>1. /\ LeaveDeliv(p) /\ pc[p] = "deliv" /\ CanLeave(p) /\ ~aborted
      /\ posted' = IF aborted' THEN posted ELSE [posted EXCEPT ![p] = Abstract!Nothing]
      /\ UNCHANGED outcome
  BY DEF RefReturn, LeaveDeliv
<1>2. \/ 0 \notin removed /\ pc' = [pc EXCEPT ![p] = "compute"] /\ UNCHANGED aborted
      \/ /\ aborted' = TRUE
         /\ UNCHANGED <<pc, step, program, done, mem, reg, mq, reqTab, delTab, chan>>
  BY <1>1 DEF LeaveDeliv, Columns, PushedRows
<1>3. CASE 0 \notin removed /\ pc' = [pc EXCEPT ![p] = "compute"] /\ UNCHANGED aborted
  <2>1. Returns(p)
    <3>1. pc' # pc
      BY <1>1, <1>3 DEF ControlInv, ControlTypeOK
    <3> QED BY <1>1, <3>1, LeaveDelivReturns
  <2>2. ~Aborts(p)
    <3>1. /\ Columns(p)[p].pop = AllArgs(Collectives(p), "pop", p)
          /\ PushedRows(p) = Pushed(reg[p], Collectives(p))
      BY <1>1, DeliveriesTaken
    <3> QED BY <1>3, <3>1 DEF Aborts
  <2>3. posted' = [posted EXCEPT ![p] = Abstract!Nothing]
    BY <1>1, <1>3
  <2>4. ControlInv'
    BY <1>1, LeaveDelivKeepsControl
  <2> QED BY <1>1, <2>1, <2>2, <2>3, <2>4, ReturnsSteps
<1>4. CASE /\ aborted' = TRUE
           /\ UNCHANGED <<pc, step, program, done, mem, reg, mq, reqTab, delTab, chan>>
  BY <1>1, <1>4, NothingChanges
<1> QED BY <1>2, <1>3, <1>4

-----------------------------------------------------------------------------
(* Steps and runs. *)

LEMMA RefIsBase ==
  /\ RefInit => Init
  /\ [RefNext]_<<vars, posted, outcome>> => [Next]_vars
<1>1. RefInit => Init
  BY DEF RefInit
<1>2. ASSUME RefNext PROVE Next \/ UNCHANGED vars
  <2>1. ASSUME NEW p \in Proc, NEW q \in Proc, NEW a \in Addr, NEW b \in Addr,
               RefPut(p, q, a, b) \/ RefGet(p, q, a, b)
        PROVE  Next
    BY <2>1 DEF RefPut, RefGet, Next
  <2>2. ASSUME NEW p \in Proc, NEW q \in Proc, NEW m \in Payload, RefSend(p, q, m) PROVE Next
    BY <2>2 DEF RefSend, Next
  <2>3. ASSUME NEW p \in Proc, NEW a \in Addr, NEW v \in Val, Write(p, a, v) PROVE Next
    BY <2>3 DEF Next
  <2>4. ASSUME NEW p \in Proc, Move(p) \/ HpMove(p) \/ ResetBuffers(p) \/ SetTagsize(p) PROVE Next
    BY <2>4 DEF Next
  <2>5. ASSUME NEW p \in Proc, RefPush(p) \/ RefPop(p) \/ RefEnter(p) \/ RefReturn(p) PROVE Next
    BY <2>5 DEF RefPush, RefPop, RefEnter, RefReturn, Next, InSync
  <2>6. ASSUME NEW p \in Proc, LeaveInfo(p) \/ LeaveReq(p) PROVE Next
    BY <2>6 DEF Next, InSync
  <2>7. Over => Next
    BY DEF Next
  <2> QED BY <1>2, <2>1, <2>2, <2>3, <2>4, <2>5, <2>6, <2>7 DEF RefNext
<1> QED BY <1>1, <1>2

LEMMA RefStart ==
  ASSUME RefInit
  PROVE  RefInv /\ Abstract!Init
<1>1. /\ Init /\ posted = [p \in Proc |-> Abstract!Nothing] /\ outcome = [p \in Proc |-> <<>>]
  BY DEF RefInit
<1>2. DataInv
  BY <1>1, InitData
<1>3. \A p \in Proc : /\ pc[p] = "compute" /\ step[p] = 0 /\ done[p] = 0
                      /\ reg[p] = [q \in Proc |-> <<>>] /\ mq[p] = EmptyQueue(Proc)
                      /\ reqTab[p] = EmptyRequests /\ delTab[p] = EmptyDeliveries
                      /\ \A q \in Proc : chan[p][q] = <<>>
  BY <1>1 DEF Init
<1>4. posted \in [Proc -> Posted]
  BY <1>1, NothingTyped
<1>5. ASSUME NEW p \in Proc PROVE Recorded(p)
  <2>1. ASSUME NEW q \in Proc, NEW op PROVE PassedFor(p, q, op) = <<>>
    <3>1. CASE step[p] < Len(program.coll)
      <4>1. program \in Programs
        BY <1>2 DEF DataInv, Types
      <4>2. step[p] + 1 \in 1 .. Len(program.coll)
        BY <1>3, <3>1, <4>1, Typed
      <4>3. Collectives(p) \in Seq(Collective)
        BY <4>1, <4>2, Typed DEF Collectives
      <4> QED BY <1>3, <3>1, <4>3, ArgsFacts DEF PassedFor
    <3>2. CASE ~(step[p] < Len(program.coll))
      BY <3>2 DEF PassedFor
    <3> QED BY <3>1, <3>2
  <2>2. \A q \in Proc : reqTab[p][q] = <<>> /\ delTab[p][q].put = <<>> /\ delTab[p][q].send = <<>>
    BY <1>3 DEF EmptyRequests, EmptyDeliveries, EmptyColumn
  <2>3. Payloads(<<>>) = <<>> /\ \A q \in Proc : ColumnOf(<<>>, q) = <<>>
    BY DEF Payloads, ColumnOf
  <2> QED BY <1>1, <2>1, <2>2, <2>3, NothingTyped DEF Recorded
<1>6. \A p \in Proc : Settled(p)
  BY <1>3 DEF Settled
<1>7. \A p, q \in Proc : Requests(p, q)
  BY <1>3 DEF Requests, InTransit
<1>8. Abstract!Init
  <2>1. Phase = [p \in Proc |-> "compute"]
    BY <1>3 DEF Phase
  <2>2. Box = [p \in Proc |-> [q \in Proc |-> <<>>]]
    <3>1. \A p, q \in Proc : Box[p][q] = <<>>
      BY <1>3 DEF Box, EmptyQueue, Payloads
    <3>2. Box = [p \in Proc |-> [q \in Proc |-> Box[p][q]]]
      BY DEF Box
    <3> QED BY <3>1, <3>2
  <2>3. Regs = [p \in Proc |-> <<>>]
    BY <1>3, ZeroIsProcess DEF Regs, ByRows
  <2>4. Abstract!Init <=>
          /\ Phase = [p \in Proc |-> "compute"] /\ mem = InitMem
          /\ Box = [p \in Proc |-> [q \in Proc |-> <<>>]]
          /\ Regs = [p \in Proc |-> <<>>]
          /\ posted = [p \in Proc |-> Abstract!Nothing]
          /\ outcome = [p \in Proc |-> <<>>]
    BY DEF Abstract!Init, Abstract!Proc, Proc, Phase, Box, Regs, Payloads, ByRows
  <2> QED BY <1>1, <2>1, <2>2, <2>3, <2>4 DEF Init
<1> QED BY <1>4, <1>5, <1>6, <1>7, <1>8 DEF RefInv

(* Every step of the library is one of Bsplib, or invisible there. *)
LEMMA RefSteps ==
  ASSUME LegalPrograms, AgreedPops, ControlInv, DataInv, Accord, RefInv,
         [RefNext]_<<vars, posted, outcome>>
  PROVE  RefInv' /\ [Abstract!Next]_Abstract!vars
<1> DEFINE Good == RefInv' /\ [Abstract!Next]_Abstract!vars
<1>1. ASSUME NEW p \in Proc, NEW q \in Proc, NEW a \in Addr, NEW b \in Addr,
             RefPut(p, q, a, b) \/ RefGet(p, q, a, b)
      PROVE  Good
  <2>1. RefInv' /\ (Abstract!Put(p, q, a, b) \/ Abstract!Get(p, q, a, b))
    BY <1>1, RefPutSteps, RefGetSteps
  <2> QED BY <2>1 DEF Abstract!Next, Abstract!Proc, Proc
<1>2. ASSUME NEW p \in Proc, NEW q \in Proc, NEW m \in Payload, RefSend(p, q, m) PROVE Good
  <2>1. RefInv' /\ Abstract!Send(p, q, m)
    BY <1>2, RefSendSteps
  <2> QED BY <2>1 DEF Abstract!Next, Abstract!Proc, Proc
<1>3. ASSUME NEW p \in Proc, NEW a \in Addr, NEW v \in Val, Write(p, a, v), Same PROVE Good
  <2>1. RefInv' /\ Abstract!Write(p, a, v)
    BY <1>3, WriteSteps
  <2> QED BY <2>1 DEF Abstract!Next, Abstract!Proc, Proc
<1>4. ASSUME NEW p \in Proc, Move(p) \/ HpMove(p), Same PROVE Good
  <2>1. RefInv' /\ \E q \in Proc : Abstract!Move(p, q)
    BY <1>4, MoveSteps
  <2> QED BY <2>1 DEF Abstract!Next, Abstract!Proc, Proc
<1>5. ASSUME NEW p \in Proc, ResetBuffers(p), Same PROVE Good
  <2>1. RefInv' /\ Abstract!ResetBuffers(p)
    BY <1>5, ResetSteps
  <2> QED BY <2>1 DEF Abstract!Next, Abstract!Proc, Proc
<1>6. ASSUME NEW p \in Proc, SetTagsize(p), Same PROVE Good
  BY <1>6, SetTagsizeSteps
<1>7. ASSUME NEW p \in Proc, RefPush(p) \/ RefPop(p) PROVE Good
  <2>1. RefInv' /\ \E at \in [Proc -> Addr] : Abstract!PushReg(p, at) \/ Abstract!PopReg(p, at)
    BY <1>7, RefPushSteps, RefPopSteps
  <2> QED BY <2>1 DEF Abstract!Next, Abstract!Proc, Proc
<1>8. ASSUME NEW p \in Proc, RefEnter(p) PROVE Good
  <2>1. RefInv' /\ Abstract!Sync(p)
    BY <1>8, RefEnterSteps
  <2> QED BY <2>1 DEF Abstract!Next, Abstract!Proc, Proc
<1>9. ASSUME NEW p \in Proc, RefReturn(p) PROVE Good
  <2>1. RefInv' /\ (Abstract!Return(p) \/ UNCHANGED Abstract!vars)
    BY <1>9, RefReturnSteps
  <2> QED BY <2>1 DEF Abstract!Next, Abstract!Proc, Proc
<1>10. ASSUME NEW p \in Proc, LeaveInfo(p) \/ LeaveReq(p), Same PROVE Good
  BY <1>10, LeaveInfoSteps, LeaveReqSteps
<1>11. ASSUME (Over /\ Same) \/ UNCHANGED <<vars, posted, outcome>> PROVE Good
  <2>1. UNCHANGED <<pc, step, program, done, mem, reg, mq, reqTab, delTab, chan, posted, outcome>>
    BY <1>11 DEF Over, Same, vars
  <2> QED BY <2>1, NothingChanges
<1> HIDE DEF Good
<1>12. Good
  BY <1>1, <1>2, <1>3, <1>4, <1>5, <1>6, <1>7, <1>8, <1>9, <1>10, <1>11 DEF RefNext
<1> QED BY <1>12 DEF Good

(* bspx_sync and the calls before it do what Bsplib promises, in every run *)
(* of a program whose processes agree on what they pop, each time they pop *)
(* it: a get reads as of the barrier and before any put, puts land in the  *)
(* order of ranks and calls, messages arrive in that order, and what is    *)
(* registered is known to all from the next superstep on.                  *)
THEOREM LibraryImplementsBsplib ==
  ASSUME LegalPrograms, AgreedPops
  PROVE  RefSpec => ImplementsBsplib
<1> DEFINE Inv == ControlInv /\ DataInv /\ Accord
           refVars == <<vars, posted, outcome>>
<1>1. RefSpec => Spec
  BY RefIsBase, PTL DEF RefSpec, Spec
<1>2. Spec => []Inv
  BY AccordInvariant
<1>3. RefInit => RefInv /\ Abstract!Init
  BY RefStart
<1>4. Inv /\ RefInv /\ [RefNext]_refVars => RefInv' /\ [Abstract!Next]_Abstract!vars
  BY RefSteps
<1> HIDE DEF Inv, refVars
<1> QED BY <1>1, <1>2, <1>3, <1>4, PTL DEF RefSpec, ImplementsBsplib, Abstract!Spec, refVars

=============================================================================
