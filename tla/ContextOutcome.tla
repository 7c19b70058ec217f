---------------------------- MODULE ContextOutcome ----------------------------
(***************************************************************************)
(* What a superstep of ContextSync leaves the contexts with, against the   *)
(* calls they made.  History variables record the calls, the memory with   *)
(* which a node calls bsp_sync, and what its contexts have on return.      *)
(***************************************************************************)
EXTENDS ContextSync

VARIABLES
  made,     \* the calls of each processor in its superstep
  before,   \* its memory when its node called bsp_sync
  closed,   \* both, of the superstep all nodes have called bsp_sync for
  left,     \* its memory on return
  inbox     \* its messages on return

history == <<made, before, closed, left, inbox>>

Quiet == [puts |-> <<>>, gets |-> <<>>, sends |-> <<>>]

HInit ==
  /\ Init
  /\ made = [p \in Global |-> Quiet]
  /\ before = InitMem /\ left = InitMem
  /\ closed = [step |-> -1, made |-> made, before |-> before]
  /\ inbox = [p \in Global |-> <<>>]

Record(p, kind, call) ==
  /\ made' = [made EXCEPT ![p][kind] = Append(@, call)]
  /\ UNCHANGED <<before, closed, left, inbox>>
Same == UNCHANGED history

(* What q registered in the call in which p registered a. *)
Meant(p, q, a) == <<q, reg[p][Row(reg[p], p, a)].at[q]>>
RecordPut(p, q, dst, val) == Record(p, "puts", [dst |-> Meant(p, q, dst), val |-> val])
RecordGet(p, q, src, dst) == Record(p, "gets", [src |-> Meant(p, q, src), dst |-> <<p, dst>>])

(* The high-performance calls are done at once on their own node. *)
Calls(p, q, a, b) ==
  \/ Put(p, q, a, b) /\ RecordPut(p, q, b, mem[p][a])
  \/ Get(p, q, a, b) /\ RecordGet(p, q, a, b)
  \/ HpPut(p, q, a, b) /\ IF Home(p) = Home(q) THEN Same ELSE RecordPut(p, q, b, mem[p][a])
  \/ HpGet(p, q, a, b) /\ IF Home(p) = Home(q) THEN Same ELSE RecordGet(p, q, a, b)

Enters(n) ==
  /\ EnterSync(n)
  /\ before' = [p \in Global |-> IF p \in On(n) THEN mem[p] ELSE before[p]]
  /\ closed' = IF \A m \in Node \ {n} : step[m] = step[n] /\ pc[m] # "compute"
                 THEN [step |-> step[n], made |-> made, before |-> before'] ELSE closed
  /\ UNCHANGED <<made, left, inbox>>

Leaves(n) ==
  /\ InSync(n)
  /\ LET back(p) == Home(p) = n /\ step'[n] # step[n] IN
     /\ made' = [p \in Global |-> IF back(p) THEN Quiet ELSE made[p]]
     /\ left' = [p \in Global |-> IF back(p) THEN mem'[p] ELSE left[p]]
     /\ inbox' = [p \in Global |-> IF back(p) THEN local'[p].move ELSE inbox[p]]
  /\ UNCHANGED <<before, closed>>

HNext ==
  \/ \E p, q \in Global, a, b \in Addr : Calls(p, q, a, b)
  \/ \E p, q \in Global, body \in Payload :
       (Send(p, q, body) \/ HpSend(p, q, body)) /\ Record(p, "sends", [to |-> q, body |-> body])
  \/ \E p \in Global, a \in Addr, v \in NewVal : Write(p, a, v) /\ Same
  \/ \E p \in Global : (Move(p) \/ PushReg(p) \/ PopReg(p)) /\ Same
  \/ \E n \in Node : Enters(n) \/ Leaves(n)
  \/ Over /\ Same

HSpec == HInit /\ [][HNext]_<<vars, history>>

-----------------------------------------------------------------------------
(* The node of p has returned from the superstep that closed. *)
Returned(p) == step[Home(p)] = closed.step + 1

CallsOf(kind) ==
  UNION {{closed.made[p][kind][i] : i \in DOMAIN closed.made[p][kind]} : p \in Global}
PutsTo(l) == {c \in CallsOf("puts") : c.dst = l}
GetsTo(l) == {c \in CallsOf("gets") : c.dst = l}
Written(l) == PutsTo(l) # {} \/ GetsTo(l) # {}

(* What may be at l: a value put there, or one that was at the source of a *)
(* get when its node called bsp_sync, or what was there.                   *)
Candidates(l) ==
  IF Written(l) THEN {c.val : c \in PutsTo(l)} \union {At(closed.before, c.src) : c \in GetsTo(l)}
                ELSE {At(closed.before, l)}

(* Every put and get of a superstep arrives, once and in that superstep,   *)
(* whether it went through the queues of the node or the tables, and       *)
(* nothing else is written, as long as no location is read by a get and    *)
(* written in the same superstep.                                          *)
WritesLand ==
  \A p \in Global : Returned(p) =>
    \A a \in Addr :
      (\A c \in GetsTo(<<p, a>>) : ~Written(c.src)) => left[p][a] \in Candidates(<<p, a>>)

(* A context has exactly the messages sent to it in the superstep, those   *)
(* of each sender in the order of the calls.                               *)
MessagesArrive ==
  \A p, q \in Global : Returned(p) =>
    LET got  == SelectSeq(inbox[p], LAMBDA l : l.from = q)
        sent == SelectSeq(closed.made[q].sends, LAMBDA c : c.to = p)
    IN  [i \in DOMAIN got |-> got[i].body] = [i \in DOMAIN sent |-> sent[i].body]

=============================================================================
