------------------------------ MODULE BspSyncRef ------------------------------
(***************************************************************************)
(* BspSync implements Bsplib.  Two history variables record what the state *)
(* of the library forgets: the calls of the superstep (a get is no longer  *)
(* in a table once its answer is, and the answer looks like a put), and    *)
(* the outcome that Bsplib fixes when the last process calls bsp_sync.     *)
(***************************************************************************)
EXTENDS BspSync

VARIABLES posted, outcome

Abstract == INSTANCE Bsplib WITH
  phase <- [p \in Proc |-> IF pc[p] = "compute" THEN "compute"
                           ELSE IF Released(p) THEN "released" ELSE "waiting"],
  box   <- [p \in Proc |-> [q \in Proc |->
              [i \in DOMAIN mq[p].pending[q] |-> mq[p].pending[q][i].payload_size]]],
  regs  <- [p \in Proc |-> [i \in DOMAIN reg[p][0] |-> [q \in Proc |-> reg[p][q][i]]]]

RefInit ==
  /\ Init
  /\ posted = [p \in Proc |-> Abstract!Nothing]
  /\ outcome = [p \in Proc |-> <<>>]

(* The last element of a table queue is the call just made. *)
Newly(p, q, type) == Last(delTab'[p][q][type])

Record(p, made) == posted' = [posted EXCEPT ![p] = made] /\ UNCHANGED outcome
Same == UNCHANGED <<posted, outcome>>

RefPut(p, q, a, b) ==
  Put(p, q, a, b) /\ Record(p, [posted[p] EXCEPT !.put[q] = Append(@, Newly(p, q, "put"))])
RefGet(p, q, a, b) ==
  Get(p, q, a, b) /\ Record(p, [posted[p] EXCEPT !.get[q] = Append(@, Last(reqTab'[p][q]))])
RefSend(p, q, m) ==
  Send(p, q, m) /\ Record(p, [posted[p] EXCEPT !.send[q] = Append(@, Newly(p, q, "send").payload_size)])
RefPush(p) ==
  PushReg(p) /\ Record(p, [posted[p] EXCEPT !.push = Append(@, NextCollective(p).at)])
RefPop(p) ==
  PopReg(p) /\ Record(p, [posted[p] EXCEPT !.pop = Append(@, NextCollective(p).at)])

RefEnter(p) ==
  /\ EnterSync(p)
  /\ outcome' = IF \A q \in Proc \ {p} : step[q] = step[p] /\ pc[q] # "compute"
                  THEN [q \in Proc |-> Abstract!Outcome(q, posted)] ELSE outcome
  /\ UNCHANGED posted

RefReturn(p) ==
  /\ LeaveDeliv(p)
  /\ posted' = IF aborted' THEN posted ELSE [posted EXCEPT ![p] = Abstract!Nothing]
  /\ UNCHANGED outcome

RefNext ==
  \/ \E p \in Proc, q \in Proc, a \in Addr, b \in Addr : RefPut(p, q, a, b) \/ RefGet(p, q, a, b)
  \/ \E p \in Proc, q \in Proc, m \in Payload : RefSend(p, q, m)
  \/ \E p \in Proc, a \in Addr, v \in Val : Write(p, a, v) /\ Same
  \/ \E p \in Proc : (Move(p) \/ HpMove(p) \/ ResetBuffers(p) \/ SetTagsize(p)) /\ Same
  \/ \E p \in Proc : RefPush(p) \/ RefPop(p) \/ RefEnter(p) \/ RefReturn(p)
  \/ \E p \in Proc : (LeaveInfo(p) \/ LeaveReq(p)) /\ Same
  \/ Over /\ Same

RefSpec == RefInit /\ [][RefNext]_<<vars, posted, outcome>>

(* Every run of the library is one of Bsplib: gets read memory as of the   *)
(* barrier and before any write, puts carry the values of their calls and  *)
(* land in the order of ranks and calls, messages arrive in that order,    *)
(* and the registers are the registrations of the earlier supersteps.      *)
ImplementsBsplib == Abstract!Spec

=============================================================================
