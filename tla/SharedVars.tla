------------------------------ MODULE SharedVars ------------------------------
(***************************************************************************)
(* Shared variables of C++ computations: bsp_sharedvariableset.cpp with    *)
(* Shared.h, SharedVariable.h, the initialising and reducing calls of      *)
(* Context.h and Runner.h, and the broadcast and fold of bsp_broadcast.h   *)
(* and bsp_fold.h beneath them.                                            *)
(*                                                                         *)
(* A node has one variable for each slot (own), which is the parent of the *)
(* variables of its contexts (ctx), and, for a slot that is reduced, one   *)
(* value for each node (slots; number 0 is the result).  Node-level calls  *)
(* are collective.  They are cut at their MPI collectives: a node posts    *)
(* its part of a collective to its log, and goes on when the parts it      *)
(* waits for are there; the k-th entries of all logs belong together.      *)
(*                                                                         *)
(* A value is a sequence, in one of two ways.  For a "join" slot it is     *)
(* whatever an associative operator makes of its arguments: the sequence   *)
(* of them.  For an "array" slot it is a SharedArray of numbers that are   *)
(* added up element by element.  "last" is a join slot with ReduceLast.    *)
(***************************************************************************)
EXTENDS Dataset, Placement, FiniteSets

CONSTANTS
  Sizes,            \* the numbers of processors and of nodes
  Kind,             \* the reducer of each slot
  Declared,         \* what each context shares, by slot, in the order of the names
  Scripts           \* sequences of node-level calls

ASSUME SizesAssumption == Sizes \subseteq [processors : Nat, nprocs : Nat \ {0}]
ASSUME KindAssumption == \A s \in DOMAIN Kind : Kind[s] \in {"join", "array", "last"}

VARIABLES
  processors, nprocs, program,     \* fixed
  step,      \* step[p]: how many calls node p has completed
  pc,        \* pc[p]: what node p waits for
  log,       \* log[p]: its parts of the collectives so far
  own, slots, ctx,
  ds,        \* ds[p]: the dataset of the call
  ran        \* the contexts that have run in the superstep of their node

(* What a context may share in its constructor: a variable that is         *)
(* initialized, reduced, or both.                                          *)
CONTEXT_SHARED_INIT(slot) == [slot |-> slot, init |-> TRUE, reduce |-> FALSE]
CONTEXT_SHARED_REDUCE(slot) == [slot |-> slot, init |-> FALSE, reduce |-> TRUE]
CONTEXT_SHARED_BOTH(slot) == [slot |-> slot, init |-> TRUE, reduce |-> TRUE]

ASSUME DeclaredAssumption ==
  Declared \in Seq([slot : DOMAIN Kind \intersect DOMAIN NameBytes, init : BOOLEAN, reduce : BOOLEAN])

(* add_var: the lists of a set of shared variables. *)
initialize_list == Folded(LAMBDA l, v : IF v.init THEN Append(l, v.slot) ELSE l, <<>>, Declared)
reduce_list == Folded(LAMBDA l, v : IF v.reduce THEN Append(l, v.slot) ELSE l, <<>>, Declared)

(* The calls a program makes on its nodes. *)
NodeCall(call, slot, master, global) ==
  [call |-> call, slot |-> slot, master |-> master, global |-> global]
NoSlot == Declared[1].slot

initialize_shared(master) == NodeCall("initialize_all", NoSlot, master, FALSE)
reduce_shared == NodeCall("reduce_all", NoSlot, -1, FALSE)
BSP_BROADCAST(slot, master) == NodeCall("initialize", slot, master, FALSE)
BSP_BROADCAST_LOCAL(slot) == NodeCall("initialize", slot, -1, FALSE)
BSP_FOLD(slot) == NodeCall("reduce", slot, -1, TRUE)
BSP_FOLD_LOCAL(slot) == NodeCall("reduce", slot, -1, FALSE)
BSP_BEGIN_END == NodeCall("superstep", NoSlot, -1, FALSE)
bsp_broadcast(slot, master) == NodeCall("bsp_broadcast", slot, master, FALSE)
bsp_fold(slot) == NodeCall("bsp_fold", slot, -1, FALSE)

(* bsp_broadcast always has a master. *)
NodeCalls == [call : {"initialize_all", "initialize", "reduce_all", "reduce",
                      "superstep", "bsp_broadcast", "bsp_fold"},
              slot : DOMAIN Kind \intersect DOMAIN NameBytes, master : Int, global : BOOLEAN]
ASSUME ScriptsAssumption ==
  Scripts \subseteq Seq({c \in NodeCalls : c.call = "bsp_broadcast" => c.master >= 0})

(* Runner::run with what the computation's own run does. *)
RunnerRun(master, steps) == <<initialize_shared(master)>> \o steps \o <<reduce_shared>>

args == <<processors, nprocs, program>>
vars == <<args, step, pc, log, own, slots, ctx, ds, ran>>

Slot == DOMAIN Kind
Node == 0 .. nprocs-1
Global == 0 .. processors-1
Reduced == {s \in Slot : \E i \in DOMAIN reduce_list : reduce_list[i] = s}
Home(c) == NodeOf(processors, nprocs, c)
On(p) == {c \in Global : Home(c) = p}
procs_this_node(p) == Cardinality(On(p))

(* The variables that are children of a node's variable: those of its      *)
(* contexts, in the order in which the task mapper creates these.          *)
Children(p, s) ==
  [i \in 1 .. procs_this_node(p) |-> ctx[CHOOSE c \in On(p) : LocalOf(processors, nprocs, c) = i-1][s]]

-----------------------------------------------------------------------------
(* Reducers and SharedArray *)
LongerOf(l, r) == IF Len(l) < Len(r) THEN Len(r) ELSE Len(l)

(* SharedArray::resize, with the neutral element of ReduceSum. *)
ResizedArray(a, size) == [i \in 1 .. size |-> IF i \in DOMAIN a THEN a[i] ELSE 0]

(* SharedArray::reduce_with *)
ReduceWith(a, rhs) ==
  LET wide == ResizedArray(a, LongerOf(a, rhs))
  IN  [i \in DOMAIN wide |-> IF i \in DOMAIN rhs THEN wide[i] + rhs[i] ELSE wide[i]]

(* make_neutral: an array keeps its size, ReduceLast keeps everything. *)
Neutral(s, v) ==
  CASE Kind[s] = "join" -> <<>>
    [] Kind[s] = "array" -> [i \in DOMAIN v |-> 0]
    [] Kind[s] = "last" -> v

(* operator() of the reducer *)
Op(s, l, r) ==
  CASE Kind[s] = "join" -> l \o r
    [] Kind[s] = "array" -> ReduceWith(l, r)
    [] Kind[s] = "last" -> r

(* Reducer: what one body makes of its children, from a new value. *)
BodyResult(s, children) ==
  Folded(LAMBDA l, r : Op(s, l, r), Neutral(s, <<>>), children)

(* SharedVariable::reduce.  parallel_reduce may give the children from any *)
(* place on to a second body, and joins the two results; without children  *)
(* the value stays.                                                        *)
ReducedValue(s, v, children, cut) ==
  LET left   == BodyResult(s, SubSeq(children, 1, cut))
      right  == IF cut < Len(children) THEN <<BodyResult(s, SubSeq(children, cut + 1, Len(children)))>>
                                       ELSE <<>>
      result == Folded(LAMBDA l, r : Op(s, l, r), left, right)
  IN  IF children = <<>> THEN v
      ELSE Folded(LAMBDA l, r : Op(s, l, r), Neutral(s, v), <<result>>)

-----------------------------------------------------------------------------
Init ==
  /\ \E size \in Sizes : processors = size.processors /\ nprocs = size.nprocs
  /\ program \in {s \in Scripts : \A i \in DOMAIN s : s[i].master < nprocs}
  /\ step = [p \in Node |-> 0]
  /\ pc = [p \in Node |-> "node"]
  /\ log = [p \in Node |-> <<>>]
  /\ own = [p \in Node |-> [s \in Slot |-> <<100 + p>>]]
  /\ slots = [p \in Node |-> [s \in Slot |-> [q \in 0 .. nprocs |-> <<>>]]]
  /\ ctx = [c \in Global |-> [s \in Slot |-> <<c>>]]
  /\ ds = [p \in Node |-> Fresh(0)]
  /\ ran = {}

(* The call node p makes next, or is in. *)
Call(p) == program[step[p] + 1]
Calls(p, name) == pc[p] = "node" /\ step[p] < Len(program) /\ Call(p).call = name

Done(p) == step' = [step EXCEPT ![p] = @ + 1] /\ pc' = [pc EXCEPT ![p] = "node"]
Waits(p, at) == pc' = [pc EXCEPT ![p] = at] /\ UNCHANGED step

Post(p, part) == log' = [log EXCEPT ![p] = Append(@, part)]

(* Parts of MPI_Bcast, MPI_Allgather(v) and a barrier: count is what all   *)
(* have to agree on.                                                       *)
Bcast(root, count, data) == [kind |-> "bcast", root |-> root, count |-> count, data |-> data]
Gather(count, data) == [kind |-> "allgather", root |-> -1, count |-> count, data |-> data]
Barrier == [kind |-> "barrier", root |-> -1, count |-> 0, data |-> 0]

Part(p, q) == log[q][Len(log[p])]
Arrived(p, q) == Len(log[q]) >= Len(log[p])
FromRoot(p) == Part(p, Part(p, p).root).data
BcastArrives(p) == Arrived(p, Part(p, p).root)
AllArriveBut(p) == \A q \in Node : Len(log[q]) > Len(log[p])    \* mutant: waits for the next part
AllArrive(p) == \A q \in Node : Arrived(p, q)

(* SharedVariable::initialize for some slots: to all children. *)
InitializeChildren(p, which, value) ==
  ctx' = [c \in Global |-> [s \in Slot |->
            IF c \in On(p) /\ s \in which THEN value[s] ELSE ctx[c][s]]]

InitSlots == {initialize_list[i] : i \in DOMAIN initialize_list}

-----------------------------------------------------------------------------
(* initialize_all.  A master below 0 means that every node uses its own    *)
(* values; the dataset is filled on the master only.                       *)
Filled(list, value) ==
  Folded(LAMBDA d, s : AddElem(d, s, value[s]), Fresh(Len(list)), list)

InitializeAll(p) ==
  LET m == Call(p).master IN
  /\ Calls(p, "initialize_all")
  /\ IF nprocs > 1 /\ m >= 0
       THEN LET d == IF p = m THEN Filled(initialize_list, own[p]) ELSE Fresh(Len(initialize_list)) IN
            /\ ds' = [ds EXCEPT ![p] = d]
            /\ Post(p, Bcast(m, 1, d.pos))
            /\ Waits(p, "data_pos") /\ UNCHANGED ctx
       ELSE /\ InitializeChildren(p, InitSlots, own[p])
            /\ Done(p) /\ UNCHANGED <<ds, log>>
  /\ UNCHANGED <<args, own, slots, ran>>

(* The position has come: the words follow. *)
SendWords(p) ==
  LET m == Call(p).master
      known == [ds[p] EXCEPT !.pos = FromRoot(p)]
      d == Receivable(IF p = m THEN Pack(known) ELSE known)
  IN
  /\ pc[p] = "data_pos" /\ BcastArrives(p)
  /\ ds' = [ds EXCEPT ![p] = d]
  /\ Post(p, Bcast(m, d.pos + 1, d.data))
  /\ Waits(p, "words")
  /\ UNCHANGED <<args, own, slots, ctx, ran>>

(* The loop that picks up the elements, and stays at a name it has no      *)
(* variable for.                                                           *)
PickUp(d, value, names) ==
  Folded(LAMBDA at, k :
             IF NextName(at.d) \in names
               THEN [d |-> GetElem(at.d), value |-> [at.value EXCEPT ![NextName(at.d)] = ElemValue(at.d)]]
               ELSE at,
           [d |-> d, value |-> value], [k \in 1 .. d.nelem |-> k])

ReceiveWords(p) ==
  LET m == Call(p).master
      d == Restart(Unpack(Overwritten(ds[p], FromRoot(p), ds[p].pos + 1)))
  IN
  /\ pc[p] = "words" /\ BcastArrives(p)
  /\ \E taken \in {IF p = m THEN [d |-> d, value |-> own[p]] ELSE PickUp(d, own[p], Slot)} :
       /\ ds' = [ds EXCEPT ![p] = taken.d]
       /\ own' = [own EXCEPT ![p] = taken.value]
       /\ InitializeChildren(p, InitSlots, taken.value)
  /\ Done(p)
  /\ UNCHANGED <<args, log, slots, ran>>

(* initialize of one slot: its size, then its bytes. *)
Initialize(p) ==
  LET m == Call(p).master
      s == Call(p).slot
  IN
  /\ Calls(p, "initialize")
  /\ IF nprocs > 1 /\ m >= 0
       THEN /\ Post(p, Bcast(m, 1, SerializedSize(own[p][s])))
            /\ Waits(p, "size") /\ UNCHANGED ctx
       ELSE /\ InitializeChildren(p, {s}, own[p])
            /\ Done(p) /\ UNCHANGED log
  /\ UNCHANGED <<args, own, slots, ds, ran>>

(* bsp_broadcast of a ByteSerializable, and of a string: the second part. *)
SendOwnSize(p) ==                             \* mutant: every node its own size
  /\ pc[p] = "size" /\ BcastArrives(p)
  /\ Post(p, Bcast(Call(p).master, SerializedSize(own[p][Call(p).slot]), own[p][Call(p).slot]))
  /\ Waits(p, "bytes")
  /\ UNCHANGED <<args, own, slots, ctx, ds, ran>>
SendBytes(p) ==
  /\ pc[p] = "size" /\ BcastArrives(p)
  /\ Post(p, Bcast(Call(p).master, FromRoot(p), own[p][Call(p).slot]))
  /\ Waits(p, "bytes")
  /\ UNCHANGED <<args, own, slots, ctx, ds, ran>>

ReceiveBytes(p) ==
  LET s == Call(p).slot
      value == [own[p] EXCEPT ![s] = FromRoot(p)]
  IN
  /\ pc[p] = "bytes" /\ BcastArrives(p)
  /\ own' = [own EXCEPT ![p] = value]
  /\ IF Call(p).call = "initialize" THEN InitializeChildren(p, {s}, value) ELSE UNCHANGED ctx
  /\ Done(p)
  /\ UNCHANGED <<args, log, slots, ds, ran>>

-----------------------------------------------------------------------------
(* reduce and reduce_all *)
ReduceList(p) == IF Call(p).call = "reduce_all" THEN reduce_list ELSE <<Call(p).slot>>
Listed(p, s) == \E i \in DOMAIN ReduceList(p) : ReduceList(p)[i] = s

(* The value of the node, from its contexts. *)
NodeValue(p, s, cut) ==
  IF procs_this_node(p) > 0 THEN ReducedValue(s, own[p][s], Children(p, s), cut)
                            ELSE Neutral(s, own[p][s])
NodeValues(p, cut) ==
  [s \in Slot |-> IF Listed(p, s) THEN NodeValue(p, s, cut) ELSE own[p][s]]

Cuts(n) == 1 .. IF n = 0 THEN 1 ELSE n

(* reduce with global FALSE, or on one node. *)
ReduceLocal(p) ==
  LET s == Call(p).slot IN
  /\ Calls(p, "reduce") /\ (nprocs = 1 \/ ~Call(p).global)
  /\ \E cut \in Cuts(procs_this_node(p)) :
       own' = [own EXCEPT ![p][s] = ReducedValue(s, @, Children(p, s), cut)]
  /\ Done(p)
  /\ UNCHANGED <<args, log, slots, ctx, ds, ran>>

(* reduce_impl: the values of the node; then its dataset, and the exchange *)
(* of the sizes.                                                           *)
ReduceNode(p) ==
  /\ \/ Calls(p, "reduce_all")
     \/ Calls(p, "reduce") /\ nprocs > 1 /\ Call(p).global
  /\ \E cut \in Cuts(procs_this_node(p)) : own' = [own EXCEPT ![p] = NodeValues(p, cut)]
  /\ Waits(p, "reduced")
  /\ UNCHANGED <<args, log, slots, ctx, ds, ran>>

GatherSizes(p) ==
  /\ pc[p] = "reduced"
  /\ \E d \in {Filled(ReduceList(p), own[p])} :
       /\ ds' = [ds EXCEPT ![p] = d]
       /\ IF nprocs > 1 THEN Post(p, Gather(2, <<d.nelem, d.size>>)) /\ Waits(p, "sizes")
                        ELSE Done(p) /\ UNCHANGED log
  /\ UNCHANGED <<args, own, slots, ctx, ran>>

GatherElements(p) ==
  LET d == ds[p] IN
  /\ pc[p] = "sizes" /\ AllArrive(p)
  /\ Post(p, Gather([q \in Node |-> Part(p, q).data[2]],
                    [data |-> d.data, size |-> d.size, nelem |-> d.nelem]))
  /\ Waits(p, "elements")
  /\ UNCHANGED <<args, own, slots, ctx, ds, ran>>

(* The elements of the other nodes go to the slots there are; number p + 1 *)
(* is the variable of the node itself, and not kept in slots.              *)
OtherValues(p, q) ==
  PickUp(Restart(FromBuffer(Part(p, q).data)), [s \in Slot |-> slots[p][s][q + 1]], Reduced).value

TakeElements(p) ==
  /\ pc[p] = "elements" /\ AllArrive(p)
  /\ \E others \in {[q \in Node \ {p} |-> OtherValues(p, q)]} :
       slots' = [slots EXCEPT ![p] = [s \in Slot |-> [k \in 0 .. nprocs |->
                   IF k \in {0, p + 1} THEN @[s][k] ELSE others[k - 1][s]]]]
  /\ Waits(p, "combine")
  /\ UNCHANGED <<args, log, own, ctx, ds, ran>>

(* The values of all nodes, in the order of the nodes. *)
OwnLast(p, s) ==               \* mutant: the own value behind the others
  [k \in 1 .. nprocs |-> IF k = nprocs THEN own[p][s] ELSE slots[p][s][IF k <= p THEN k ELSE k + 1]]
OfNodes(p, s) == [k \in 1 .. nprocs |-> IF k = p + 1 THEN own[p][s] ELSE slots[p][s][k]]

ReduceNodes(p) ==
  /\ pc[p] = "combine"
  /\ \E cut \in Cuts(nprocs) :
       \E total \in {[s \in Slot |-> ReducedValue(s, slots[p][s][0], OfNodes(p, s), cut)]} :
         /\ slots' = [slots EXCEPT ![p] = [s \in Slot |->
                         IF Listed(p, s) THEN [@[s] EXCEPT ![0] = total[s]] ELSE @[s]]]
         /\ own' = [own EXCEPT ![p] = [s \in Slot |-> IF Listed(p, s) THEN total[s] ELSE @[s]]]
  /\ Done(p)
  /\ UNCHANGED <<args, log, ctx, ds, ran>>

-----------------------------------------------------------------------------
(* A superstep: the contexts of the node run, as tasks; then bsp_sync. *)
Execute(p) ==
  /\ Calls(p, "superstep")
  /\ Waits(p, "running")
  /\ ran' = ran \ On(p)
  /\ UNCHANGED <<args, log, own, slots, ctx, ds>>

(* A context uses its variables: it adds an item, or it resizes its array  *)
(* to a size of its own.                                                   *)
Used(c, s, v) ==
  IF Kind[s] = "array" THEN [ResizedArray(v, (c % 2) + 1) EXCEPT ![1] = @ + c + 1]
                       ELSE Append(v, c)

RunStep(c) ==
  /\ pc[Home(c)] = "running" /\ c \notin ran
  /\ ctx' = [ctx EXCEPT ![c] = [s \in Slot |-> Used(c, s, @[s])]]
  /\ ran' = ran \union {c}
  /\ UNCHANGED <<args, step, pc, log, own, slots, ds>>

EnterSync(p) ==
  /\ pc[p] = "running" /\ On(p) \subseteq ran
  /\ Post(p, Barrier) /\ Waits(p, "sync")
  /\ UNCHANGED <<args, own, slots, ctx, ds, ran>>

LeaveSync(p) ==
  /\ pc[p] = "sync" /\ AllArrive(p)
  /\ Done(p)
  /\ UNCHANGED <<args, log, own, slots, ctx, ds, ran>>

-----------------------------------------------------------------------------
(* Level 1: bsp_broadcast of a string, and bsp_fold, of the node's own     *)
(* variables.                                                              *)
BroadcastString(p) ==
  /\ Calls(p, "bsp_broadcast") /\ nprocs > 1
  /\ Post(p, Bcast(Call(p).master, 1, SerializedSize(own[p][Call(p).slot])))
  /\ Waits(p, "size")
  /\ UNCHANGED <<args, own, slots, ctx, ds, ran>>

Fold(p) ==
  /\ Calls(p, "bsp_fold") /\ nprocs > 1
  /\ Post(p, Gather(1, own[p][Call(p).slot]))
  /\ Waits(p, "fold")
  /\ UNCHANGED <<args, own, slots, ctx, ds, ran>>

(* Every operand is the result so far and the next node's. *)
FoldedFrom(s, all) == Folded(LAMBDA l, r : Op(s, l, r), all[1], Tail(all))

FoldAll(p) ==
  LET s == Call(p).slot IN
  /\ pc[p] = "fold" /\ AllArrive(p)
  /\ own' = [own EXCEPT ![p][s] = FoldedFrom(s, [k \in 1 .. nprocs |-> Part(p, k - 1).data])]
  /\ Done(p)
  /\ UNCHANGED <<args, log, slots, ctx, ds, ran>>

(* On one node both leave the value as it is. *)
Level1Alone(p) ==
  /\ Calls(p, "bsp_broadcast") \/ Calls(p, "bsp_fold")
  /\ nprocs = 1
  /\ Done(p)
  /\ UNCHANGED <<args, log, own, slots, ctx, ds, ran>>

-----------------------------------------------------------------------------
NodeStep(p) ==
  \/ InitializeAll(p) \/ SendWords(p) \/ ReceiveWords(p)
  \/ Initialize(p) \/ SendBytes(p) \/ ReceiveBytes(p)
  \/ ReduceLocal(p) \/ ReduceNode(p) \/ GatherSizes(p) \/ GatherElements(p)
  \/ TakeElements(p) \/ ReduceNodes(p)
  \/ Execute(p) \/ EnterSync(p) \/ LeaveSync(p)
  \/ BroadcastString(p) \/ Fold(p) \/ FoldAll(p) \/ Level1Alone(p)

Over == (\A p \in Node : step[p] = Len(program)) /\ UNCHANGED vars

Next ==
  \/ \E p \in Node : NodeStep(p)
  \/ \E c \in Global : RunStep(c)
  \/ Over

(* Nodes and tasks that can go on are scheduled: some node or context that *)
(* can take a step does.  Nothing is asked for any particular one.         *)
Fairness == WF_vars(Next)

Spec == Init /\ [][Next]_vars
FairSpec == Spec /\ Fairness

=============================================================================
