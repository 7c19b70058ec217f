---------------------------- MODULE SharedOutcome ----------------------------
(***************************************************************************)
(* What the node-level calls of SharedVars promise, and that a node has it *)
(* whenever its own code runs: the calls carried out one after the other,  *)
(* each at once on all nodes.                                              *)
(***************************************************************************)
EXTENDS SharedVars, FiniteSetsExt, SequencesExt

VARIABLE meaning     \* meaning[k]: all variables after k-1 calls

(* The values of some contexts put together, in the order of the           *)
(* processors, as if all ran on one node: the items of all, or the sums of *)
(* the elements at each place, or the value of the last.                   *)
Sorted(which) == [i \in 1 .. Cardinality(which) |-> CHOOSE c \in which : Cardinality({d \in which : d < c}) = i - 1]
Total(st, s, which) ==
  LET of(c) == st.ctx[c][s] IN
  CASE Kind[s] = "join" -> FlattenSeq([i \in 1 .. Cardinality(which) |-> of(Sorted(which)[i])])
    [] Kind[s] = "array" ->
         [j \in 1 .. Max({0} \union {Len(of(c)) : c \in which}) |->
            MapThenSumSet(LAMBDA c : of(c)[j], {c \in which : j <= Len(of(c))})]
    [] Kind[s] = "last" -> of(Max(which))

Broadcasted(st, which, m) ==
  [p \in Node |-> [s \in Slot |-> IF s \in which /\ m >= 0 THEN st.own[m][s] ELSE st.own[p][s]]]
Initialized(st, which, m) ==
  LET from == Broadcasted(st, which, m) IN
  [own |-> from,
   ctx |-> [c \in Global |-> [s \in Slot |-> IF s \in which THEN from[Home(c)][s] ELSE st.ctx[c][s]]]]
GloballyReduced(st, which) ==
  [st EXCEPT !.own = [p \in Node |-> [s \in Slot |->
      IF s \in which THEN Total(st, s, Global) ELSE st.own[p][s]]]]
LocallyReduced(st, s) ==
  [st EXCEPT !.own = [p \in Node |->
      IF On(p) = {} THEN st.own[p] ELSE [st.own[p] EXCEPT ![s] = Total(st, s, On(p))]]]

Meant(st, c) ==
  CASE c.call = "initialize_all" -> Initialized(st, InitSlots, c.master)
    [] c.call = "initialize" -> Initialized(st, {c.slot}, c.master)
    [] c.call = "reduce_all" -> GloballyReduced(st, Reduced)
    [] c.call = "reduce" -> IF c.global THEN GloballyReduced(st, {c.slot}) ELSE LocallyReduced(st, c.slot)
    [] c.call = "superstep" -> [st EXCEPT !.ctx = [d \in Global |-> [s \in Slot |-> Used(d, s, @[d][s])]]]
    [] c.call = "bsp_broadcast" -> [st EXCEPT !.own = Broadcasted(st, {c.slot}, c.master)]
    [] c.call = "bsp_fold" ->
         [st EXCEPT !.own = [p \in Node |-> [st.own[p] EXCEPT ![c.slot] =
            FlattenSeq([k \in 1 .. nprocs |-> st.own[k-1][c.slot]])]]]

OInit == Init /\ meaning = <<[own |-> own, ctx |-> ctx]>>

(* The first node to complete a call. *)
ONext ==
  /\ Next
  /\ meaning' = IF \E p \in Node : step'[p] = Len(meaning)
                  THEN Append(meaning, Meant(meaning[Len(meaning)], program[Len(meaning)]))
                  ELSE meaning
OSpec == OInit /\ [][ONext]_<<vars, meaning>> /\ Fairness

-----------------------------------------------------------------------------
(* Trailing neutral elements of an array mean nothing to a sum. *)
Equal(s, v, w) ==
  \/ v = w
  \/ /\ Kind[s] = "array"
     /\ LET n == LongerOf(v, w) IN ResizedArray(v, n) = ResizedArray(w, n)

(* ReduceLast has no neutral element: a node without contexts gives its    *)
(* own value, which is then the last.                                      *)
HasMeaning(s) == Kind[s] = "last" => \A p \in Node : On(p) # {}

(* On every node, whatever calls it has made and however far the others    *)
(* are: its variables and those of its contexts have the values that the   *)
(* calls mean.  The reduction is the same on all nodes, takes each context *)
(* once, in the order of the processors, and nothing of nodes without any; *)
(* an initialization reaches every context.                                *)
SharesAsMeant ==
  \A p \in Node : pc[p] = "node" =>
    \A s \in {t \in Slot : HasMeaning(t)} :
      /\ Equal(s, own[p][s], meaning[step[p] + 1].own[p][s])
      /\ \A c \in On(p) : Equal(s, ctx[c][s], meaning[step[p] + 1].ctx[c][s])

(* All nodes make the same collectives, with the same root and as many     *)
(* bytes: the size a node passes was told it by the collective before.     *)
CollectivesMatch ==
  \A p, q \in Node :
    \A k \in DOMAIN log[p] \intersect DOMAIN log[q] :
      /\ log[p][k].kind = log[q][k].kind /\ log[p][k].root = log[q][k].root
      /\ log[p][k].count = log[q][k].count

(* The elements of a dataset lie apart, inside the buffer (but for its     *)
(* header while it is broadcast).                                          *)
ElementsApart == \A p \in Node : pc[p] # "words" => Apart(ds[p])

TypeOK ==
  /\ step \in [Node -> 0 .. Len(program)]
  /\ own \in [Node -> [Slot -> Seq(Nat)]]
  /\ ctx \in [Global -> [Slot -> Seq(Nat)]]
  /\ slots \in [Node -> [Slot -> [0 .. nprocs -> Seq(Nat)]]]
  /\ ran \subseteq Global
  /\ \A p \in Node : ds[p].pos \in 0 .. ds[p].size /\ ds[p].current <= ds[p].nelem

(* Every call returns on every node. *)
CallsReturn == <>(\A p \in Node : step[p] = Len(program))

=============================================================================
