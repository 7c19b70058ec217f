------------------------------ MODULE MCBspSync ------------------------------
(***************************************************************************)
(* Programs for small instances of BspSync.                                *)
(***************************************************************************)
EXTENDS BspSyncInv

CONSTANTS x, y      \* addresses

(* Every location starts with a value of its own. *)
MCInitMem == [p \in 0 .. N-1 |-> [a \in {x, y} |-> IF a = x THEN 2*p ELSE 2*p + 1]]
MCVal == 0 .. 2*N

All(op, a) == [op |-> op, at |-> [p \in 0 .. N-1 |-> a]]
(* Process 0 passes a, the others pass b. *)
Cross(op, a, b) == [op |-> op, at |-> [p \in 0 .. N-1 |-> IF p = 0 THEN a ELSE b]]

Program(lists, may, most) == [coll |-> lists, may |-> may, most |-> most]

(* Register one variable, at different addresses, then put and get. *)
DataProgram == Program(<< <<Cross("push", x, y)>>, <<>> >>, {"put", "get", "write"}, 3)

(* Messages, with the tag size changing twice. *)
TagProgram == Program(<< <<All("tag", 2)>>, <<All("tag", 1)>>, <<>> >>, {"send", "move", "hpmove", "reset"}, 3)

(* Legal uses of the register: a pop names the newest live registration of *)
(* every process.  In the last program it is made again in the superstep   *)
(* of its pop, by each process at the address it had.                      *)
RegPrograms ==
  { Program(lists, {"put", "get"}, 1) : lists \in
    { << <<Cross("push", x, y), All("push", x)>>, <<All("pop", x)>>, <<Cross("push", y, x)>> >>,
      << <<Cross("push", x, y), Cross("pop", x, y)>>, <<Cross("push", y, x)>>, <<Cross("push", x, y)>> >>,
      << <<All("push", x)>>, <<Cross("push", x, y), Cross("push", y, x)>>,
         <<Cross("pop", y, x), Cross("pop", x, y)>> >>,
      << <<Cross("push", x, y)>>, <<Cross("pop", x, y), Cross("push", x, y)>>, <<>> >> } }

RefPrograms == {DataProgram, TagProgram} \union RegPrograms

(* Gets of any processes in any superstep; every other call there is, once *)
(* or with what makes it possible; and a pop of what was never registered, *)
(* which aborts.                                                           *)
ControlPrograms ==
  { Program(<< <<Cross("push", x, y)>>, <<>>, <<>> >>, {"get"}, 2),
    Program(<< <<Cross("push", x, y)>>, <<>> >>, {"put", "write"}, 1),
    Program(<< <<All("tag", 2)>>, <<>> >>, {"send", "move", "hpmove", "reset"}, 2),
    Program(<< <<>>, <<All("pop", x)>> >>, {}, 0) }
=============================================================================
