------------------------------ MODULE MCContext ------------------------------
(***************************************************************************)
(* Small instances of ContextOutcome.  All locations have different values *)
(* at the start, so that a value tells where it comes from.                *)
(***************************************************************************)
EXTENDS ContextOutcome

CONSTANTS x, y

MCVal == 0 .. 2 * processors
MCNewVal == {2 * processors}
MCInitMem == [p \in Global |-> (x :> 2 * p @@ y :> 2 * p + 1)]

(* Superstep programs: what every processor registers, by turns. *)
All(op, a) == [p \in Global |-> <<[op |-> op, addr |-> a]>>]
None == [p \in Global |-> <<>>]
(* The last processor uses the other address. *)
Crossed(op, a) ==
  [p \in Global |-> <<[op |-> op, addr |-> IF p = processors-1 THEN IF a = x THEN y ELSE x ELSE a]>>]
Then(s, t) == [p \in Global |-> s[p] \o t[p]]

Program(coll, may, to, most) == [coll |-> coll, may |-> may, to |-> to, most |-> most]

Drma == Program(<<Crossed("push", x), None>>, {"put", "get"}, {1}, 2)
Twice == Program(<<Crossed("push", x), None, None>>, {"get", "send"}, {3}, 2)
HighPerformance == Program(<<All("push", x), None>>, {"hpput", "hpget", "write"}, {1}, 2)
Mail == Program(<<None, None>>, {"send", "move"}, {1}, 3)
(* The node of processor 0 has its number: no message goes astray. *)
HpMail == Program(<<None, None>>, {"hpsend"}, {0}, 2)
Registers == Program(<<Then(Crossed("push", x), Crossed("push", y)), Crossed("pop", x),
                       Crossed("push", x), Crossed("pop", y), None>>, {"get"}, {1}, 1)

(* Programs that bsp_sync or bsp_pop_reg throws an exception at.           *)
(* Numbers of requests that differ between nodes only are not among them:  *)
(* the code does not notice when unwritten memory happens to fit.          *)
Uneven == Program(<<[p \in Global |-> IF p = 0 THEN <<>> ELSE All("push", x)[p]]>>, {}, {}, 0)
Double == Program(<<Then(All("push", x), All("push", x))>>, {}, {}, 0)
Unknown == Program(<<All("pop", x)>>, {}, {}, 0)
Mixed == Program(<<All("push", x),
                   [p \in Global |-> IF p = 0 THEN All("pop", x)[p] ELSE All("push", y)[p]]>>, {}, {}, 0)
Thrown == {Uneven, Double, Unknown, Mixed}

AllPrograms == {Drma, Twice, HighPerformance, Mail, HpMail, Registers} \union Thrown

(* What the agreement of the registers needs, see ContextProofs. *)
ASSUME ProgramsAreLegal == LegalPrograms

(* A program for the run of what does not hold. *)
Astray == {Program(<<None>>, {"hpsend"}, Global, 1)}

=============================================================================
