------------------------------ MODULE Examples ------------------------------
(***************************************************************************)
(* The example programs run on the processes of a BSP computer.  Between   *)
(* two syncs the processes go on in any order; the sync carries out gets,  *)
(* then puts, and hands over the messages, as Bsplib says.  The programs   *)
(* for MPI wait in every call until all that take part in it have come,    *)
(* which is the most MPI allows, in MPI_Send as well.                      *)
(***************************************************************************)
EXTENDS InnerProduct, MpiLU, FFT, MatVec, Mirror, Bench

CONSTANT Jobs  \* the programs to run: name, number p of processes and input

VARIABLES
  job,   \* the program that runs
  k,     \* of each process: the segments it has run
  mem,   \* of each process: its variables
  inbox, \* of each process: the messages of the last superstep
  made,  \* of each process: its deposits in this superstep
  at     \* of each process: "compute", "sync", "end" or "abort"

vars == <<job, k, mem, inbox, made, at>>

Proc == 0 .. job.p - 1
Nothing == [put |-> {}, get |-> {}, send |-> {}, give |-> {}, take |-> {}, comm |-> {}]

Init ==
  /\ job \in Jobs
  /\ k = [s \in Proc |-> 0]
  /\ mem = [s \in Proc |-> <<>>]
  /\ inbox = [s \in Proc |-> {}]
  /\ made = [s \in Proc |-> Nothing]
  /\ at = [s \in Proc |-> "compute"]

(* What process s does up to the next call that others take part in. *)
Runs(s) ==
  CASE job.name = "inprod" -> InnerProductSegment(job, k[s], s, mem[s])
    [] job.name = "mpiinprod" -> MpiInnerProductSegment(job, k[s], s, mem[s])
    [] job.name = "lu" -> LuSegment(job, k[s], s, mem[s])
    [] job.name = "mpilu" -> MpiLuSegment(job, k[s], s, mem[s])
    [] job.name \in {"fft", "mpifft"} -> FftSegment(job, k[s], s, mem[s])
    [] job.name = "mv" -> MatVecSegment(job, k[s], s, mem[s], inbox[s])
    [] job.name \in Mirrors -> MirrorSegment(job, k[s], s, mem[s])
    [] job.name \in Benchmarks -> BenchSegment(job, k[s], s, mem[s])

Aborted == \E s \in Proc : at[s] = "abort"

Compute(s) ==
  /\ at[s] = "compute" /\ ~Aborted
  /\ \E run \in {Runs(s)} :
       /\ mem' = [mem EXCEPT ![s] = run.mem]
       /\ made' = [made EXCEPT ![s] = [d \in DOMAIN Nothing |-> run[d]]]
       /\ at' = [at EXCEPT ![s] = run.next]
       /\ k' = IF run.next = "compute" THEN [k EXCEPT ![s] = @ + 1] ELSE k
  /\ UNCHANGED <<job, inbox>>

(* The processes that s waits for, and whether they have all come.         *)
Group(s) == IF made[s].comm = {} THEN Proc ELSE made[s].comm
Met(s) == \A q \in Group(s) : at[q] = "sync" /\ Group(q) = Group(s)

(* What the sync writes on process q: what its gets read, before any put,  *)
(* the elements of the puts to it, and what it takes in a collective call. *)
Elements(var, at0, vals) == {[var |-> var, ix |-> at0 + i - 1, val |-> vals[i]] : i \in 1 .. Len(vals)}
Got(q) == {[var |-> g.into, ix |-> g.ix, val |-> mem[g.from][g.var][g.at]] : g \in made[q].get}
PutTo(q) ==
  UNION {UNION {Elements(d.var, d.at, d.vals) : d \in {e \in made[s].put : e.to = q}} : s \in Proc}
Given(s, q) == {g \in made[s].give : g.to = q}
Taken(q) == UNION {UNION {Elements(t.var, t.at, g.vals) : g \in Given(t.from, q)} : t \in made[q].take}
Writes(q) == Got(q) \union PutTo(q) \union Taken(q)

AfterSync(q, writes) ==
  [var \in DOMAIN mem[q] |->
     IF \A w \in writes : w.var # var THEN mem[q][var]
     ELSE [i \in DOMAIN mem[q][var] |->
             LET here == {w \in writes : w.var = var /\ w.ix = i}
             IN  IF here = {} THEN mem[q][var][i] ELSE (CHOOSE w \in here : TRUE).val]]

MessagesTo(q) ==
  UNION {{[from |-> s, nr |-> d.nr, tag |-> d.tag, val |-> d.val]
          : d \in {e \in made[s].send : e.to = q}} : s \in Proc}

Sync ==
  \E group \in {Group(s) : s \in {q \in Proc : Met(q)}} :
    LET If(q, new, old) == IF q \in group THEN new ELSE old
    IN  /\ mem' = [q \in Proc |-> If(q, AfterSync(q, Writes(q)), mem[q])]
        /\ inbox' = [q \in Proc |-> If(q, MessagesTo(q), inbox[q])]
        /\ made' = [q \in Proc |-> If(q, Nothing, made[q])]
        /\ at' = [q \in Proc |-> If(q, "compute", at[q])]
        /\ k' = [q \in Proc |-> If(q, k[q] + 1, k[q])]
        /\ UNCHANGED job

Ended == \A s \in Proc : at[s] = "end"
Over == (Ended \/ Aborted) /\ UNCHANGED vars

Next == (\E s \in Proc : Compute(s)) \/ Sync \/ Over

Spec == Init /\ [][Next]_vars

-----------------------------------------------------------------------------
(* A program that came to its end has computed what its comments say.  (A  *)
(* process that ends while another is at a sync is a deadlock.)            *)
ComputesAsMeant ==
  Ended =>
    CASE job.name \in {"inprod", "mpiinprod"} -> InnerProductMeant(job, mem)
      [] job.name \in {"lu", "mpilu"} -> LuMeant(job, mem)
      [] job.name \in {"fft", "mpifft"} -> FftMeant(job, mem)
      [] job.name = "mv" -> MatVecMeant(job, mem)
      [] job.name \in Mirrors -> MirrorMeant(job, mem)
      [] job.name \in Benchmarks -> BenchMeant(job, mem)

(* A program aborts just when its input has no result: the matrix has no   *)
(* LU decomposition, or the length of the vector is negative.              *)
NoResult ==
  \/ job.name \in {"lu", "mpilu"} /\ LuAborts(job)
  \/ job.name \in {"inprod", "mpiinprod"} /\ InnerProductAborts(job)
AbortsRightly == (Aborted => NoResult) /\ (Ended => ~NoResult)

(* Where several deposits of a superstep write to one place they write the *)
(* same: the result does not depend on the order of their processes.       *)
NoConflict ==
  \A q \in Proc : Met(q) =>
    \A w, x \in Writes(q) : w.var = x.var /\ w.ix = x.ix => w = x

(* Every put, every get and every part of a collective call stays within   *)
(* the array it names.                                                     *)
InBounds ==
  \A q \in Proc : Met(q) =>
    /\ \A g \in made[q].get : g.at \in DOMAIN mem[g.from][g.var]
    /\ \A w \in Writes(q) : w.ix \in DOMAIN mem[q][w.var]

(* In a collective call of MPI, and in a send and its receive, every       *)
(* process expects of every other just what that one gives to it.          *)
PartsMatch ==
  \A q \in Proc : Met(q) =>
    \A s \in Group(q) :
      {Len(g.vals) : g \in Given(s, q)} = {t.len : t \in {u \in made[q].take : u.from = s}}

=============================================================================
