# BSPonMPI in TLA+

Specifications, model checks and proofs for BSPonMPI (`src/src`, `src/include`,
`src/examples`): the tables a BSP program fills between two calls of `bsp_sync`,
the exchange of those tables by collective operations of MPI, what is done with
the data that arrives, the C++ contexts that share the tables of a node and the
variables these share, the threads of a process, and the example programs.

    tlc -workers 2 -config MCBspSyncControl.cfg MCBspSyncControl.tla # one of the runs below
    tlapm BspSyncProofs.tla                                # one of the proofs below

`PROJECT.json` lists the runs, the definitions with the source lines they
model, the hazards of the code and the properties that look at them.

## 1. The system

A BSP program runs as N processes that share nothing. Between two calls of
`bsp_sync` (a *superstep*) a process only notes what it wants done; `bsp_sync`
then does it. The parts, bottom up:

| part | source | state | operations |
|---|---|---|---|
| expandable table | `bsp_exptable.[ch]` | `rows`, `used_slot_count` per column, a block of slots cut into one column per process | expand, reset, reset the row count, push, exchange with all processes |
| delivery table | `bsp_delivtable.[ch]` | an expandable table; on top of each column `start`, `end`, `count` per type of action; elements linked by `next` | push, execute |
| request table | `bsp_reqtable.[ch]` | an expandable table of gets; `data_sizes`, the bytes of the expected answers | push, execute (turns requests into deliveries) |
| memory register | `bsp_memreg.[ch]` | one column of addresses per process; `removed` flags; memoized place of the last row | push, pop, pack, find |
| message queue | `bsp_mesgqueue.h` | tag sizes sent and received, number of messages, sum of sizes, head pointer into the received delivery table | sync, move, hpmove |
| level-0 library | `bspx.c`, `bsp_private.h` | one of each of the above, and received versions of the two exchanged tables | the calls of BSPlib and `bspx_sync` |
| global arrays | `bsp_global_drma.c` | 128 entries: size, local slice; position and "has been full" flag | alloc, free, put and get of ranges |
| communication | `bsp_comm_mpi.c`, `bsp_comm_seq.c` | none | all-to-all with equal and with different sizes |
| thread-safe interface | `bsp_www.c`, `bsp_mutex.c` | one mutex | each call of the library under the mutex |
| C++ contexts | `bsp_cpp/bsp_contextimpl*` , `bsp_localdelivery.h`, `HeaderQueue.h` | several logical processors per node, with queues of local deliveries, registers of their own and one set of tables per node | the calls of BSPlib, a sync of its own |
| task mapper, runner | `include/bsp_cpp/TaskMapper.h`, `Runner.h` | which node has which logical processor | lookups |
| shared variables | `bsp_sharedvariableset.cpp`, `SerializedDataset.h`, `include/bsp_cpp/Shared` | named variables, their reducers | initialise, broadcast, reduce |
| level-1 collectives | `include/bsp_broadcast.h`, `bsp_fold.h` | none | broadcast, fold |
| examples | `src/examples/bspedupack`, `mpiedupack`, `bspedupack++`, `*.cpp` | variables of a process | programs: inner product, LU decomposition, Fourier transform, sparse product, benchmarks, exchanges of values |

**How they interact.** The calls of a superstep push into the delivery and the
request table of their process; puts and gets translate an address with the
register. `bspx_sync` (1) clears the message queue and the received tables,
(2) exchanges the sizes of the columns, with a flag "I have gets",
(3) if any process has the flag set, exchanges the requests and appends the
answers to the delivery table, (4) exchanges the deliveries, (5) executes them:
puts, registrations, messages column by column, then pops and tag sizes,
(6) clears the tables and packs the register. A wrapper of `bsp_www.c` holds the
mutex of the process around one such call, `bsp_sync` with all its collectives
included. A C++ runner initialises the shared variables of a computation on all
nodes and from them those of the contexts, lets the contexts run superstep by
superstep, and reduces in the other direction: contexts to node by a parallel
reduction, nodes to a result by an all-gather of serialised datasets.

**What is hard.** Nothing but the order of MPI collectives keeps the processes
together: one that takes a different number of them stops everybody, or takes
data for something else. Processes are up to a superstep apart while they
execute. Answers to gets travel in the same table as puts. Each process finds
the row to pop by itself. The receiver has to reckon how much will arrive
before it is sent. Tables move while there are links in them. The global
arrays add arithmetic on offsets and a table of handles that wraps.
There is no persistence, no retry and no timeout: MPI delivers or the program
is gone, so no hazard of those kinds is listed.

**What makes each part correct.**

- *bspx_sync*: all processes take the same collectives in the same order; it is
  a barrier; it returns when all have called it; and a superstep has the outcome
  BSPlib gives it (gets before puts, fixed order of writes and messages).
- *delivery table*: every list holds exactly what was pushed, in order, however
  often the table grew and wherever it was received; the chain of messages is
  complete.
- *request table, received tables*: nothing is written past the rows; tables do
  not grow without need.
- *memory register*: the processes agree on the rows.
- *message queue*: tag and payload are told apart where the sender put them; the
  sum of sizes is what it says.
- *global arrays*: ranges are cut into pieces that lie in their slices and
  together are the range; a handle in use is not given away.
- *C++ contexts*: nodes decide alike about four exchanges, three of which may be
  left out; contexts that each keep a register of their own agree on it; what is
  put, got or sent arrives once, by queue or by table, at the context meant.
- *task mapper*: the tables every node builds for itself are inverse to each other.
- *threads*: nothing that a thread deposits is lost, a message is taken once, and
  waiting for the mutex ends, though `bsp_sync` keeps it for long.
- *shared variables*: an initialisation reaches every context; a reduction takes
  each context once, in order, and has one result on all nodes, those without
  contexts included; what is serialised is read back from the same place.
- *examples*: they compute what they are written for in whatever order their
  processes run, and what one process reckons about another is what that one does.

## 2. The modules

`Bsplib` <- `BspSyncRef` -> `BspSync` -> `MemReg`, `MessageQueue`;
`BspSyncProofs` -> `BspSyncRef`, `BspSyncInv` -> `BspSync`; `DelivTableProofs` -> `DelivTable`;
`RecvTablesProofs` -> `RecvTables`; `ContextProofs` ->
`ContextSync`; `ContextOutcome` -> `ContextSync` -> `Placement` <-
`TaskMapper` <- `BlockProofs` -> `GlobalArray`; `Recursion` -> `Placement`;
`SharedProofs` -> `SharedOutcome` -> `SharedVars` -> `Dataset`, `Placement`;
`ThreadsProofs` -> `Threads` -> `GlobalHandles`; `Examples` -> `InnerProduct`,
`MpiLU` -> `LU`, `FFT`, `MatVec`, `Mirror`, `Bench` -> `Segments`; `BspSyncProofs`,
`DelivTableProofs`, `RecvTablesProofs`, `ContextProofs`, `BlockProofs` and `SharedProofs`
also -> `Recursion`; the others stand alone. An arrow is EXTENDS, except that `BspSyncRef` has `Bsplib` as an INSTANCE.

**`BspSync`** is the core: N processes, the calls, and `bspx_sync`. Local work of
a process touches nothing of another one, so a step is the work from leaving
one collective to entering the next:

| action | code |
|---|---|
| `Put`, `Get`, `Send`, `Move`, `HpMove`, `ResetBuffers`, `PushReg`, `PopReg`, `SetTagsize` | the functions of `bspx.c` of the same name (`bspx_hpput` and `bspx_hpget` call `bspx_put` and `bspx_get`) |
| `Write` | the program changes its memory |
| `EnterSync` | `bspx_sync` up to the exchange of sizes |
| `LeaveInfo` | from there to the exchange of requests, or of deliveries when nobody has a get |
| `LeaveReq` | `requestTable_execute`, to the exchange of deliveries |
| `LeaveDeliv` | `deliveryTable_execute`, reset of the tables, `memoryRegister_pack`; or the abort when there is nothing to pop |

`pc[p]` is the collective p is in; `chan[p][q]` the blocks p gave to collectives
and q has not taken. MPI matches collectives by the order of the calls, so
the blocks form a queue and a process leaves when one block of everybody is
there. That is weaker than MPI (which may hold a process longer) and stronger
in nothing the code relies on. A block carries its kind only for the
properties. Tables are queues per column and type of action; memory is a
function from addresses to values and a transfer moves one value. Sizes are
kept where the code reckons with them (messages and tags).

A *program* (`program`, chosen at the start) lists the calls all processes make
alike and the calls anybody may make. BSPlib demands the former, and the
library does not check them.

**`MemReg`** and **`MessageQueue`** hold the operations of the register and the
queue as operators. **`BspSyncInv`** states the inductive invariants of the
proofs, and which programs are legal. **`Bsplib`** is the abstract superstep, without tables and collectives;
**`BspSyncRef`** adds two history variables to `BspSync` (what was called in the
superstep, and its outcome) and maps it to `Bsplib`.

**`DelivTable`** is the delivery table slot by slot: growth, links, the move to
the table of a receiver, the chain of messages. Column p plays both the part
of what is sent to p and of what comes from p: the layout does not depend on
which. It justifies the queues `BspSync` uses for tables.

**`RecvTables`** is the sizing of all four tables of every process. It takes all
processes through an exchange in one step, which `BspSync` justifies
(`CollectivesMatch`).

**`GlobalArray`** is one global array and the calls of one process;
**`GlobalHandles`** the table of handles. A `size_t` has `SizeMod` values and wraps. The loop
that cuts a range is a function of its rounds (`Round`, `Pieces`).

**`Placement`** is the arithmetic that places a logical processor on a node;
**`TaskMapper`** the constructor that turns it into tables, one round of a loop a
step, as seen from any node.

**`ContextSync`** is the C++ layer: `processors` contexts on `nprocs` nodes. The
tasks of a node call at any time and in any order; their calls are atomic, as those
that touch shared tables hold `TSLOCK`.

| action | code |
|---|---|
| `Put`, `Get`, `HpPut`, `HpGet`, `Send`, `HpSend`, `Move` | the calls of `ContextImpl`; one disjunct for a partner on the same node (its queues, or its memory at once), one for another node (the tables of the level-0 library) |
| `PushReg`, `PopReg` | a request is noted, or an exception thrown |
| `EnterSync` | local deliveries, context by context; flags and number of registrations, to their exchange |
| `LeaveInfo` | the decisions; to the exchange of registrations, requests, deliveries, or to the end |
| `LeaveReg` | `process_memoryreg_ops` behind its exchange: checks, registers, exceptions |
| `LeaveReq` | `requestTable_execute` |
| `LeaveDeliv` | `deliveryTable_execute`, the split of the messages, the switch of the queues |

`reg` is `memory_register` and `memory_register_map` at once: rows of addresses,
packed. `pc` and `chan` are as in `BspSync`. Slots of registrations that are sent
without having been written hold anything (`Unwritten`). All registered areas
have one size. **`ContextOutcome`** adds history variables: the calls made in a
superstep, memory at its end, and what contexts have on return; its properties
compare them.

**`Threads`** has the threads of one process that call the library through the
wrappers, over the table of handles of `GlobalHandles`; the other processes are
an environment that comes to its syncs at its own time.

| action | code |
|---|---|
| `Make`, `Enter` | a wrapper is called; it gets the mutex, and the function of `bspx.c` reads how far its table is filled, or the queue |
| `LeaveDeposit`, `LeaveReading`, `LeaveMove`, `LeaveSync`, `LeaveReset` | the function writes behind what it read, or moves the head of the queue, and the mutex is given back |
| `EnterUnlocked`, `LeaveAlloc`, `NeverAlloc`, `LeaveFree` | `bsp_global_alloc` and `bsp_global_free`, without the mutex |
| `bsp_end` | takes the mutex for good |
| `OthersArrive` | the other processes come to their next sync |

A call is two steps, so that whatever could come between the read and the write
does, where no mutex keeps it out. `MayMake` says what a program has to see to,
because the library does not: one thread makes the calls that all processes
must make alike, it is alone when it allocates, frees or discards the buffers, and
a thread that calls `bsp_move` has seen a message that no other thread takes.

**`SharedVars`** has the node-level calls for shared variables, with
`SerializedDataset` in **`Dataset`** (positions in words, sizes in bytes). A node
posts its part of a collective to its log, and goes on when the parts it waits
for are in the logs of the others.

| action | code |
|---|---|
| `InitializeAll`, `SendWords`, `ReceiveWords` | `initialize_all`: dataset, broadcast of its header and of its words, the variables of the contexts |
| `Initialize`, `SendBytes`, `ReceiveBytes` | `initialize` of one variable: its size, its bytes |
| `ReduceLocal` | a reduction of the contexts of a node only |
| `ReduceNode`, `GatherSizes`, `GatherElements`, `TakeElements`, `ReduceNodes` | `reduce_impl`: the contexts of the node, all-gather of sizes and of datasets, their elements, the nodes |
| `Execute`, `RunStep`, `EnterSync`, `LeaveSync` | a superstep of a computation: the contexts use their variables in any order, then the nodes meet |
| `BroadcastString`, `Fold`, `FoldAll`, `Level1Alone` | `bsp_broadcast.h`, `bsp_fold.h` |

A value is the sequence of what has been put together in it, so that every loss,
repetition and change of order shows. The parallel reduction of the contexts is
the set of results over all ways to split once (`SharedVariable.h:244`).
**`SharedOutcome`** says what the calls mean, each at once on all nodes, and
compares.

**`Examples`** runs programs: a *segment* is what a process does up to its next sync
or MPI call (modules **`InnerProduct`**, **`LU`**, **`MpiLU`**, **`FFT`**,
**`MatVec`**, **`Bench`**, **`Mirror`**, with the helpers of **`Segments`**);
`Compute(s)` runs the next segment of process s and `Sync` carries out what all of a
group have deposited: gets, then puts, then messages, as `Bsplib` has it. For
MPI a call waits until all that take part have come, a send for its receive: MPI
allows that, and a program that hangs then is wrong. Collective calls one right
after the other are one. Numbers are those of the field of `Prime` = 17 elements,
with exact division and roots of unity (`Root`), so that results can be compared
exactly; the size of a number, for the choice of a pivot, is its residue. Times are
inputs (a slope and a start), and so are matrices, which are read from files in
the code.

**`Recursion`** models nothing: it has the lemmas about induction, recursive
functions, maxima, sums, choices in order, division and the blocks of `Placement`
that the proofs share.

Operators marked *mutant* are plausible mistakes in the code, each next to the
definition it would replace. No specification uses them: they serve to see
that every property can fail (`PROJECT.json`, "mutants").

## 3. The runs

| run | instance | what it shows |
|---|---|---|
| `control` | 3 processes: 3 supersteps with 2 gets anywhere; 2 with one put or write; 2 with messages; a pop that aborts | all take the same collectives; barrier; every sync that all have called returns; `ControlInv` |
| `ref` | 2 processes; programs for data, messages, registrations | `BspSync` implements `Bsplib`; registers and tag sizes agree |
| `delivtable` | 3 columns, 3 elements of 0 or 44 bytes, 2 types, minimal rows | lists, received lists, chain of messages |
| `recvtables` | 2 processes, 4 calls, 2 supersteps | tables suffice; growth is bounded |
| `globalarray` | 3 processes, 3, 6, 9 bytes, 2 calls | ranges are read and written exactly |
| `globalarray_rounded` | 4 processes, 5 bytes | *violated*: an index below zero |
| `contexts` | 4 processors on 3 nodes (2, 2 and none): 2 puts or gets; 2 gets or messages in any of 3 supersteps; 2 unbuffered calls or writes; 3 messages and moves; registrations popped and made again with crossed addresses; programs that end in an exception | all nodes take the same collectives; contexts keep the same registers; every transfer and message arrives, once |
| `contexts_hpsend` | the same, 1 message | *violated*: messages of `bsp_hpsend` arrive |
| `taskmapper` | 0 to 12 processors on 1 to 5 nodes, every node | the tables are inverse; `MapperInv` |
| `sharedvars` | 4 processors on 3 nodes (2, 2 and none), 3 on 2, 1 on 2, 2 on 1; 4 variables; 7 sequences of up to 7 calls | all nodes have what the calls mean; collectives match; datasets; every call returns |
| `threads` | 2 threads, 5 calls, 2 syncs with 2 messages each, 2 handles | no deposit is lost; messages are taken once; handles; every call returns |
| `examples` | 1 to 4 processes, see below | the programs compute what they should, or give up when they should; their puts do not conflict and stay in their arrays; parts of MPI calls match; no deadlock |

**Why these bounds.** Three processes are the fewest for which a process can be
ahead of one and behind another, and a middle column can be empty between two
that are not. Three supersteps let a process begin the next one while another
is in the last. The programs of `ref` register an address twice, pop the
newer, the older stays; pop it and make it again in one superstep, as a program that calls
`bspmv` again does with `v`; change the tag size twice; and leave three free calls,
enough for a put and a get that meet at one address with a write before them,
or for messages in two supersteps with a move between them. 44 bytes do not fill their last slot and
are, with a header, more than the smallest legal table leaves free, so that
every way of growing occurs in three elements; the real minimal sizes (2048
and 256 rows) would need thousands. 3, 6 and 9 bytes on three processes give
slices of 1, 2 and 3 bytes, so that there are ranges in one slice, over two and
over three; all ranges are tried. Two handles and three allocations fill the table and
find it full (for tables of any size there is a proof). Two threads and five
calls let every pair of wrappers meet, with a sync before and behind; wrappers
that do alike are represented by one (`MCCalls`). The sequences of `sharedvars`
compute, reduce and broadcast the same variables again, so that a call meets what
another has left, and a node may be ahead of another; names have 1, 3, 8 and 15
bytes, around the ends of words. The inputs of `examples` are: vectors of length
-1 to 4; all 2 by 2 matrices over 0, 1, 3 and some of 3 by 3, singular ones and
such that need every exchange of rows, on grids up to 2 by 2 and 3 by 1 (processes
without rows or columns); unit vectors of length 2 to 16 on 1 to 4 processes (the
transform is linear), back and forth; all sparse 2 by 2 matrices in all
distributions on two processes, one of 3 by 3 on three; benchmarks on 1 to 4
processes with more and with less data than processes. Four processors on three nodes are the
fewest with two contexts on a node, a pair on different nodes, and a node without
contexts. A program names the processors that calls may address (`to`): one is
enough, as all processors call, from its node and from the other. Addresses are
crossed (the last processor registers `y` where the others register `x`), so
that an address taken for another processor's is noticed. All initial values
differ, so that a value tells where it came from. Twelve processors on five
nodes include every way a division can come out. Bounds are `most` (calls) and the
length of `coll` (supersteps) in a program, `MaxPush`, `MaxCalls`, `MaxSync`,
`MaxAllocs`, `Sizes`, `MaxSyncs`, the sequences in `Scripts` and the programs in `Jobs`;
steps at the bound stutter (`Over`), so that a deadlock is a real one. Only
`TaskMapper` really ends: its constructor returns.

**Fairness.** `FairSpec` has weak fairness of `InSync(p)`: a process inside
`bspx_sync` goes on when MPI lets it. MPI completes a collective that all
processes have entered, and between collectives the code waits for nothing.
There is no fairness for the calls of the program: `SyncCompletes` only speaks
of syncs that every process has called. `SharedVars` has weak fairness of `Next`:
some node goes on as long as one can; as the calls are finite, `CallsReturn` then
says that no node is left in a collective. `Threads` has weak fairness of the
mutex and of the function for each thread, and of `OthersArrive`. The mutex is not
assumed to be fair: a thread may be passed over as long as others come for it,
which in a run is a bounded number of times. That the other processes come to
their syncs is what BSPlib asks of a program. `Examples` has no fairness: that the
programs end is deadlock freedom, since every segment is finite.

## 4. The proofs

**The core.** `BspSyncProofs` proves, for every number of processes, every memory
and every set of programs:

- `ControlInvariant`: `Spec => []ControlInv`
- `CollectivesAlwaysMatch`: `Spec => []CollectivesMatch`
- `SyncIsBarrier`: `Spec => Barrier`
- `TypesCorrect`: `Spec => []TypeOK`
- `RegistersAlwaysAgree`, `TagsAlwaysAgree`: the same of `RegistersAgree` and
  `TagsAgree`, for `LegalPrograms`

`CollectivesMatch` is not inductive: it says what the *next* block is, and
nothing of the second one, nor of why two processes choose alike. `ControlInv`
describes `chan[q][p]` in full, by how q and p stand to each other: in the same
collective there is one block; if q is one collective ahead there are two, of
known kinds; if p was there first there is none; and nobody is further apart,
because leaving a collective needs a block of everybody. What a process that
has decided to exchange requests knows is that some process had gets
(`Decided`, `SomeIssued`), and that block is the same for all readers
(`Agreement`): so all decide alike. Each action is one step of the
proof that the invariant is kept; the calls of a superstep leave all of it
alone.

`TypeOK` is not inductive either: that the queue's counters stay natural numbers
depends on the sizes of the messages in it, that a put finds its row on the
register of another process. `DataInv` gives what is in tables, queues and blocks
its type, and says that a process has put into its tables what the program's
collective calls up to now asked for (`KeepsUp`), and that what is on its way
to q is what its sender passes in the superstep q is in (`OnTheWay`).

Registers and tag sizes agree because nothing but the program decides them: `Rows`
and `Tags` compute from the program alone what a process has after so many
supersteps, and `Accord` says that each process has that (`Accords`), and that a
message on its way carries a tag of the superstep its receiver is in
(`TagsOnTheWay`). So two processes are never compared with each other. This needs
`Legal`: all give the same tag sizes, and a pop names, through the address each
process has for it, the same row in all of them. The library does not
check either (`memoryRegister_pack` searches the process's own column), and
without it the theorems are false. TLC checks `Legal` for the programs of `ref`
(`LegalAssumption` in `MCBspSyncControl`). The other assumptions are `NAssumption`,
`PayloadAssumption` (sizes are natural numbers) and `ProgramsAssumption`.

**The refinement.** The second half of `BspSyncProofs` proves `LibraryImplementsBsplib`
(`RefSpec => ImplementsBsplib`): for every number of processes, every memory and all
programs that are `LegalPrograms` and `AgreedPops`, each step of `BspSyncRef` is one of
`Bsplib` or changes nothing there. A call is a call of `Bsplib`; entering
`bspx_sync` is its `Sync`, which for the last process to enter fixes the outcome of
the superstep; the collectives inside change nothing; and leaving the last of them is
`Return`. (A process with nothing to pop ends in an abort, and `Return` is not taken.)

The difficulty is the time between. When the last process enters, most of what it
will execute is not there yet: the gets are requests, the answers will be made one
process at a time, and a process that returns early starts to change its memory, its
tables and what was posted, while others have still to execute. So the outcome
cannot be read from the tables, and what is in them is not what was posted. `RefInv`
says what they have in common:

- `Recorded(p)`: the request table of p holds the gets it posted, and until p enters the
  exchange of deliveries its delivery table holds the puts and messages; what it posted
  of registrations is what the program passes;
- `Requests(p, q)`: a block with requests that is on its way to q carries the gets of p;
- `Settled(q)`: once all have entered, and until q returns, the outcome of q is what q would
  have if it now executed what is *due* to it from each process: the block that is on
  its way if there is one (`HasSent`, `Sent`), and otherwise the puts p has posted,
  followed by the answers it will give to the gets, from its memory as it is
  (`DueWrites`, `DueMessages`).

What is due is the same before and after every step inside `bspx_sync` (`SameDue`,
`DueStays`). The steps that need an argument are `RefEnter` of the last process,
where what `Bsplib` computes for one address at a time, and one registration popped
after the other, is shown to be what executing column by column and dropping all
popped rows in `memoryRegister_pack` gives (`LastSettles`, with inductions over
columns, writes and pops); `LeaveReq`, where the requests that have
arrived become deliveries behind the puts; and `LeaveDeliv`, which executes what was
due. That other processes may have returned, and may have called again, is harmless
because they have *sent*: what they do now is behind the block that q takes.

`AgreedPops` says of a program what BSPlib demands of `bsp_pop_reg`: each pop means the
same registration in all processes, the first pop of a superstep as well
as all of them together. `Legal` only has the latter, which suffices for the
registers to agree; but `Bsplib`, which has one list of registrations for
all, gives a meaning to each pop. TLC checks it for the programs of `ref`
(`AgreedAssumption` in `MCBspSyncControl`).

**The tables.** `DelivTableProofs` proves, for any number of processes, types of
action, sizes and pushes, and every number of rows a table may start with or be
received with:

- `TypesCorrect`: `Spec => []TypeOK`
- `ListsAlwaysIntact`: `Spec => []ListsIntact`
- `ReceivedAlwaysIntact`: `Spec => []ReceivedIntact`
- `ChainAlwaysQueue`: `Spec => []ChainIsQueue`

`ListsIntact` follows links from the start of a list, so it does not say why the
next push leaves them alone. `TableInv` gives each list the *places* of its
elements, counted from the top of the column: a growth, which moves the columns
apart, keeps them. An element with its slots lies above the index and
below `used`, where the next one goes, so a push overwrites nothing; only the
link of the last element of its own list. That no other list has that link is
`Numbered`: every element is in one place of one list.

`deliveryTable_execute` writes links into the received table: the last message of
a column gets the one of the next column that has messages. `RecvInv` says that
the lists of the other types are as they were sent, and that the messages are but for that
last link (which is why `ReceivedIntact` follows one link less than there are elements).
The chain is then put together column by column: by induction on the number
of columns, the links from the first message on visit the messages of the columns
so far, and the last of them has the link that leads to the next (`FlattenSeq` is
taken apart in the same induction). Assumed are `NProcsAssumption`,
`TypesAssumption` (messages are one of the types), `SizesAssumption` and
`MinRowsAssumption`.

`RecvTablesProofs` proves, for any number of processes, calls and sizes,
`TypesCorrect` (`Spec => []TypeOK`), `NothingOverflows` (`Spec => []Fits`) and
`GrowthAlwaysBounded` (`Spec => []GrowthBounded`). Of `Fits` the hard part is that
the received table is large enough for *answers* nobody has made yet:
`bspx_sync` sizes it by what the requests announced (`data_sizes`), while the
answers are pushed by another process, with a header and rounded up. `Reckoned`
says that what was announced is no less than the slots of the answers to
the requests in the column, summed one by one (`Total`); `Room`, that in the
exchange of requests the received tables have room for the requests, for what was put
and for what is reckoned, and afterwards for what has come. That answering the
requests of a column adds just that sum is an induction over them
(`ColumnSteps`). `GrowthBounded` is kept because a table grows to no more than twice
what one of its columns needs (`GrownFrom`), and `peak` has seen that column.

**Contexts.** `ContextProofs` proves, for any numbers of processors and nodes,

- `NodesMeet`: `Spec => []CollectivesMatch`
- `TypesCorrect`: `Spec => []TypeOK`
- `RegistersAlwaysAgree`: `Spec => []RegistersAgree`, for `LegalPrograms`

A sync of the contexts has up to four exchanges, three of
which are left out when nobody needs them, so `ControlInv` of the core would need
a case for every way two nodes can stand. The proof says instead
that there is one *history*, a sequence of collectives with what every node gave to
it, such that each node has been through a beginning of it, and `chan[q][p]` is what q gave
between p's place in it and its own. A node at the end of the history adds to
it; one behind decides from the blocks it gets, which are those from which the
others decided (`IsAt`, `After`). The history is in no variable: the invariant
(`OneHistory`) says that there is one. No assumption on the constants is needed.

`TypeOK` says nothing of the blocks on their way, from which registers, tables and
queues are filled. `TypeInv` types a block by its kind, and needs `CollectivesMatch` to
know which kind a node takes. What a get or put finds depends on the
address being in the register of its own processor (`HasRow`), and
which context a message is handed to, on the blocks of `Placement` (`ContextsTyped`: the contexts of a node
are numbered without gaps). Assumed are `CountsAssumption`, `MemAssumption`
and `ProgramsAssumption`.

Registers agree because nothing but the program decides them, as in the core: `Rows`
computes what a context has after so many supersteps. But here the requests
travel between nodes, and a node may be a superstep ahead of the one whose requests it is
sent, with up to four blocks on the way, of which any may be missing. So each channel
is *dated*: the blocks in it can be given numbers of supersteps, which go up by one
at each block of flags (`Ages`), from what the receiver has taken (`Took`) to what the sender has given
(`Gave`), and a block with requests carries those of its superstep (`Told`). `AccordInv`
says this of all channels, and of each context that its register is the row of `Rows`
for its superstep and its requests are a beginning of those the program makes (`Accords`).
The step that needs an argument is `LeaveReg`: `SameRows` shows, by induction over the
requests, that they do to the register of every processor
what they do to that of processor 0, as a push appends what all have sent and a pop
removes the row that its address has in each (`PopsAgree`); `NothingStale`, that when all have
made equally many requests, the memory of the receiver that was not written is never
read. A node that is given unequal numbers by its own contexts throws before it
sends anything (`FoundEven`).

`Legal` says of a program that it makes its registrations alike: equally
many on all processors, and with each pop the same row, unless the numbers differ on one
node. The checks of `process_memoryreg_ops` do not replace it: serials may be given twice
(section 5), and numbers that differ between nodes only are not compared. Programs that end in
the exception for a pop of what is not registered, for crossed kinds, and for
unequal numbers on a node are legal. TLC
checks it for the programs of `contexts` (`ProgramsAreLegal` in `MCContext`).

**Handles, blocks, threads.** `ThreadsProofs` proves `HandlesAlwaysKeepArrays` of `GlobalHandles`
(`Spec => []HandlesKeepArrays`) for any size of the table and number of allocations. The property alone is not
inductive, because while the table has not been full the next entry is taken
without a look; `HandlesInv` adds that then the entries from `last` on are
free, and that arrays not yet made are nowhere.

`BlockProofs` is about what is dealt out in blocks of a rounded-up quotient. Of
`TaskMapper` it proves, for any numbers of processors and nodes and on every
node, `MapperInvariant` (`Spec => []MapperInv`), `PlacesInvert`
(`Spec => []TablesInverse`) and `ContextsOfNode` (`Spec => []ContextsAreMine`). The
invariant says what the loops have filled in when they are at processor `p`: node
`n` has so many of its block as lie below `p` (`Taken`). The lemmas are about
division (`Quotient`, `BlockOf`, `OtherBlock`, in `Recursion`). The argument turns on one fact:
the largest number of processors on a node is that of node 0, the size of a
block, as soon as a second node is in use; so the slot `which_global` has for a
processor is the processor itself, and no two share one. Assumed is `SizesAssumption`.

Of `GlobalArray` it proves, for any number of processes, any calls and any number of values of a `size_t`,

- `ArrayInvariant`: `WholeSlices => (ArraySpec => []ArrayInv)`
- `ArrayAlwaysHeld`: the same for `SlicesHoldArray`
- `GetsAlwaysReadArray`: for `GetsReadArray`
- `PiecesAlwaysInSlices`: for `PiecesInSlices`

`WholeSlices` says that the size of the array is a multiple of the number of
processes, and that the product of the two fits a `size_t`. The code asks for neither; but
with any other size `offset * procs / gsize` need not be the process that holds the
offset (`globalarray_rounded`, where the run has no such assumption). With it the theorems
say that the arithmetic is right, which the three properties need in different
ways. `Beginning` shows that the range begins in the right place without a wrap.
`RoundProgress` is the invariant of the loop: what has been cut off is in pieces
that are parts of the range (`PartOf`), the next one starts where the last one
ended, and after k rounds at least k bytes are cut or nothing is left; so
`RangeIsCut`: the pieces are all of the range and nothing else. `LandedPieces` goes
from pieces to what they mean: the first k of them change just the
bytes they have. None of the properties is inductive, as none says what the waiting pieces
will do. `ArrayInv` adds that: were `bspx_sync` to come now, the slices would
hold the array that the calls mean (`ArrayHeld`), and the pieces of every waiting
get are its whole range (`Collects`). TLC checks `WholeSlices` for the sizes of
`globalarray`, on which `ArrayInv` was checked as an invariant before it was proved. Assumed are `NAssumption` and `ArraysAssumption`.

Of `Threads` `ThreadsProofs` proves, for any number of threads, calls, syncs and handles,
`NothingIsLost` (`ThreadsSpec => []NothingLost`), `MessagesTakenOnce`
(`ThreadsSpec => []TakenOnce`), `ThreadsUseHandles` (what threads
do to the table of handles is what `GlobalHandles` allows: `ThreadsSpec => Spec`)
and from it `ThreadsKeepHandles` (`ThreadsSpec => []HandlesKeepArrays`).
`NothingLost` is not inductive: a thread writes what it *read* and one entry more.
The strengthening `ThreadsInv` says that what a thread in the library has read is still
so (`Sees`), because whoever is in the library has the mutex (`Holder`), or is in one
of the two calls without it and then alone (`Alone`), as `MayMake` keeps others from
coming in. Assumed are `ThreadsAssumption` and `MaxArraysAssumption`.

**Shared variables.** `SharedProofs` proves, for any numbers of processors and nodes,
any declared variables and any sequence of calls that the nodes make alike,

- `TypesAreKept`: `OSpec => []TypeOK`
- `NodesAgreeOnCollectives`: `OSpec => []CollectivesMatch`
- `ElementsLieApart`: `OSpec => []ElementsApart`

None is inductive: that two nodes pass the same sizes says nothing of why. A node
passes in the second collective of a call what it was told in the first, and
the master what its own dataset takes. `Inv` says of each entry of a log what it is, and
never compares two of them. A call has a fixed number of collectives (`Parts`),
decided by the call and the number of nodes, so the place of an entry tells the call and
which of its collectives it is (`Base`, `Between`, `Belongs`). The first is fixed by
the call, up to what the node says there (`First`); the second by what was said in the
first: by the master (`SecondBcast`) or by all nodes (`SecondGather`). A node is as
far in its log as its `pc` says (`Situated`), and its dataset as far as that (`Stored`).

What `Apart` needs of a dataset is that its elements begin at positions each of which
is behind the element before it: `Row` has these positions, `Filling` and `Reading`
say where the dataset's own position stands among them. `add_elem` puts one more at
the end (`AddedIs`); a dataset that comes from another node has the same positions in
its header, and `get_elem` goes along them (`TakenIs`). Between the two
broadcasts of `initialize_all` (`pc` is `"words"`) the header is packed on the master and
means nothing yet on the other nodes: `Inv` then only says that the words will fit. That every value a reducer makes is a value needs the
contexts of a node to be numbered without gaps (`PlacesOfNode`). Assumed are
`SizesAssumption`, `KindAssumption` and `DeclaredAssumption` (each declared variable has a name and
a reducer), `NameBytesAssumption`, and `ScriptsAssumption` (the calls are
those of the library, with declared variables, and `bsp_broadcast` is given a
root); TLC evaluates them for `sharedvars`.

**Induction over data.** The library states induction for an operator as a parameter,
which the provers here cannot instantiate. `Recursion` derives from `WFMin` of
`WellFoundedInduction` the same facts about *sets* of numbers (a set that has 0 and with
every number the next one is all of `Nat`) and about *functions* (a function
given by recursion has the values its definition gives), and from them what the proofs
need of `Max`, of sums, and of the k-th element of a set in order. A proof by
induction names the set of numbers for which the claim holds and shows that it is
such a set. Lemmas have flat hypotheses (`NEW n, n \in Nat`) and conclude with a
defined name where they are used for primed states, so that they can be cited
for both.

**Model-checked only.** `SyncCompletes` and the two `CallsReturn`: liveness is outside
the reach of the prover. `WritesLand` and `MessagesArrive` of `ContextOutcome` and `SharesAsMeant` of `SharedOutcome`
compare a model with what the calls mean through many recursive functions, and
`Examples` compares results of arithmetic in the field of `Prime` elements: these stay
with TLC.

## 5. What the models found

1. Offsets in global arrays whose size is no multiple of the number of processes
   can give an index below zero, against the assertion in the loop
   (`globalarray_rounded`).
2. `bsp_hpsend` of a context puts a message for another node into the wrong column
   (`bsp_contextimpl.h:249`, `contexts_hpsend`).

Without a run of their own, seen while modelling:

- The search for a free handle never goes back to the first entry: after the table
  was full once it aborts, or reads behind the table, with entries free
  (`bsp_global_drma.c:57`, `AllocBehind`).
- Local deliveries of contexts are carried out before remote gets are answered,
  and context by context: a get may read what was put in the same superstep,
  which the level-0 library never lets it (`bsp_contextimpl.cpp:96`). `WritesLand` is
  what remains true: as long as nothing is both read by a get and written.
- `ReduceFirst` and `ReduceLast` have no neutral element (`reduce_numeric.inl:143`):
  with a node without contexts the old value of that node's variable takes the
  place of the last context's. `SharesAsMeant` leaves that case out (`HasMeaning`).
- `ReduceProduct` adds (`reduce_numeric.inl:173`); `ReduceLast` is commented as the
  leftmost.
- `MPI_Alltoallv` gets its counts and offsets as ints (`bsp_exptable.c:51`), which
  tables of 2 GB, and the overstated counts of gets eight times earlier, overflow.
- A C++ context that moves a message gets no word of its size: `bsp_hpmove` returns 0
  (`bsp_context.cpp:142`); the request table of a node is enlarged in every
  superstep with gets (`bsp_contextimpl.cpp:268`).
- A name that the receiver of a dataset does not know is not skipped
  (`bsp_sharedvariableset.cpp:180`): the loop stays at it.
- `bsp_global_alloc` and `bsp_global_free` take no lock (`bsp_www.c:714`), `bsp_end`
  destroys the mutex locked (`bsp_www.c:425`), and `bspmv_test.c` calls `bsp_end` twice.
- `bspmv.c` and `bspmv_test.c` pass an int where the library reads or writes a
  `size_t`; `k1_init` of `bspfft.c` does not end for n = p; `mpimv.c` gives `MPI_Put`
  the addresses of loop counters.
- `accum_size` and the answer of `bsp_qsize` are documented as sums of payload
  sizes and are sums of payloads and tags (`bsp_delivtable.c:87`); `bspx_hpmove`
  and `bspx_move` take different amounts off. `bspx_get_tag` likewise reports the
  whole size (`bspx.c:340`).
- `used_slot_count` of a received delivery table adds bytes to slots
  (`bspx.c:146`): larger tables and receive counts than needed.
- A pop and a push in one superstep, as `bspx_global_free` and `bspx_global_alloc`
  make them: when the allocator gives the same block again on process 0 only, process 0
  pops the new row and the others the old one, as all pushes are executed before all
  pops (`bsp_delivtable.c:101`). With the program `<< <<All("push", x)>>, <<All("pop", x),
  Cross("push", x, y)>>, <<>> >>` of `MCBspSync` `RegistersAgree` is false. Where the
  addresses are the same again on all processes nothing is wrong (`ref`).
- The serial that is to find out registrations in different orders is given twice after
  a pop (`bsp_contextimpl.cpp:378`). When all contexts push x and y, pop x and push it again, and
  then one pops y and the others x, no exception is thrown and `RegistersAgree` of
  `ContextSync` is false.
- Numbers of registrations of contexts that differ between nodes only are not
  compared; unwritten memory takes the place of the missing ones
  (`bsp_contextimpl_memreg.cpp:55`).
- `put.cpp:29` and its like in `get.cpp`, `hpput.cpp` and `hpget.cpp` register one `int`
  of `var2` and transfer its third: a size that the library does not look at.
- The task mapper leaves nodes empty while others have several processors: 4
  processors on 3 nodes become 2, 2 and 0.

## 6. Not modelled

In the contexts, tag sizes, sizes of registered areas,
`bsp_reset_buffers` and the result of `bsp_hpmove` are left out; `bsp_hpsend` to a
column that does not exist writes outside the table, and to a node without that
context fails an assertion; neither is followed, nor is the memory behind the
queues. The values a program writes in `ContextSync` are `NewVal`. In `Threads` what a call
puts into a table is its number, and two threads in the library without the mutex
(a data race) are kept out by `MayMake`. In `SharedVars` all nodes declare the same
names, and of the reducers there is one of each sort: joining, adding element by
element, taking the last; the parallel reduction of the contexts of a node is split once at most
(TBB may split more often, which gives nothing new when the operator is associative).
In `Examples` registrations and their sizes are not followed: `Mirror` has all of
`var2`, of which the programs register one element; `MatVec` runs `bspmv` once,
where `bspmv_test.c:563` repeats it, with a pop and a push of `v` in one
superstep (a program of `ref` has that); in `mpibench.c` the barriers next to
`MPI_Alltoallv` are one with it, and its processes meet once before they begin. Left out for good: start and end of MPI, allocation,
clocks, command line, printing, the sequential communication (N = 1); `mpimv.c`,
whose result MPI does not define; reading matrices from files (`bspmv_test.c`,
`mpimv_test.c`); the tests, which call functions of the library with made-up
arguments; the timing programs of `examples/benchmark`, which only measure; the
vendored header `cblas.h`. The library does not check that programs follow the rules of BSPlib
(collective calls made alike, registered addresses, `bsp_reset_buffers` right
after a sync, a move only with a message): the models assume them, and the
hazards say where the code depends on them. What the C++ contexts do check of
these rules (number, kind and serial of registrations), `ContextSync` models.

## 7. Plan

In this order; the first eight are done.

1. `BspSync`, `MemReg`, `MessageQueue`, `BspSyncInv`, `Bsplib`, `BspSyncRef`: the core.
2. `DelivTable`, `RecvTables`: the tables behind it.
3. `GlobalArray`, `GlobalHandles`.
4. `ContextSync`, `ContextOutcome`: several contexts per node over one set of tables.
5. `Placement`, `TaskMapper`: mapping and its inverse, nodes without processors.
6. `Dataset`, `SharedVars`, `SharedOutcome`: initialisation and reduction over nodes,
   broadcast and fold.
7. `Threads`: threads that call the library under the mutex and the two calls
   that do not take it; `bsp_end`.
8. `Segments` to `Examples`: the example programs.
9. Programs that pop and register in other orders than those the proofs speak of
   (section 5).
10. Tag sizes and `bsp_reset_buffers` of contexts, with the sizes of the tables of
   a node (`requestTable_expand` in every superstep).
11. Proofs. Done: all invariants of `BspSync`, `DelivTable` and `RecvTables`,
    the refinement `ImplementsBsplib`, all invariants of `ContextSync`, those
    of `GlobalArray`, `GlobalHandles`, `TaskMapper` and `Threads`, and of `SharedOutcome`
    all but `SharesAsMeant`.
