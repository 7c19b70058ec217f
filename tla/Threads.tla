------------------------------- MODULE Threads -------------------------------
(***************************************************************************)
(* The threads of one process that call the level-0 library through the    *)
(* wrappers of bsp_www.c.  A wrapper takes g_bsp_tl_mutex, calls the       *)
(* function of bspx.c of the same name and gives the mutex back; only the  *)
(* allocation of global arrays and their release take no lock.  The other  *)
(* processes are an environment that comes to its syncs at its own time.   *)
(*                                                                         *)
(* What a function of bspx.c does to the tables is here reduced to what    *)
(* threads could do to each other: it reads how far a table is filled and  *)
(* then writes behind that, or reads the queue and then moves its head.    *)
(* Taking the mutex and the read are one step, the write and giving the    *)
(* mutex back another.  GlobalHandles gives the table of global arrays.    *)
(***************************************************************************)
EXTENDS GlobalHandles, Sequences

CONSTANTS
  Thread,    \* threads of the process
  Nobody,    \* no thread: the mutex is free
  Main,      \* the one that makes the calls all processes must make alike
  Calls,     \* the wrappers the program calls
  Arriving,  \* messages that arrive in a sync
  MaxCalls,  \* bound: calls in a run
  MaxSyncs   \* bound: syncs in a run

ASSUME ThreadsAssumption ==
  /\ Main \in Thread /\ Nobody \notin Thread
  /\ Arriving \in Nat /\ MaxCalls \in Nat /\ MaxSyncs \in Nat

VARIABLES
  mutex,   \* g_bsp_tl_mutex: the thread that holds it, or Nobody
  pc,      \* of each thread: "out", "waits" for the mutex, "in" the library
  call,    \* its call: the wrapper and a number of its own
  seen,    \* what the function has read
  tables,  \* the tables of this superstep: the numbers of the calls in them
  carried, \* of each sync: the tables it carried out
  queue,   \* the messages in the queue, numbered as they arrive
  others,  \* syncs the other processes have come to
  calls,   \* calls made so far
  ended,   \* bsp_end was called
  order,   \* history: the calls that returned in this superstep, by table
  ordered, \* history: the same of each superstep before
  taken    \* history: the messages taken in this superstep

own == <<mutex, pc, call, seen, tables, carried, queue, others, calls, ended, order, ordered, taken>>

-----------------------------------------------------------------------------
(* The wrappers of the functions that add to the delivery table.           *)
bsp_put == {"bsp_put"}
bsp_hpput == {"bsp_hpput"}
bsp_send == {"bsp_send"}
bsp_push_reg == {"bsp_push_reg"}
bsp_pop_reg == {"bsp_pop_reg"}
bsp_set_tagsize == {"bsp_set_tagsize"}
bsp_global_put == {"bsp_global_put"}
bsp_global_hpput == {"bsp_global_hpput"}
Delivering ==
  UNION {bsp_put, bsp_hpput, bsp_send, bsp_push_reg, bsp_pop_reg, bsp_set_tagsize,
         bsp_global_put, bsp_global_hpput}

(* Of those that add to the request table.                                 *)
bsp_get == {"bsp_get"}
bsp_hpget == {"bsp_hpget"}
bsp_global_get == {"bsp_global_get"}
bsp_global_hpget == {"bsp_global_hpget"}
Requesting == UNION {bsp_get, bsp_hpget, bsp_global_get, bsp_global_hpget}

(* Of those that read the queue, and of the two that also take from it.    *)
bsp_qsize == {"bsp_qsize"}
bsp_get_tag == {"bsp_get_tag"}
bsp_move == {"bsp_move"}
bsp_hpmove == {"bsp_hpmove"}
Taking == bsp_move \union bsp_hpmove
Reading == bsp_qsize \union bsp_get_tag

bsp_sync == {"bsp_sync"}
bsp_reset_buffers == {"bsp_reset_buffers"}

(* The two that take no lock.                                              *)
bsp_global_alloc == {"bsp_global_alloc"}
bsp_global_free == {"bsp_global_free"}
Unlocked == bsp_global_alloc \union bsp_global_free

Collective ==
  UNION {bsp_push_reg, bsp_pop_reg, bsp_set_tagsize, bsp_sync, bsp_reset_buffers, Unlocked}

Table == {"delivery_table", "request_table"}
Empty == [k \in Table |-> <<>>]
NoCall == [name |-> "none", nr |-> 0]
TableOf(c) == IF c \in Requesting THEN "request_table" ELSE "delivery_table"

(* bsp_init: BSP_TS_INIT creates the mutex.                                *)
ThreadsInit ==
  /\ Init
  /\ mutex = Nobody
  /\ pc = [t \in Thread |-> "out"]
  /\ call = [t \in Thread |-> NoCall]
  /\ seen = [t \in Thread |-> <<>>]
  /\ tables = Empty
  /\ carried = <<>>
  /\ queue = <<>>
  /\ others = 0
  /\ calls = 0
  /\ ended = FALSE
  /\ order = Empty
  /\ ordered = <<>>
  /\ taken = <<>>

-----------------------------------------------------------------------------
(* What the program must see to.  Only one thread makes the calls that all *)
(* processes make in one order.  While it allocates, frees or discards the *)
(* buffers, which is not in order with other calls, it is alone.  A thread *)
(* that calls bsp_move, which does not ask whether there is a message, has *)
(* asked, and no other takes messages or drops them before it has moved.   *)
Others(t) == Thread \ {t}
AloneIn(c) == c \in Unlocked \union bsp_reset_buffers
Disturbs(c, d) == c \in bsp_move /\ d \in Taking \union bsp_sync
MoveIsSafe(t, c) ==
  /\ c \in bsp_move => queue # <<>>
  /\ \A u \in Others(t) : ~Disturbs(c, call[u].name) /\ ~Disturbs(call[u].name, c)
MayMake(t, c) ==
  /\ ~ended /\ outcome = "running" /\ pc[t] = "out" /\ calls < MaxCalls
  /\ c \in Collective => t = Main
  /\ AloneIn(c) => \A u \in Others(t) : pc[u] = "out"
  /\ pc[Main] = "out" \/ ~AloneIn(call[Main].name)
  /\ MoveIsSafe(t, c)
  /\ c \in bsp_sync => Len(carried) < MaxSyncs
  /\ c \in bsp_reset_buffers => tables = Empty
  /\ c \in bsp_global_alloc => made < MaxAllocs
  /\ c \in bsp_global_free => handle # <<>>

(* What the function of c reads before it writes.                          *)
Read(c) ==
  IF c \in Delivering \union Requesting \union Unlocked THEN tables[TableOf(c)]
  ELSE IF c \in Reading \union Taking THEN queue
  ELSE <<>>

(* A thread makes a call that wants the mutex.                             *)
Make(t, c) ==
  /\ MayMake(t, c) /\ c \notin Unlocked
  /\ calls' = calls + 1
  /\ call' = [call EXCEPT ![t] = [name |-> c, nr |-> calls']]
  /\ pc' = [pc EXCEPT ![t] = "waits"]
  /\ UNCHANGED <<mutex, seen, tables, carried, queue, others, ended, order, ordered, taken, vars>>

(* bsp_thread_lock: pthread_mutex_lock.                                    *)
LockAnyway(t) == mutex' = t             \* mutant: built without BSP_THREADSAFE
bsp_thread_lock(t) == mutex = Nobody /\ mutex' = t

(* bsp_thread_unlock: pthread_mutex_unlock.                                *)
KeepLock(t) == UNCHANGED mutex          \* mutant: the mutex is not given back
bsp_thread_unlock(t) == mutex' = Nobody

(* The thread has the mutex and is in the function of bspx.c.              *)
Enter(t) ==
  /\ pc[t] = "waits"
  /\ bsp_thread_lock(t)
  /\ pc' = [pc EXCEPT ![t] = "in"]
  /\ seen' = [seen EXCEPT ![t] = Read(call[t].name)]
  /\ UNCHANGED <<call, tables, carried, queue, others, calls, ended, order, ordered, taken, vars>>

Returns(t) ==
  /\ pc' = [pc EXCEPT ![t] = "out"]
  /\ call' = [call EXCEPT ![t] = NoCall]
  /\ seen' = [seen EXCEPT ![t] = <<>>]
  /\ UNCHANGED <<others, calls, ended>>

(* The call t is in adds an entry behind what it saw of its table.         *)
AddEntry(t, k) ==
  /\ tables' = [tables EXCEPT ![k] = Append(seen[t], call[t].nr)]
  /\ order' = [order EXCEPT ![k] = Append(@, call[t].nr)]

LeaveDeposit(t) ==
  /\ pc[t] = "in" /\ call[t].name \in Delivering \union Requesting
  /\ AddEntry(t, TableOf(call[t].name))
  /\ Returns(t) /\ bsp_thread_unlock(t)
  /\ UNCHANGED <<carried, queue, ordered, taken, vars>>

LeaveReading(t) ==
  /\ pc[t] = "in" /\ call[t].name \in Reading
  /\ Returns(t) /\ bsp_thread_unlock(t)
  /\ UNCHANGED <<tables, carried, queue, order, ordered, taken, vars>>

(* bsp_hpmove returns -1 when the queue was empty.                         *)
LeaveMove(t) ==
  /\ pc[t] = "in" /\ call[t].name \in Taking
  /\ IF seen[t] = <<>> THEN UNCHANGED <<queue, taken>>
     ELSE queue' = Tail(seen[t]) /\ taken' = Append(taken, Head(seen[t]))
  /\ Returns(t) /\ bsp_thread_unlock(t)
  /\ UNCHANGED <<tables, carried, order, ordered, vars>>

(* bspx_sync returns when the others have come to the same sync; the mutex *)
(* is held all the while.                                                  *)
Arrived(k) == [i \in 1 .. Arriving |-> (k - 1) * Arriving + i]
KeepQueue(k) == queue \o Arrived(k)     \* mutant: the queue is not emptied
NewQueue(k) == Arrived(k)
LeaveSync(t) ==
  /\ pc[t] = "in" /\ call[t].name \in bsp_sync
  /\ others > Len(carried)
  /\ carried' = Append(carried, tables)
  /\ tables' = Empty
  /\ queue' = NewQueue(Len(carried'))
  /\ order' = Empty /\ ordered' = Append(ordered, order)
  /\ taken' = <<>>
  /\ Returns(t) /\ bsp_thread_unlock(t)
  /\ UNCHANGED vars

(* bspx_resetbuffers also drops the messages.                              *)
LeaveReset(t) ==
  /\ pc[t] = "in" /\ call[t].name \in bsp_reset_buffers
  /\ tables' = Empty
  /\ queue' = <<>>
  /\ taken' = taken \o queue
  /\ Returns(t) /\ bsp_thread_unlock(t)
  /\ UNCHANGED <<carried, order, ordered, vars>>

(* bspx_global_alloc and bspx_global_free start at once, and register or   *)
(* deregister the slice in the delivery table.                             *)
EnterUnlocked(t, c) ==
  /\ MayMake(t, c) /\ c \in Unlocked
  /\ calls' = calls + 1
  /\ call' = [call EXCEPT ![t] = [name |-> c, nr |-> calls']]
  /\ pc' = [pc EXCEPT ![t] = "in"]
  /\ seen' = [seen EXCEPT ![t] = Read(c)]
  /\ UNCHANGED <<mutex, tables, carried, queue, others, ended, order, ordered, taken, vars>>

LeaveAlloc(t) ==
  /\ pc[t] = "in" /\ call[t].name \in bsp_global_alloc
  /\ Alloc
  /\ AddEntry(t, "delivery_table") /\ Returns(t)
  /\ UNCHANGED <<mutex, carried, queue, ordered, taken>>

NeverAlloc(t) ==
  /\ pc[t] = "in" /\ call[t].name \in bsp_global_alloc
  /\ AllocBehind
  /\ UNCHANGED own

LeaveFree(t) ==
  /\ pc[t] = "in" /\ call[t].name \in bsp_global_free
  /\ \E a \in DOMAIN handle : Free(a)
  /\ AddEntry(t, "delivery_table") /\ Returns(t)
  /\ UNCHANGED <<mutex, carried, queue, ordered, taken>>

(* bsp_end locks the mutex and destroys it.  By then the other threads     *)
(* must have made their last calls.                                        *)
bsp_end ==
  /\ ~ended /\ outcome = "running" /\ \A t \in Thread : pc[t] = "out"
  /\ bsp_thread_lock(Main)
  /\ ended' = TRUE
  /\ UNCHANGED <<pc, call, seen, tables, carried, queue, others, calls, order, ordered, taken, vars>>

(* The other processes come to their next sync; they cannot come to the    *)
(* one after it before this process has been in the one before.            *)
OthersArrive ==
  /\ others = Len(carried) /\ others < MaxSyncs /\ ~ended
  /\ others' = others + 1
  /\ UNCHANGED <<mutex, pc, call, seen, tables, carried, queue, calls, ended, order, ordered, taken, vars>>

Stopped == (ended \/ outcome # "running") /\ UNCHANGED <<own, vars>>

Leave(t) ==
  \/ LeaveDeposit(t) \/ LeaveReading(t) \/ LeaveMove(t) \/ LeaveSync(t) \/ LeaveReset(t)
  \/ LeaveAlloc(t) \/ NeverAlloc(t) \/ LeaveFree(t)

ThreadsNext ==
  \/ \E t \in Thread, c \in Calls : Make(t, c) \/ EnterUnlocked(t, c)
  \/ \E t \in Thread : Enter(t) \/ Leave(t)
  \/ bsp_end \/ OthersArrive \/ Stopped

(* Threads go on, a free mutex is given to one that waits, and the other   *)
(* processes come to their syncs.  A thread may be passed over as long as  *)
(* others come for the mutex, which in a run is so many times only.        *)
ThreadsSpec ==
  /\ ThreadsInit /\ [][ThreadsNext]_<<own, vars>>
  /\ WF_<<own, vars>>(OthersArrive)
  /\ \A t \in Thread : WF_<<own, vars>>(Enter(t)) /\ WF_<<own, vars>>(Leave(t))

-----------------------------------------------------------------------------
(* Every call that returned is in the tables, or was carried out by the    *)
(* first sync after it, in the order in which the calls returned: what a   *)
(* thread writes behind what it saw never takes the place of another's.    *)
NothingLost == tables = order /\ carried = ordered

(* The messages of a superstep are taken one at a time and in order, each  *)
(* by one thread only.                                                     *)
TakenOnce == taken \o queue = IF carried = <<>> THEN <<>> ELSE Arrived(Len(carried))

(* A call to the library returns, unless a thread allocates one array too  *)
(* many: no thread waits for ever for one that waits for the others.       *)
CallsReturn == \A t \in Thread : pc[t] # "out" ~> (pc[t] = "out" \/ outcome # "running")

=============================================================================
