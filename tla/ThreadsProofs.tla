---------------------------- MODULE ThreadsProofs ----------------------------
(***************************************************************************)
(* Proofs that handles of global arrays keep their arrays, for a table of  *)
(* any size and any number of allocations; and that this is so, and no     *)
(* call is lost, when a program has any number of threads.                 *)
(***************************************************************************)
EXTENDS Threads, TLAPS

-----------------------------------------------------------------------------
(* Handles. *)

(* Until the table was filled once, everything from last on is free; after *)
(* that, only an entry that was found free is taken.                       *)
HandlesInv ==
  /\ local_slice \in [Handle -> Nat]
  /\ last \in Handle
  /\ overflow \in BOOLEAN
  /\ made \in Nat
  /\ \A a \in DOMAIN handle :
       a \in 1 .. made /\ handle[a] \in Handle /\ local_slice[handle[a]] = a
  /\ ~overflow => \A s \in last .. MaxArrays - 1 : local_slice[s] = NULL

(* The next entry, back at the first one after the last one. *)
LEMMA NextEntry ==
  ASSUME NEW s \in Handle
  PROVE  /\ (s + 1) % MaxArrays \in Handle
         /\ (s + 1) % MaxArrays # 0 => (s + 1) % MaxArrays = s + 1
<1>1. MaxArrays \in Nat \ {0} /\ s \in 0 .. MaxArrays - 1
  BY MaxArraysAssumption DEF Handle
<1>2. CASE s + 1 < MaxArrays
  BY <1>1, <1>2 DEF Handle
<1>3. CASE s + 1 = MaxArrays
  BY <1>1, <1>3 DEF Handle
<1> QED BY <1>1, <1>2, <1>3

LEMMA InitHandles == Init => HandlesInv
<1> SUFFICES ASSUME Init PROVE HandlesInv
  OBVIOUS
<1>1. DOMAIN handle = {}
  BY DEF Init
<1>2. last \in Handle
  BY MaxArraysAssumption DEF Init, Handle
<1>3. local_slice \in [Handle -> Nat] /\ \A s \in last .. MaxArrays - 1 : local_slice[s] = NULL
  BY MaxArraysAssumption DEF Init, Handle, NULL
<1> QED BY <1>1, <1>2, <1>3 DEF HandlesInv, Init

LEMMA AllocateKeepsHandles ==
  ASSUME HandlesInv, NEW s \in Handle, local_slice[s] = NULL, Allocate(s),
         overflow \/ s = last
  PROVE  HandlesInv'
<1>1. /\ made' = made + 1 /\ made' # NULL /\ made' \in Nat
      /\ local_slice' = [local_slice EXCEPT ![s] = made']
      /\ handle' = [a \in DOMAIN handle \union {made'} |-> IF a = made' THEN s ELSE handle[a]]
      /\ last' = (s + 1) % MaxArrays
      /\ overflow' = (overflow \/ last' = 0)
  BY DEF Allocate, HandlesInv, NULL
<1>2. local_slice' \in [Handle -> Nat] /\ last' \in Handle /\ overflow' \in BOOLEAN
  BY <1>1, NextEntry DEF HandlesInv
<1>3. ASSUME NEW a \in DOMAIN handle'
      PROVE  a \in 1 .. made' /\ handle'[a] \in Handle /\ local_slice'[handle'[a]] = a
  <2>1. CASE a = made'
    BY <1>1, <2>1 DEF HandlesInv
  <2>2. CASE a # made'
    <3>1. a \in DOMAIN handle /\ handle'[a] = handle[a] /\ a \in 1 .. made
      BY <1>1, <2>2 DEF HandlesInv
    <3>2. handle[a] # s
      BY <3>1 DEF HandlesInv, NULL
    <3> QED BY <1>1, <3>1, <3>2 DEF HandlesInv
  <2> QED BY <2>1, <2>2
<1>4. ASSUME ~overflow', NEW t \in last' .. MaxArrays - 1 PROVE local_slice'[t] = NULL
  <2>1. ~overflow /\ s = last /\ last' = s + 1
    BY <1>1, <1>4, NextEntry
  <2>2. t \in last .. MaxArrays - 1 /\ t # s
    BY <2>1, MaxArraysAssumption DEF HandlesInv, Handle
  <2>3. local_slice[t] = NULL
    BY <2>1, <2>2 DEF HandlesInv
  <2> QED BY <1>1, <2>2, <2>3, MaxArraysAssumption DEF HandlesInv, Handle
<1> QED BY <1>1, <1>2, <1>3, <1>4 DEF HandlesInv

LEMMA FreeKeepsHandles ==
  ASSUME HandlesInv, NEW a \in DOMAIN handle, Free(a)
  PROVE  HandlesInv'
<1>1. /\ handle[a] \in Handle /\ local_slice[handle[a]] = a
      /\ local_slice' = [local_slice EXCEPT ![handle[a]] = NULL]
      /\ handle' = [b \in DOMAIN handle \ {a} |-> handle[b]]
      /\ UNCHANGED <<last, overflow, made>>
  BY DEF Free, HandlesInv
<1>2. local_slice' \in [Handle -> Nat]
  BY <1>1 DEF HandlesInv, NULL
<1>3. ASSUME NEW b \in DOMAIN handle'
      PROVE  b \in 1 .. made' /\ handle'[b] \in Handle /\ local_slice'[handle'[b]] = b
  BY <1>1, <1>3 DEF HandlesInv
<1>4. ASSUME ~overflow', NEW t \in last' .. MaxArrays - 1 PROVE local_slice'[t] = NULL
  BY <1>1, <1>4, MaxArraysAssumption DEF HandlesInv, Handle
<1> QED BY <1>1, <1>2, <1>3, <1>4 DEF HandlesInv

LEMMA NextHandles == HandlesInv /\ [Next]_vars => HandlesInv'
<1> SUFFICES ASSUME HandlesInv, [Next]_vars PROVE HandlesInv'
  OBVIOUS
<1>1. CASE Alloc
  <2>1. PICK s \in Handle : Takes(s) /\ Allocate(s)
    BY <1>1 DEF Alloc
  <2>2. local_slice[s] = NULL /\ (overflow \/ s = last)
    BY <2>1, MaxArraysAssumption DEF Takes, HandlesInv, Handle
  <2> QED BY <2>1, <2>2, AllocateKeepsHandles
<1>2. CASE AllocBehind
  BY <1>2 DEF AllocBehind, HandlesInv
<1>3. ASSUME NEW a \in DOMAIN handle, Free(a) PROVE HandlesInv'
  BY <1>3, FreeKeepsHandles
<1>4. CASE Over \/ UNCHANGED vars
  BY <1>4 DEF Over, vars, HandlesInv
<1> QED BY <1>1, <1>2, <1>3, <1>4 DEF Next

(* No allocation takes over the entry of an array the program still has.   *)
THEOREM HandlesAlwaysKeepArrays == Spec => []HandlesKeepArrays
<1>1. HandlesInv => HandlesKeepArrays
  BY DEF HandlesInv, HandlesKeepArrays
<1> QED BY <1>1, InitHandles, NextHandles, PTL DEF Spec

-----------------------------------------------------------------------------
(* Threads. *)

(* The invariant.  A thread that is in a function of the library and took  *)
(* the mutex for it has the mutex; one that took none is alone.  So what a *)
(* thread has seen is still what there is when it writes.                  *)
ThreadsTypes ==
  /\ pc \in [Thread -> {"out", "waits", "in"}]
  /\ call \in [Thread -> [name : Calls \union {"none"}, nr : Nat]]
  /\ seen \in [Thread -> Seq(Nat)]
  /\ tables \in [Table -> Seq(Nat)]
  /\ carried \in Seq([Table -> Seq(Nat)])
  /\ queue \in Seq(Nat)
  /\ calls \in Nat

Holder(t) == pc[t] = "in" => mutex = t \/ call[t].name \in Unlocked
Alone(t) ==
  pc[t] # "out" /\ AloneIn(call[t].name) => t = Main /\ \A u \in Others(t) : pc[u] = "out"
Sees(t) == pc[t] = "in" => seen[t] = Read(call[t].name)
ResetsNothing(t) ==
  pc[t] # "out" /\ call[t].name \in bsp_reset_buffers => tables = Empty

ThreadsInv ==
  /\ ThreadsTypes
  /\ \A t \in Thread : Holder(t) /\ Alone(t) /\ Sees(t) /\ ResetsNothing(t)
  /\ NothingLost

(* At most one thread at a time is in the library.                         *)
LEMMA OneInside ==
  ASSUME ThreadsInv, NEW t \in Thread, NEW u \in Thread, t # u, pc[t] = "in"
  PROVE  pc[u] # "in"
<1> SUFFICES ASSUME pc[u] = "in" PROVE FALSE
  OBVIOUS
<1>1. ~AloneIn(call[t].name) /\ ~AloneIn(call[u].name)
  BY DEF ThreadsInv, Alone, Others
<1>2. mutex = t /\ mutex = u
  BY <1>1 DEF ThreadsInv, Holder, AloneIn
<1> QED BY <1>2

(* What a thread leaves behind it, whatever the call was.                  *)
LEMMA AfterReturn ==
  ASSUME ThreadsTypes, NEW t \in Thread, Returns(t)
  PROVE  /\ pc' \in [Thread -> {"out", "waits", "in"}]
         /\ call' \in [Thread -> [name : Calls \union {"none"}, nr : Nat]]
         /\ seen' \in [Thread -> Seq(Nat)]
         /\ calls' \in Nat
         /\ pc'[t] = "out"
         /\ \A u \in Others(t) : pc'[u] = pc[u] /\ call'[u] = call[u] /\ seen'[u] = seen[u]
<1>1. pc' = [pc EXCEPT ![t] = "out"] /\ call' = [call EXCEPT ![t] = NoCall]
  BY DEF Returns
<1>2. seen' = [seen EXCEPT ![t] = <<>>] /\ calls' = calls
  BY DEF Returns
<1>3. NoCall \in [name : Calls \union {"none"}, nr : Nat]
  BY DEF NoCall
<1> QED BY <1>1, <1>2, <1>3 DEF ThreadsTypes, Others

(* A call that returns: the others, none of which was in the library or    *)
(* alone, are where they were.                                             *)
LEMMA ReturnKeeps ==
  ASSUME ThreadsInv, NEW t \in Thread, pc[t] = "in", Returns(t),
         call[t].name \in Unlocked \/ mutex' = Nobody,
         call[t].name \in Unlocked => mutex' = mutex,
         tables' \in [Table -> Seq(Nat)], carried' \in Seq([Table -> Seq(Nat)]),
         queue' \in Seq(Nat),
         NothingLost'
  PROVE  ThreadsInv'
<1>1. ThreadsTypes
  BY DEF ThreadsInv
<1>2. /\ pc' \in [Thread -> {"out", "waits", "in"}]
      /\ call' \in [Thread -> [name : Calls \union {"none"}, nr : Nat]]
      /\ seen' \in [Thread -> Seq(Nat)]
      /\ calls' \in Nat
      /\ pc'[t] = "out"
      /\ \A u \in Others(t) : pc'[u] = pc[u] /\ call'[u] = call[u] /\ seen'[u] = seen[u]
  BY <1>1, AfterReturn
<1>3. ThreadsTypes'
  BY <1>2 DEF ThreadsTypes
<1>4. ASSUME NEW u \in Thread, u # t
      PROVE  pc[u] # "in" /\ (pc[u] # "out" => ~AloneIn(call[u].name))
  <2>1. pc[u] # "in"
    BY <1>4, OneInside
  <2>2. pc[u] # "out" /\ AloneIn(call[u].name) => pc[t] = "out"
    BY <1>4 DEF ThreadsInv, Alone, Others
  <2> QED BY <2>1, <2>2
<1>5. ASSUME NEW u \in Thread
      PROVE  (Holder(u) /\ Alone(u) /\ Sees(u) /\ ResetsNothing(u))'
  <2>1. CASE u = t
    BY <1>2, <2>1 DEF Holder, Alone, Sees, ResetsNothing
  <2>2. CASE u # t
    <3>1. pc'[u] = pc[u] /\ call'[u] = call[u]
      BY <1>2, <2>2 DEF Others
    <3> QED BY <1>4, <2>2, <3>1 DEF Holder, Alone, Sees, ResetsNothing, AloneIn
  <2> QED BY <2>1, <2>2
<1> QED BY <1>3, <1>5 DEF ThreadsInv

(* The actions that return from the library. *)
LEMMA DepositKeeps ==
  ASSUME ThreadsInv, NEW t \in Thread, LeaveDeposit(t) PROVE ThreadsInv'
<1> DEFINE k == TableOf(call[t].name)
<1>1. /\ pc[t] = "in" /\ call[t].name \in Delivering \union Requesting
      /\ AddEntry(t, k) /\ Returns(t) /\ mutex' = Nobody
      /\ UNCHANGED <<carried, queue, ordered>>
  BY DEF LeaveDeposit, bsp_thread_unlock
<1>2. k \in Table /\ seen[t] = tables[k]
  BY <1>1 DEF TableOf, Table, ThreadsInv, Sees, Read
<1>3. tables' = [tables EXCEPT ![k] = Append(tables[k], call[t].nr)]
  BY <1>1, <1>2 DEF AddEntry
<1>4. order' = [order EXCEPT ![k] = Append(order[k], call[t].nr)]
  BY <1>1 DEF AddEntry
<1>5. tables' \in [Table -> Seq(Nat)]
  BY <1>2, <1>3 DEF ThreadsInv, ThreadsTypes
<1>6. NothingLost'
  BY <1>1, <1>3, <1>4 DEF ThreadsInv, NothingLost
<1>7. carried' \in Seq([Table -> Seq(Nat)]) /\ queue' \in Seq(Nat)
  BY <1>1 DEF ThreadsInv, ThreadsTypes
<1>8. call[t].name \notin Unlocked
  BY <1>1 DEF Unlocked, bsp_global_alloc, bsp_global_free, Delivering, Requesting,
     bsp_put, bsp_hpput, bsp_send, bsp_push_reg, bsp_pop_reg, bsp_set_tagsize,
     bsp_global_put, bsp_global_hpput, bsp_get, bsp_hpget, bsp_global_get, bsp_global_hpget
<1> QED BY <1>1, <1>5, <1>6, <1>7, <1>8, ReturnKeeps

LEMMA ReadingKeeps ==
  ASSUME ThreadsInv, NEW t \in Thread, LeaveReading(t) PROVE ThreadsInv'
<1>1. /\ pc[t] = "in" /\ call[t].name \in Reading /\ Returns(t) /\ mutex' = Nobody
      /\ UNCHANGED <<tables, carried, queue, order, ordered>>
  BY DEF LeaveReading, bsp_thread_unlock
<1>2. /\ tables' \in [Table -> Seq(Nat)] /\ carried' \in Seq([Table -> Seq(Nat)])
      /\ queue' \in Seq(Nat) /\ NothingLost'
  BY <1>1 DEF ThreadsInv, ThreadsTypes, NothingLost
<1>3. call[t].name \notin Unlocked
  BY <1>1 DEF Unlocked, bsp_global_alloc, bsp_global_free, Reading, bsp_qsize, bsp_get_tag
<1> QED BY <1>1, <1>2, <1>3, ReturnKeeps

LEMMA MoveKeeps ==
  ASSUME ThreadsInv, NEW t \in Thread, LeaveMove(t) PROVE ThreadsInv'
<1>1. /\ pc[t] = "in" /\ call[t].name \in Taking /\ Returns(t) /\ mutex' = Nobody
      /\ UNCHANGED <<tables, carried, order, ordered>>
      /\ queue' = queue \/ (seen[t] # <<>> /\ queue' = Tail(seen[t]))
  BY DEF LeaveMove, bsp_thread_unlock
<1>2. seen[t] \in Seq(Nat) /\ queue \in Seq(Nat)
  BY DEF ThreadsInv, ThreadsTypes
<1>3. queue' \in Seq(Nat)
  <2>1. CASE queue' = queue
    BY <1>2, <2>1
  <2>2. CASE seen[t] # <<>> /\ queue' = Tail(seen[t])
    BY <1>2, <2>2
  <2> QED BY <1>1, <2>1, <2>2
<1>4. tables' \in [Table -> Seq(Nat)] /\ carried' \in Seq([Table -> Seq(Nat)]) /\ NothingLost'
  BY <1>1 DEF ThreadsInv, ThreadsTypes, NothingLost
<1>5. call[t].name \notin Unlocked
  BY <1>1 DEF Unlocked, bsp_global_alloc, bsp_global_free, Taking, bsp_move, bsp_hpmove
<1> QED BY <1>1, <1>3, <1>4, <1>5, ReturnKeeps

LEMMA EmptyTables == Empty \in [Table -> Seq(Nat)]
BY DEF Empty, Table

LEMMA SyncKeeps ==
  ASSUME ThreadsInv, NEW t \in Thread, LeaveSync(t) PROVE ThreadsInv'
<1>1. /\ pc[t] = "in" /\ call[t].name \in bsp_sync /\ Returns(t) /\ mutex' = Nobody
      /\ carried' = Append(carried, tables) /\ tables' = Empty
      /\ order' = Empty /\ ordered' = Append(ordered, order)
      /\ queue' = Arrived(Len(carried'))
  BY DEF LeaveSync, bsp_thread_unlock, NewQueue
<1>2. carried \in Seq([Table -> Seq(Nat)]) /\ tables \in [Table -> Seq(Nat)]
  BY DEF ThreadsInv, ThreadsTypes
<1>3. carried' \in Seq([Table -> Seq(Nat)]) /\ Len(carried') \in Nat \ {0}
  BY <1>1, <1>2
<1>4. queue' \in Seq(Nat)
  <2> DEFINE n == Len(carried')
  <2>1. n \in Nat \ {0} /\ Arriving \in Nat
    BY <1>3, ThreadsAssumption
  <2>2. (n - 1) * Arriving \in Nat
    <3>1. n - 1 \in Nat
      BY <2>1
    <3> HIDE DEF n
    <3> QED BY <3>1, <2>1
  <2>3. \A i \in 1 .. Arriving : (n - 1) * Arriving + i \in Nat
    BY <2>1, <2>2
  <2> QED BY <1>1, <2>1, <2>3 DEF Arrived
<1>5. NothingLost'
  BY <1>1 DEF ThreadsInv, NothingLost
<1>6. call[t].name \notin Unlocked
  BY <1>1 DEF Unlocked, bsp_global_alloc, bsp_global_free, bsp_sync
<1> QED BY <1>1, <1>3, <1>4, <1>5, <1>6, EmptyTables, ReturnKeeps

LEMMA ResetKeeps ==
  ASSUME ThreadsInv, NEW t \in Thread, LeaveReset(t) PROVE ThreadsInv'
<1>1. /\ pc[t] = "in" /\ call[t].name \in bsp_reset_buffers /\ Returns(t) /\ mutex' = Nobody
      /\ tables' = Empty /\ queue' = <<>> /\ UNCHANGED <<carried, order, ordered>>
  BY DEF LeaveReset, bsp_thread_unlock
<1>2. tables = Empty
  BY <1>1 DEF ThreadsInv, ResetsNothing
<1>3. /\ tables' \in [Table -> Seq(Nat)] /\ carried' \in Seq([Table -> Seq(Nat)])
      /\ queue' \in Seq(Nat) /\ NothingLost'
  BY <1>1, <1>2, EmptyTables DEF ThreadsInv, ThreadsTypes, NothingLost
<1>4. call[t].name \notin Unlocked
  BY <1>1 DEF Unlocked, bsp_global_alloc, bsp_global_free, bsp_reset_buffers
<1> QED BY <1>1, <1>3, <1>4, ReturnKeeps

LEMMA UnlockedKeeps ==
  ASSUME ThreadsInv, NEW t \in Thread, LeaveAlloc(t) \/ LeaveFree(t) PROVE ThreadsInv'
<1> DEFINE k == "delivery_table"
<1>1. /\ pc[t] = "in" /\ call[t].name \in Unlocked
      /\ AddEntry(t, k) /\ Returns(t)
      /\ UNCHANGED <<mutex, carried, queue, ordered>>
  BY DEF LeaveAlloc, LeaveFree, Unlocked
<1>2. call[t].name \notin Requesting
  BY <1>1 DEF Unlocked, bsp_global_alloc, bsp_global_free, Requesting,
     bsp_get, bsp_hpget, bsp_global_get, bsp_global_hpget
<1>3. k \in Table /\ seen[t] = tables[k]
  BY <1>1, <1>2 DEF TableOf, Table, ThreadsInv, Sees, Read
<1>4. tables' = [tables EXCEPT ![k] = Append(tables[k], call[t].nr)]
  BY <1>1, <1>3 DEF AddEntry
<1>5. order' = [order EXCEPT ![k] = Append(order[k], call[t].nr)]
  BY <1>1 DEF AddEntry
<1>6. tables' \in [Table -> Seq(Nat)]
  BY <1>3, <1>4 DEF ThreadsInv, ThreadsTypes
<1>7. NothingLost'
  BY <1>1, <1>4, <1>5 DEF ThreadsInv, NothingLost
<1>8. carried' \in Seq([Table -> Seq(Nat)]) /\ queue' \in Seq(Nat)
  BY <1>1 DEF ThreadsInv, ThreadsTypes
<1> QED BY <1>1, <1>6, <1>7, <1>8, ReturnKeeps

(* A thread makes a call that wants the mutex. *)
LEMMA MakeKeeps ==
  ASSUME ThreadsInv, NEW t \in Thread, NEW c \in Calls, Make(t, c) PROVE ThreadsInv'
<1>1. /\ MayMake(t, c) /\ c \notin Unlocked /\ pc[t] = "out" /\ calls \in Nat /\ calls' = calls + 1
      /\ call' = [call EXCEPT ![t] = [name |-> c, nr |-> calls']]
      /\ pc' = [pc EXCEPT ![t] = "waits"]
      /\ UNCHANGED <<mutex, seen, tables, carried, queue, order, ordered>>
  BY DEF Make, MayMake, ThreadsInv, ThreadsTypes
<1>2. ThreadsTypes' /\ NothingLost'
  BY <1>1 DEF ThreadsInv, ThreadsTypes, NothingLost
<1>3. /\ pc'[t] = "waits" /\ call'[t].name = c
      /\ \A u \in Others(t) : pc'[u] = pc[u] /\ call'[u] = call[u]
  BY <1>1 DEF ThreadsInv, ThreadsTypes, Others
<1>4. /\ AloneIn(c) => t = Main /\ \A u \in Others(t) : pc[u] = "out"
      /\ c \in bsp_reset_buffers => tables = Empty
      /\ pc[Main] = "out" \/ ~AloneIn(call[Main].name)
  BY <1>1 DEF MayMake, AloneIn, Collective, Unlocked
<1>5. ASSUME NEW u \in Thread
      PROVE  (Holder(u) /\ Alone(u) /\ Sees(u) /\ ResetsNothing(u))'
  <2>1. CASE u = t
    BY <1>1, <1>3, <1>4, <2>1 DEF Holder, Alone, Sees, ResetsNothing, Others
  <2>2. CASE u # t
    <3>1. pc'[u] = pc[u] /\ call'[u] = call[u]
      BY <1>3, <2>2 DEF Others
    <3>2. pc[u] # "out" => ~AloneIn(call[u].name)
      BY <1>4, <2>2 DEF ThreadsInv, Alone
    <3> QED BY <1>1, <2>2, <3>1, <3>2 DEF ThreadsInv, Holder, Alone, Sees, ResetsNothing, AloneIn, Read
  <2> QED BY <2>1, <2>2
<1> QED BY <1>2, <1>5 DEF ThreadsInv

(* The thread gets the mutex: nobody else had it. *)
LEMMA EnterKeeps ==
  ASSUME ThreadsInv, NEW t \in Thread, Enter(t) PROVE ThreadsInv'
<1>1. /\ pc[t] = "waits" /\ mutex = Nobody /\ mutex' = t
      /\ pc' = [pc EXCEPT ![t] = "in"]
      /\ seen' = [seen EXCEPT ![t] = Read(call[t].name)]
      /\ UNCHANGED <<call, tables, carried, queue, calls, order, ordered>>
  BY DEF Enter, bsp_thread_lock
<1>2. Read(call[t].name) \in Seq(Nat)
  <2>1. TableOf(call[t].name) \in Table
    BY DEF TableOf, Table
  <2> QED BY <2>1 DEF Read, ThreadsInv, ThreadsTypes
<1>3. ThreadsTypes' /\ NothingLost'
  BY <1>1, <1>2 DEF ThreadsInv, ThreadsTypes, NothingLost
<1>4. ASSUME NEW u \in Thread
      PROVE  (Holder(u) /\ Alone(u) /\ Sees(u) /\ ResetsNothing(u))'
  <2>1. CASE u = t
    BY <1>1, <2>1 DEF ThreadsInv, ThreadsTypes, Holder, Alone, Sees, ResetsNothing, Others, Read
  <2>2. CASE u # t
    <3>1. pc'[u] = pc[u] /\ seen'[u] = seen[u]
      BY <1>1, <2>2 DEF ThreadsInv, ThreadsTypes
    <3>2. Holder(u) /\ Alone(u) /\ Sees(u) /\ ResetsNothing(u)
      BY DEF ThreadsInv
    <3>3. pc[u] = "in" => call[u].name \in Unlocked
      BY <1>1, <3>2, ThreadsAssumption DEF Holder
    <3>4. pc[u] # "in"
      BY <1>1, <2>2, <3>2, <3>3 DEF Alone, AloneIn, Others
    <3>5. Alone(u)'
      BY <1>1, <2>2, <3>1, <3>2 DEF Alone, AloneIn, Others, ThreadsInv, ThreadsTypes
    <3> QED BY <1>1, <3>1, <3>2, <3>4, <3>5 DEF Holder, Sees, ResetsNothing
  <2> QED BY <2>1, <2>2
<1> QED BY <1>3, <1>4 DEF ThreadsInv

LEMMA EnterUnlockedKeeps ==
  ASSUME ThreadsInv, NEW t \in Thread, NEW c \in Calls, EnterUnlocked(t, c) PROVE ThreadsInv'
<1>1. /\ MayMake(t, c) /\ c \in Unlocked /\ pc[t] = "out" /\ calls' = calls + 1
      /\ call' = [call EXCEPT ![t] = [name |-> c, nr |-> calls']]
      /\ pc' = [pc EXCEPT ![t] = "in"]
      /\ seen' = [seen EXCEPT ![t] = Read(c)]
      /\ UNCHANGED <<mutex, tables, carried, queue, order, ordered>>
  BY DEF EnterUnlocked, MayMake
<1>2. Read(c) \in Seq(Nat)
  <2>1. TableOf(c) \in Table
    BY DEF TableOf, Table
  <2> QED BY <2>1 DEF Read, ThreadsInv, ThreadsTypes
<1>3. ThreadsTypes' /\ NothingLost'
  BY <1>1, <1>2 DEF ThreadsInv, ThreadsTypes, NothingLost
<1>4. t = Main /\ \A u \in Others(t) : pc[u] = "out"
  BY <1>1 DEF MayMake, AloneIn, Collective
<1>5. c \notin bsp_reset_buffers
  BY <1>1 DEF Unlocked, bsp_global_alloc, bsp_global_free, bsp_reset_buffers
<1>6. ASSUME NEW u \in Thread
      PROVE  (Holder(u) /\ Alone(u) /\ Sees(u) /\ ResetsNothing(u))'
  <2>1. pc'[t] = "in" /\ call'[t].name = c /\ seen'[t] = Read(c)
    BY <1>1 DEF ThreadsInv, ThreadsTypes
  <2>2. \A v \in Others(t) : pc'[v] = "out"
    BY <1>1, <1>4 DEF ThreadsInv, ThreadsTypes, Others
  <2>3. CASE u = t
    BY <1>1, <1>4, <1>5, <2>1, <2>2, <2>3 DEF Holder, Alone, Sees, ResetsNothing, Read
  <2>4. CASE u # t
    BY <2>2, <2>4 DEF Holder, Alone, Sees, ResetsNothing, Others
  <2> QED BY <2>3, <2>4
<1> QED BY <1>3, <1>6 DEF ThreadsInv

(* The steps that touch nothing the invariant is about. *)
LEMMA RestKeeps ==
  ASSUME ThreadsInv, UNCHANGED <<pc, call, seen, tables, carried, queue, calls, order, ordered>>,
         mutex' = mutex \/ (\A t \in Thread : pc[t] = "out")
  PROVE  ThreadsInv'
BY DEF ThreadsInv, ThreadsTypes, Holder, Alone, Sees, ResetsNothing, NothingLost, Read, Others

LEMMA ThreadsStep == ThreadsInv /\ [ThreadsNext]_<<own, vars>> => ThreadsInv'
<1> SUFFICES ASSUME ThreadsInv, [ThreadsNext]_<<own, vars>> PROVE ThreadsInv'
  OBVIOUS
<1>1. ASSUME NEW t \in Thread, NEW c \in Calls, Make(t, c) \/ EnterUnlocked(t, c)
      PROVE  ThreadsInv'
  BY <1>1, MakeKeeps, EnterUnlockedKeeps
<1>2. ASSUME NEW t \in Thread, Enter(t) PROVE ThreadsInv'
  BY <1>2, EnterKeeps
<1>3. ASSUME NEW t \in Thread, Leave(t) PROVE ThreadsInv'
  <2>1. ASSUME NeverAlloc(t) PROVE ThreadsInv'
    BY <2>1, RestKeeps DEF NeverAlloc, own
  <2> QED BY <1>3, <2>1, DepositKeeps, ReadingKeeps, MoveKeeps, SyncKeeps, ResetKeeps,
             UnlockedKeeps DEF Leave
<1>4. ASSUME bsp_end PROVE ThreadsInv'
  BY <1>4, RestKeeps DEF bsp_end
<1>5. ASSUME OthersArrive PROVE ThreadsInv'
  BY <1>5, RestKeeps DEF OthersArrive
<1>6. ASSUME Stopped \/ UNCHANGED <<own, vars>> PROVE ThreadsInv'
  BY <1>6, RestKeeps DEF Stopped, own
<1> QED BY <1>1, <1>2, <1>3, <1>4, <1>5, <1>6 DEF ThreadsNext

LEMMA ThreadsStart == ThreadsInit => ThreadsInv
<1> SUFFICES ASSUME ThreadsInit PROVE ThreadsInv
  OBVIOUS
<1>1. ThreadsTypes
  BY EmptyTables DEF ThreadsInit, ThreadsTypes, NoCall
<1> QED BY <1>1 DEF ThreadsInit, ThreadsInv, Holder, Alone, Sees, ResetsNothing, NothingLost

(* No deposit of any thread is lost, whatever the number of threads and of *)
(* calls: the mutex covers the whole of every function that takes it.      *)
THEOREM NothingIsLost == ThreadsSpec => []NothingLost
<1>1. ThreadsInv => NothingLost
  BY DEF ThreadsInv
<1> QED BY <1>1, ThreadsStart, ThreadsStep, PTL DEF ThreadsSpec

(* What the threads do to the table of handles is what GlobalHandles says, *)
(* and so handles keep their arrays in a program with threads.             *)
THEOREM ThreadsUseHandles == ThreadsSpec => Spec
<1>1. ThreadsInit => Init
  BY DEF ThreadsInit
<1>2. [ThreadsNext]_<<own, vars>> => [Next]_vars
  <2> SUFFICES ASSUME ThreadsNext PROVE Next \/ UNCHANGED vars
    BY DEF vars
  <2>1. ASSUME NEW t \in Thread, NEW c \in Calls, Make(t, c) \/ EnterUnlocked(t, c)
        PROVE  UNCHANGED vars
    BY <2>1 DEF Make, EnterUnlocked
  <2>2. ASSUME NEW t \in Thread, Enter(t) PROVE UNCHANGED vars
    BY <2>2 DEF Enter
  <2>3. ASSUME NEW t \in Thread, Leave(t) PROVE Next \/ UNCHANGED vars
    BY <2>3 DEF Leave, LeaveDeposit, LeaveReading, LeaveMove, LeaveSync, LeaveReset,
                LeaveAlloc, NeverAlloc, LeaveFree, Next
  <2>4. ASSUME bsp_end \/ OthersArrive \/ Stopped PROVE UNCHANGED vars
    BY <2>4 DEF bsp_end, OthersArrive, Stopped
  <2> QED BY <2>1, <2>2, <2>3, <2>4 DEF ThreadsNext
<1> QED BY <1>1, <1>2, PTL DEF ThreadsSpec, Spec

THEOREM ThreadsKeepHandles == ThreadsSpec => []HandlesKeepArrays
BY ThreadsUseHandles, HandlesAlwaysKeepArrays, PTL

(* What is taken from the front of the queue stays in one sequence with    *)
(* what is left.                                                           *)
LEMMA TakeFront ==
  ASSUME NEW s \in Seq(Nat), NEW q \in Seq(Nat), q # <<>>
  PROVE  /\ Append(s, Head(q)) \o Tail(q) = s \o q
         /\ Append(s, Head(q)) \in Seq(Nat)
<1>1. Head(q) \in Nat /\ Tail(q) \in Seq(Nat) /\ q = <<Head(q)>> \o Tail(q)
  OBVIOUS
<1>2. Append(s, Head(q)) = s \o <<Head(q)>>
  BY <1>1
<1>3. (s \o <<Head(q)>>) \o Tail(q) = s \o (<<Head(q)>> \o Tail(q))
  BY <1>1
<1> QED BY <1>1, <1>2, <1>3, SMTT(30)

LEMMA ArrivedNumbers == \A k \in Nat : k > 0 => Arrived(k) \in Seq(Nat)
BY ThreadsAssumption DEF Arrived

(* A call that takes messages reads the queue.                             *)
LEMMA ReadsQueue == \A c \in Taking : Read(c) = queue
<1> SUFFICES ASSUME NEW c \in Taking PROVE Read(c) = queue
  OBVIOUS
<1>1. c \notin Delivering \union Requesting \union Unlocked
  BY DEF Taking, bsp_move, bsp_hpmove, Delivering, Requesting, Unlocked,
     bsp_put, bsp_hpput, bsp_send, bsp_push_reg, bsp_pop_reg, bsp_set_tagsize,
     bsp_global_put, bsp_global_hpput, bsp_get, bsp_hpget, bsp_global_get, bsp_global_hpget,
     bsp_global_alloc, bsp_global_free
<1> QED BY <1>1 DEF Read

(* What the messages add to the invariant.                                 *)
TakenInv == ThreadsInv /\ taken \in Seq(Nat) /\ TakenOnce

LEMMA TakenStep == TakenInv /\ [ThreadsNext]_<<own, vars>> => TakenInv'
<1> SUFFICES ASSUME TakenInv, [ThreadsNext]_<<own, vars>> PROVE TakenInv'
  OBVIOUS
<1>1. ThreadsInv'
  BY ThreadsStep DEF TakenInv
<1> DEFINE Rest == taken' \in Seq(Nat) /\ TakenOnce'
<1>2. ASSUME UNCHANGED <<carried, queue, taken>> PROVE Rest
  BY <1>2 DEF TakenInv, TakenOnce
<1>3. ASSUME NEW t \in Thread, LeaveMove(t) PROVE Rest
  <2>1. seen[t] = queue /\ queue \in Seq(Nat) /\ taken \in Seq(Nat) /\ UNCHANGED carried
    <3>1. pc[t] = "in" /\ call[t].name \in Taking /\ UNCHANGED carried
      BY <1>3 DEF LeaveMove
    <3>2. seen[t] = Read(call[t].name)
      BY <3>1 DEF TakenInv, ThreadsInv, Sees
    <3> QED BY <3>1, <3>2, ReadsQueue DEF TakenInv, ThreadsInv, ThreadsTypes
  <2>2. CASE queue = <<>>
    BY <1>2, <1>3, <2>1, <2>2 DEF LeaveMove
  <2>3. CASE queue # <<>>
    <3>1. queue' = Tail(queue) /\ taken' = Append(taken, Head(queue))
      BY <1>3, <2>1, <2>3 DEF LeaveMove
    <3>2. taken' \o queue' = taken \o queue /\ taken' \in Seq(Nat)
      BY <2>1, <2>3, <3>1, TakeFront
    <3> QED BY <2>1, <3>2 DEF TakenInv, TakenOnce
  <2> QED BY <2>2, <2>3
<1>4. ASSUME NEW t \in Thread, LeaveSync(t) PROVE Rest
  <2>1. taken' = <<>> /\ queue' = Arrived(Len(carried')) /\ carried' = Append(carried, tables)
    BY <1>4 DEF LeaveSync, NewQueue
  <2>2. carried \in Seq([Table -> Seq(Nat)]) /\ tables \in [Table -> Seq(Nat)]
    BY DEF TakenInv, ThreadsInv, ThreadsTypes
  <2>3. carried' # <<>> /\ Len(carried') \in Nat /\ Len(carried') > 0
    BY <2>1, <2>2
  <2>4. Arrived(Len(carried')) \in Seq(Nat)
    BY <2>3, ArrivedNumbers
  <2> QED BY <2>1, <2>3, <2>4 DEF TakenOnce
<1>5. ASSUME NEW t \in Thread, LeaveReset(t) PROVE Rest
  <2>1. taken' = taken \o queue /\ queue' = <<>> /\ carried' = carried
    BY <1>5 DEF LeaveReset
  <2>2. taken \in Seq(Nat) /\ queue \in Seq(Nat)
    BY DEF TakenInv, ThreadsInv, ThreadsTypes
  <2>3. taken' \in Seq(Nat) /\ taken' \o queue' = taken \o queue
    BY <2>1, <2>2
  <2> QED BY <2>1, <2>3 DEF TakenInv, TakenOnce
<1>6. ASSUME NEW t \in Thread, Leave(t) PROVE Rest
  BY <1>2, <1>3, <1>4, <1>5, <1>6
     DEF Leave, LeaveDeposit, LeaveReading, LeaveAlloc, NeverAlloc, LeaveFree, own
<1>7. CASE \E t \in Thread, c \in Calls : Make(t, c) \/ EnterUnlocked(t, c)
  BY <1>2, <1>7, <1>1 DEF Make, EnterUnlocked, TakenInv
<1>8. CASE \E t \in Thread : Enter(t)
  BY <1>2, <1>8, <1>1 DEF Enter, TakenInv
<1>9. CASE bsp_end \/ OthersArrive \/ Stopped \/ UNCHANGED <<own, vars>>
  BY <1>2, <1>9, <1>1 DEF bsp_end, OthersArrive, Stopped, own, TakenInv
<1> QED BY <1>1, <1>6, <1>7, <1>8, <1>9 DEF ThreadsNext, TakenInv

(* With any number of threads and of messages, the messages of a superstep *)
(* are taken in order and each by one thread: the head that a thread has   *)
(* read is still the head when it moves it on.                             *)
THEOREM MessagesTakenOnce == ThreadsSpec => []TakenOnce
<1>1. ThreadsInit => TakenInv
  BY ThreadsStart DEF ThreadsInit, TakenInv, TakenOnce
<1>2. TakenInv => TakenOnce
  BY DEF TakenInv
<1> QED BY <1>1, <1>2, TakenStep, PTL DEF ThreadsSpec

=============================================================================
