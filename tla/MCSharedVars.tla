----------------------------- MODULE MCSharedVars -----------------------------
(***************************************************************************)
(* Small instances of SharedOutcome: three slots that are reduced, one of  *)
(* them initialized too, and one that is initialized only.                 *)
(***************************************************************************)
EXTENDS SharedOutcome, TLC

CONSTANTS a, b, i, z

MCSizes == {[processors |-> 4, nprocs |-> 3],      \* a node without contexts
            [processors |-> 3, nprocs |-> 2], [processors |-> 1, nprocs |-> 2],
            [processors |-> 2, nprocs |-> 1]}
MCKind == a :> "join" @@ b :> "array" @@ i :> "join" @@ z :> "last"
MCNameBytes == a :> 1 @@ b :> 8 @@ i :> 15 @@ z :> 3
MCDeclared == <<CONTEXT_SHARED_BOTH(a), CONTEXT_SHARED_REDUCE(b), CONTEXT_SHARED_INIT(i),
                CONTEXT_SHARED_REDUCE(z)>>

(* Computations, and calls of shared variables without a runner. *)
MCScripts ==
  {RunnerRun(m, <<BSP_BEGIN_END>>) : m \in {-1, 0}} \union
  {RunnerRun(1, <<BSP_BEGIN_END, BSP_FOLD(b), BSP_BROADCAST(b, 0), BSP_BEGIN_END>>),
   RunnerRun(0, <<BSP_BEGIN_END, BSP_FOLD_LOCAL(a), BSP_BROADCAST_LOCAL(b), BSP_BEGIN_END, BSP_FOLD(a)>>),
   RunnerRun(-1, <<BSP_BEGIN_END, reduce_shared, BSP_BROADCAST(a, 2), BSP_FOLD(b)>>),
   <<BSP_BEGIN_END, BSP_FOLD_LOCAL(a), bsp_broadcast(a, 1), bsp_fold(a), initialize_shared(2), reduce_shared>>,
   RunnerRun(0, <<bsp_fold(a), bsp_broadcast(i, 0), BSP_BEGIN_END>>)}

=============================================================================
