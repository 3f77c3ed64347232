----------------------------- MODULE WorkerGroup -----------------------------
(***************************************************************************)
(* Worker groups (onAcc/WorkerGroup.hpp, onAcc/internal/interfaceImpl.hpp): *)
(* which worker a hardware thread of a running kernel is, and of how many.  *)
(*                                                                         *)
(* A kernel runs on a grid: [blocks, threads, warp], the number of blocks,  *)
(* the number of threads of a block (vectors) and the warp size.  A thread  *)
(* is a record [block, thread] of its block's and its own index.  A group   *)
(* is a record [origin, unit, linear]: the workers are the units within an  *)
(* instance of the origin, numbered in one dimension if linear.            *)
(***************************************************************************)
EXTENDS IndexSpace

ThreadsInGrid       == [origin |-> "grid",   unit |-> "threads", linear |-> FALSE]
BlocksInGrid        == [origin |-> "grid",   unit |-> "blocks",  linear |-> FALSE]
ThreadsInBlock      == [origin |-> "block",  unit |-> "threads", linear |-> FALSE]
LinearThreadsInWarp == [origin |-> "warp",   unit |-> "threads", linear |-> FALSE]
LinearThreadsInBlock == [origin |-> "block", unit |-> "threads", linear |-> TRUE]
LinearThreadsInGrid == [origin |-> "grid",   unit |-> "threads", linear |-> TRUE]
LinearWarpsInBlock  == [origin |-> "block",  unit |-> "warps",   linear |-> FALSE]
LinearWarpsInGrid   == [origin |-> "grid",   unit |-> "warps",   linear |-> FALSE]
LinearBlocksInGrid  == [origin |-> "grid",   unit |-> "blocks",  linear |-> TRUE]
AllThreads          == [origin |-> "thread", unit |-> "threads", linear |-> FALSE]

\* The warp of a thread within its block and its lane within the warp.
WarpIdx(grid, t) == Linearize(grid.threads, t.thread) \div grid.warp
LaneIdx(grid, t) == Linearize(grid.threads, t.thread) % grid.warp

WarpsInBlock(grid) == (Product(grid.threads) + grid.warp - 1) \div grid.warp

IdxWithin(group, grid, t) ==
    CASE group.origin = "warp"  /\ group.unit = "threads" -> <<LaneIdx(grid, t)>>
      [] group.origin = "block" /\ group.unit = "threads" -> t.thread
      [] group.origin = "block" /\ group.unit = "warps"   -> <<WarpIdx(grid, t)>>
      [] group.origin = "grid"  /\ group.unit = "threads" ->
            Plus(Times(grid.threads, t.block), t.thread)
      [] group.origin = "grid"  /\ group.unit = "warps"   ->
            <<Linearize(grid.blocks, t.block) + WarpIdx(grid, t)>>
      [] group.origin = "grid"  /\ group.unit = "blocks"  -> t.block
      [] group.origin = "thread" /\ group.unit = "threads" -> Fill(t.thread, 0)

ExtentsOf(group, grid) ==
    CASE group.origin = "warp"  /\ group.unit = "threads" -> <<grid.warp>>
      [] group.origin = "block" /\ group.unit = "threads" -> grid.threads
      [] group.origin = "block" /\ group.unit = "warps"   -> <<WarpsInBlock(grid)>>
      [] group.origin = "grid"  /\ group.unit = "threads" -> Times(grid.blocks, grid.threads)
      [] group.origin = "grid"  /\ group.unit = "warps"   ->
            <<Product(grid.blocks) * WarpsInBlock(grid)>>
      [] group.origin = "grid"  /\ group.unit = "blocks"  -> grid.blocks
      [] group.origin = "thread" /\ group.unit = "threads" -> Fill(grid.threads, 1)

\* WorkerGroup::getThreadSpace
ThreadSpaceOf(group, grid, t) ==
    LET idx     == IdxWithin(group, grid, t)
        extents == ExtentsOf(group, grid)
    IN  IF group.linear
        THEN [idx |-> <<Linearize(extents, idx)>>, count |-> <<Product(extents)>>]
        ELSE [idx |-> idx, count |-> extents]
=============================================================================
