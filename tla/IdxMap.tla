------------------------------- MODULE IdxMap -------------------------------
(***************************************************************************)
(* The loop                                                                *)
(*   for(auto i : onAcc::makeIdxMap(acc, group, range, traverse, layout))   *)
(* run by every thread of a kernel, sliced by [selection] or not            *)
(* (onAcc/internal/MakeIter.hpp and the two index containers).  What a      *)
(* thread obtains depends on its own index and the kernel's extents only,   *)
(* so the threads run here one after the other, in the order in which the   *)
(* host executors walk the blocks.                                          *)
(***************************************************************************)
EXTENDS WorkerGroup, Integers, FiniteSets

CONSTANTS Loops, NotStarted
(***************************************************************************)
(* The loops to run.  A loop is a record                                    *)
(*   [grid, group, range, select, traverse, layout]                         *)
(* with the grid of the kernel, the worker group, the index range           *)
(* [begin, end, stride], the selected dimensions, "flat" or "tiled", and    *)
(* "strided" or "contiguous" (layout::Optimized is replaced by one of them  *)
(* before the container is made).  What the library requires of its caller: *)
(*   - the range is not inverted and no stride is zero;                     *)
(*   - a worker group has as many dimensions as the range;                  *)
(*   - no partial warps when the workers are the lanes of a warp.           *)
(***************************************************************************)
Legal(l) ==
    /\ \A d \in DOMAIN l.range.begin : /\ l.range.begin[d] <= l.range.end[d]
                                       /\ l.range.stride[d] > 0
    /\ Len(l.range.begin) = IF l.group.linear THEN 1 ELSE Len(ExtentsOf(l.group, l.grid))
    /\ l.group.origin = "warp" => Product(l.grid.threads) % l.grid.warp = 0

VARIABLES loop,  \* the loop this kernel runs
          turn,  \* the thread that runs now, in linear order
          iter,  \* its iterator, or NotStarted
          seen   \* seen[k]: the indices the k-th thread obtained, in order
vars == <<loop, turn, iter, seen>>

Flat  == INSTANCE FlatIdxContainer
Tiled == INSTANCE TiledIdxContainer

ThreadsOf(l)  == Product(l.grid.blocks) * Product(l.grid.threads)
NumThreads    == ThreadsOf(loop)

\* The k-th thread of the kernel: blocks in linear order, then threads.
Thread(k) ==
    LET n == Product(loop.grid.threads)
    IN  [block  |-> MapToND(loop.grid.blocks, (k - 1) \div n),
         thread |-> MapToND(loop.grid.threads, (k - 1) % n)]

MakeIter(l, t) ==
    LET space == ThreadSpaceOf(l.group, l.grid, t)
    IN  CASE l.traverse = "flat"  /\ l.layout = "strided"    ->
                Flat!Strided(l.range, space, l.select)
          [] l.traverse = "flat"  /\ l.layout = "contiguous" ->
                Flat!Contiguous(l.range, space, l.select)
          [] l.traverse = "tiled" /\ l.layout = "strided"    ->
                Tiled!Strided(l.range, space, l.select)
          [] l.traverse = "tiled" /\ l.layout = "contiguous" ->
                Tiled!Contiguous(l.range, space, l.select)

AtEnd(it)   == IF loop.traverse = "flat" THEN Flat!AtEnd(it)   ELSE Tiled!AtEnd(it)
Deref(it)   == IF loop.traverse = "flat" THEN Flat!Deref(it)   ELSE Tiled!Deref(it)
Advance(it) == IF loop.traverse = "flat" THEN Flat!Advance(it) ELSE Tiled!Advance(it)

Init == /\ loop \in Loops
        /\ turn = 1
        /\ iter = NotStarted
        /\ seen = [k \in 1..NumThreads |-> <<>>]

\* The next thread enters the loop.
Begin == /\ turn <= NumThreads
         /\ iter = NotStarted
         /\ iter' = MakeIter(loop, Thread(turn))
         /\ UNCHANGED <<loop, turn, seen>>

\* iter != end: the loop body gets *iter, then ++iter.
Body == /\ iter # NotStarted
        /\ ~AtEnd(iter)
        /\ seen' = [seen EXCEPT ![turn] = Append(@, Deref(iter))]
        /\ iter' = Advance(iter)
        /\ UNCHANGED <<loop, turn>>

\* iter == end: the thread leaves the loop.
Leave == /\ iter # NotStarted
         /\ AtEnd(iter)
         /\ iter' = NotStarted
         /\ turn' = turn + 1
         /\ UNCHANGED <<loop, seen>>

Next == Begin \/ Body \/ Leave

Spec == Init /\ [][Next]_vars

----------------------------------------------------------------------------
(***************************************************************************)
(* What a reader of the documentation expects, stated without the code's    *)
(* arithmetic.                                                             *)
(***************************************************************************)
\* The instance of the group's origin that a thread belongs to.
OriginOf(t) ==
    CASE loop.group.origin = "grid"   -> <<>>
      [] loop.group.origin = "block"  -> <<t.block>>
      [] loop.group.origin = "warp"   -> <<t.block, WarpIdx(loop.grid, t)>>
      [] loop.group.origin = "thread" -> <<t.block, t.thread>>

\* The worker that a thread is part of.
UnitOf(t) ==
    CASE loop.group.unit = "threads" -> <<t.block, t.thread>>
      [] loop.group.unit = "warps"   -> <<t.block, WarpIdx(loop.grid, t)>>
      [] loop.group.unit = "blocks"  -> <<t.block>>

SameOrigin(k, l) == OriginOf(Thread(k)) = OriginOf(Thread(l))
SameWorker(k, l) == UnitOf(Thread(k)) = UnitOf(Thread(l))

\* The indices that the workers of one origin have to process between them.
Positioned(i, d) == /\ loop.range.begin[d] <= i /\ i < loop.range.end[d]
                    /\ (i - loop.range.begin[d]) % loop.range.stride[d] = 0
Axis(d) == IF d \in Range(loop.select)
           THEN {i \in loop.range.begin[d] .. loop.range.end[d] : Positioned(i, d)}
           ELSE {loop.range.begin[d]}
Dims  == DOMAIN loop.range.begin
Slice == {idx \in [Dims -> UNION {Axis(d) : d \in Dims}] : \A d \in Dims : idx[d] \in Axis(d)}

\* Row-major order over the selected dimensions.
Before(u, v) ==
    \E k \in DOMAIN loop.select :
        /\ u[loop.select[k]] < v[loop.select[k]]
        /\ \A j \in 1 .. k - 1 : u[loop.select[j]] = v[loop.select[j]]

AllDone == turn > NumThreads

----------------------------------------------------------------------------
TypeOK == /\ Legal(loop)
          /\ turn \in 1 .. NumThreads + 1
          /\ AllDone => iter = NotStarted
          /\ \A k \in 1..NumThreads : /\ DOMAIN seen[k] = 1..Len(seen[k])
                                      /\ k > turn => seen[k] = <<>>

\* makeIdxMap "ensures that no out-of-range memory access happens": no thread
\* ever obtains an index outside the range, off its stride, or away from the
\* begin of a dimension that was not selected.
IndicesAreInRange == \A k \in 1..turn : k <= NumThreads => Range(seen[k]) \subseteq Slice

\* No index is given to two workers of one group, nor twice to one worker, and
\* all threads of one worker obtain the same indices.  With IndicesAreInRange
\* this bounds every loop: an iterator that misses its end would break one.
NoIndexTwice ==
    \A k \in 1..NumThreads :
        /\ Cardinality(Range(seen[k])) = Len(seen[k])
        /\ \A l \in k + 1 .. NumThreads :
            SameOrigin(k, l) =>
                IF SameWorker(k, l) THEN l < turn => seen[k] = seen[l]
                                    ELSE Range(seen[k]) \intersect Range(seen[l]) = {}

\* "All elements are processed by the worker group independently of the
\* parallelism": the workers of every group obtain all indices between them.
AllIndicesVisited ==
    AllDone => \A k \in 1..NumThreads :
        Slice = UNION {Range(seen[l]) : l \in {l \in 1..NumThreads : SameOrigin(k, l)}}

\* Every thread walks in row-major order.  layout::Contiguous gives it one
\* consecutive piece, of the whole sequence (flat, pieces of equal size up to
\* one) or of every dimension (tiled).
LayoutIsHonoured ==
    /\ \A k \in 1..NumThreads : \A n \in 1 .. Len(seen[k]) - 1 :
        Before(seen[k][n], seen[k][n + 1])
    /\ loop.layout = "contiguous" /\ loop.traverse = "flat" =>
        /\ \A k \in 1..NumThreads : \A n \in 1 .. Len(seen[k]) - 1 : \A v \in Slice :
            ~(Before(seen[k][n], v) /\ Before(v, seen[k][n + 1]))
        /\ AllDone => \A k, l \in 1..NumThreads :
            SameOrigin(k, l) => Len(seen[k]) <= Len(seen[l]) + 1
    /\ loop.layout = "contiguous" /\ loop.traverse = "tiled" =>
        \A k \in 1..NumThreads : \A m, n \in DOMAIN seen[k] : \A d \in Dims : \A i \in Axis(d) :
            /\ seen[k][m][d] < i /\ i < seen[k][n][d]
            /\ k < turn
            => \E p \in DOMAIN seen[k] : seen[k][p][d] = i

=============================================================================
