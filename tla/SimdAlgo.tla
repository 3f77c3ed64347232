------------------------------ MODULE SimdAlgo ------------------------------
(***************************************************************************)
(* onAcc::SimdAlgo (onAcc/SimdAlgo.hpp): concurrent() and transformReduce() *)
(* run by every thread of a kernel, and the host algorithms made of them    *)
(* (onHost/algo/internal: concurrent, transform, iota, transformReduce).    *)
(* A thread walks the data in packs of simdWidth elements along the fastest *)
(* dimension, several packs per call of the functor, and takes what is left *)
(* of every row element by element.                                        *)
(*                                                                         *)
(* What a thread obtains depends on its own index only, so the threads run  *)
(* one after the other; a step is one call of the functor.  The element at  *)
(* row-major position p is 2^p, so that a sum tells what is in it.          *)
(***************************************************************************)
EXTENDS WorkerGroup, Integers, FiniteSets

CONSTANTS Jobs, Nothing
(***************************************************************************)
(* A job is a record                                                        *)
(*   algo      "concurrent" (the functor adds one to each element), "iota"  *)
(*             (writes positions) or "reduce"                               *)
(*   grid, group, extents, traverse, layout   as in IdxMap                  *)
(*   bytes     size of an element                                           *)
(*   archWidth, cacheline, budget             the SIMD width of the device, *)
(*             its cache line and T_maxConcurrencyInByte                    *)
(* The workers of the group are the threads of the grid.                    *)
(***************************************************************************)
Legal(j) == /\ j.group \in {ThreadsInGrid, LinearThreadsInGrid}
            /\ Len(j.extents) = IF j.group.linear THEN 1 ELSE Len(j.grid.blocks)
            /\ {j.bytes, j.archWidth, j.cacheline} \subseteq Nat \ {0}

VARIABLES job,
          turn,   \* the thread that runs now
          row,    \* iterator of the loop over rows, where there is one
          iter,   \* iterator of the innermost loop
          stage,  \* "start", "rows", "packs" or "rest"
          lanes,  \* simdizedReducedValue of the running thread
          data,   \* data[p]: the element at position p, as written
          result, \* result[k]: what transformReduce returned to thread k
          call    \* the packs of the last call, and whether each was below end()
vars == <<job, turn, row, iter, stage, lanes, data, result, call>>

Flat  == INSTANCE FlatIdxContainer
Tiled == INSTANCE TiledIdxContainer

----------------------------------------------------------------------------
AtLeastOne(x) == IF x = 0 THEN 1 ELSE x
BitFloor(x)   == CHOOSE p \in {2^k : k \in 0..6} : p <= x /\ x < 2 * p
MinOf(a, b)   == IF a < b THEN a ELSE b

\* calcSimdPackConfig: lanes of a pack, and packs per call.
SimdPackConfig(j) ==
    LET width     == BitFloor(AtLeastOne(MinOf(j.archWidth, j.budget \div j.bytes)))
        inBudget  == AtLeastOne(j.budget \div (width * j.bytes))
        inLine    == AtLeastOne(j.cacheline \div (width * j.bytes))
    IN  [width |-> width,
         packs |-> IF inBudget >= inLine THEN (inBudget \div inLine) * inLine ELSE inBudget]

Width == SimdPackConfig(job).width
Packs == SimdPackConfig(job).packs
Rank  == Len(job.extents)

NumThreads == Product(job.grid.blocks) * Product(job.grid.threads)
Thread(k) ==
    LET n == Product(job.grid.threads)
    IN  [block  |-> MapToND(job.grid.blocks, (k - 1) \div n),
         thread |-> MapToND(job.grid.threads, (k - 1) % n)]
Space == ThreadSpaceOf(job.group, job.grid, Thread(turn))

WithFast(v, x) == [v EXCEPT ![Rank] = x]

\* Elements of a row that are taken in packs: as many calls for every worker.
RemainderBegin ==
    LET perCall == Width * Packs
        workers == Space.count[Rank]
    IN  ((job.extents[Rank] \div perCall) \div workers) * perCall * workers

\* makeIdxMap
Loop(begin, end, stride, space, sel) ==
    LET range == [begin |-> begin, end |-> end, stride |-> stride]
    IN  CASE job.traverse = "flat"  /\ job.layout = "strided"    -> Flat!Strided(range, space, sel)
          [] job.traverse = "flat"  /\ job.layout = "contiguous" -> Flat!Contiguous(range, space, sel)
          [] job.traverse = "tiled" /\ job.layout = "strided"    -> Tiled!Strided(range, space, sel)
          [] job.traverse = "tiled" /\ job.layout = "contiguous" -> Tiled!Contiguous(range, space, sel)

AtEnd(it)   == IF job.traverse = "flat" THEN Flat!AtEnd(it)   ELSE Tiled!AtEnd(it)
Deref(it)   == IF job.traverse = "flat" THEN Flat!Deref(it)   ELSE Tiled!Deref(it)
Advance(it) == IF job.traverse = "flat" THEN Flat!Advance(it) ELSE Tiled!Advance(it)

AllDims    == [d \in 1..Rank |-> d]
Origin     == Fill(job.extents, 0)
PackDomain == WithFast(job.extents, RemainderBegin)
PackStride == WithFast(Fill(job.extents, 1), Width)

\* The groups of the split loop: workers of the rows, workers within a row.
RowWorkers    == [idx |-> WithFast(Space.idx, 0), count |-> WithFast(Space.count, 1)]
InRowWorkers  == [idx   |-> WithFast(Fill(job.extents, 0), Space.idx[Rank]),
                  count |-> WithFast(Fill(job.extents, 1), Space.count[Rank])]

RowLoop       == Loop(Origin, WithFast(PackDomain, 1), Fill(Origin, 1), RowWorkers, AllDims)
InRowLoop(at) == Loop(at, PackDomain, PackStride, InRowWorkers, <<Rank>>)
PackLoop      == Loop(Origin, PackDomain, PackStride, Space, AllDims)
RestLoop      == Loop(WithFast(Origin, RemainderBegin), job.extents, Fill(Origin, 1), Space, AllDims)

\* A flattened loop of several dimensions cannot be advanced blindly.
ByRows == Rank > 1 /\ job.traverse = "flat"

----------------------------------------------------------------------------
Position(idx) == Linearize(job.extents, idx)
Lane(idx, l)  == WithFast(idx, idx[Rank] + l)

\* makeAdvanceIterators: *iter++ n times, end() not looked at.
Skip(it, n) == LET skipped[k \in 0 .. n] == IF k = 0 THEN it ELSE Advance(skipped[k - 1]) IN skipped[n]
Take(it, n) == [k \in 1 .. n |-> LET i == Skip(it, k - 1) IN [idx |-> Deref(i), inside |-> ~AtEnd(i)]]

\* The functor on packs of the given width: all lanes of all packs.
Touched(packs, width) ==
    {<<k, l>> : k \in DOMAIN packs, l \in 0 .. width - 1}

\* SimdIotaKernel: the position of the pack's first element plus the lane.
IotaValue(idx, l) == Position(idx) + l

Written(packs, width) ==
    [p \in DOMAIN data |->
        LET hits == {h \in Touched(packs, width) : Position(Lane(packs[h[1]].idx, h[2])) = p}
        IN  IF job.algo = "reduce" \/ hits = {} THEN data[p]
            ELSE IF job.algo = "concurrent" THEN data[p] + Cardinality(hits)
            ELSE LET h == CHOOSE h \in hits : TRUE IN IotaValue(packs[h[1]].idx, h[2])]

\* Packs are reduced lane by lane; the functor of the rest feeds lane 0.
Reduced(packs, width) ==
    [l \in DOMAIN lanes |->
        IF job.algo # "reduce" \/ l >= width THEN lanes[l]
        ELSE lanes[l] + MapThenSumSet(LAMBDA k : 2^Position(Lane(packs[k].idx, l)), DOMAIN packs)]

Call(n, width) ==
    LET packs == Take(iter, n)
    IN  /\ data' = Written(packs, width)
        /\ lanes' = Reduced(packs, width)
        /\ call' = [packs |-> packs, width |-> width]
        /\ iter' = Skip(iter, n)

----------------------------------------------------------------------------
Init ==
    /\ job \in Jobs
    /\ turn = 1 /\ stage = "start"
    /\ row = Nothing /\ iter = Nothing /\ lanes = Nothing /\ call = Nothing
    /\ data = [p \in 0 .. Product(job.extents) - 1 |-> IF job.algo = "iota" THEN -1 ELSE 0]
    /\ result = [k \in {} |-> 0]

\* The next thread calls the algorithm: with packs of one element there is only
\* the loop over elements.
Begin ==
    /\ stage = "start" /\ turn <= NumThreads
    /\ lanes' = [l \in 0 .. Width - 1 |-> 0]
    /\ IF Width = 1
       THEN /\ stage' = "rest"
            /\ iter' = Loop(Origin, job.extents, Fill(Origin, 1), Space, AllDims)
            /\ UNCHANGED row
       ELSE IF ByRows
       THEN stage' = "rows" /\ row' = RowLoop /\ UNCHANGED iter
       ELSE stage' = "packs" /\ iter' = PackLoop /\ UNCHANGED row
    /\ UNCHANGED <<job, turn, data, result, call>>

\* The loop over rows enters a row, or ends.
NextRow ==
    /\ stage = "rows"
    /\ IF AtEnd(row)
       THEN stage' = "rest" /\ row' = Nothing /\ iter' = RestLoop
       ELSE stage' = "packs" /\ iter' = InRowLoop(Deref(row)) /\ row' = Advance(row)
    /\ UNCHANGED <<job, turn, lanes, data, result, call>>

CallOnPacks ==
    /\ stage = "packs" /\ ~AtEnd(iter)
    /\ Call(Packs, Width)
    /\ UNCHANGED <<job, turn, row, stage, result>>

PacksEnd ==
    /\ stage = "packs" /\ AtEnd(iter)
    /\ IF ByRows THEN stage' = "rows" /\ iter' = Nothing
                 ELSE stage' = "rest" /\ iter' = RestLoop
    /\ UNCHANGED <<job, turn, row, lanes, data, result, call>>

CallOnElement ==
    /\ stage = "rest" /\ ~AtEnd(iter)
    /\ Call(1, 1)
    /\ UNCHANGED <<job, turn, row, stage, result>>

\* The lanes are reduced to the value that transformReduce returns.
End ==
    /\ stage = "rest" /\ AtEnd(iter)
    /\ result' = [k \in DOMAIN result \union {turn} |->
                    IF k = turn THEN MapThenSumSet(LAMBDA l : lanes[l], DOMAIN lanes) ELSE result[k]]
    /\ turn' = turn + 1 /\ stage' = "start"
    /\ row' = Nothing /\ iter' = Nothing /\ lanes' = Nothing
    /\ UNCHANGED <<job, data, call>>

Next == Begin \/ NextRow \/ CallOnPacks \/ PacksEnd \/ CallOnElement \/ End

Spec == Init /\ [][Next]_vars

----------------------------------------------------------------------------
AllDone == turn > NumThreads

\* Whatever the extents, the threads, the policies and the SIMD configuration,
\* the functor gets every element exactly once (concurrent, transform), and what
\* the threads' transformReduce return adds up to every element exactly once.
EveryElementOnce ==
    CASE job.algo = "concurrent" ->
            \A p \in DOMAIN data : data[p] <= 1 /\ (AllDone => data[p] = 1)
      [] job.algo = "reduce" ->
            AllDone => MapThenSumSet(LAMBDA k : result[k], 1..NumThreads)
                       = MapThenSumSet(LAMBDA p : 2^p, DOMAIN data)
      [] OTHER -> TRUE

\* iota numbers the elements in row-major order, across packs, rows and rests.
IotaNumbersElements ==
    job.algo = "iota" => \A p \in DOMAIN data : data[p] \in {-1, p} /\ (AllDone => data[p] = p)

\* "The caller must ensure that we can safely increase the iterator without jumping
\* over iter.end()": every pack of a call lies below end() and inside its row, and
\* starts at a multiple of the width, which the aligned load and store rely on.
CallsStayInRange ==
    call # Nothing =>
        \A k \in DOMAIN call.packs :
            LET idx == call.packs[k].idx
            IN  /\ call.packs[k].inside
                /\ \A d \in 1..Rank : idx[d] < job.extents[d]
                /\ idx[Rank] + call.width <= job.extents[Rank]
                /\ idx[Rank] % call.width = 0
=============================================================================
