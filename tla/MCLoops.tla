------------------------------ MODULE MCLoops ------------------------------
(***************************************************************************)
(* Loops over indices (IdxMap) and over data in packs (SimdAlgo), and ranges *)
(* to walk (RangeWalk), that MCKernels runs.                                *)
(* Extents, distances and strides are small but cover zero, fewer positions *)
(* than workers, equal, more, and counts that divide evenly and not;       *)
(* strides that divide the distance and not; packs of one, two and four     *)
(* lanes, one to three packs per call, every traversal and layout.         *)
(***************************************************************************)
EXTENDS WorkerGroup, Integers

Policies == {"flat", "tiled"} \X {"strided", "contiguous"}

LoopsOver(grids, groups, ranges, selections) ==
    {[grid |-> g, group |-> w, range |-> r, select |-> s, traverse |-> p[1], layout |-> p[2]] :
        g \in grids, w \in groups, r \in ranges, s \in selections, p \in Policies}

Grid(b, t, w)  == [blocks |-> b, threads |-> t, warp |-> w]
RangeOf(b, n, s) == [begin |-> b, end |-> Plus(b, n), stride |-> s]

\* One dimension: every group, blocks of partial and of several warps.
Line == LoopsOver(
    {Grid(<<b>>, <<t>>, 2) : b \in 1..2, t \in 1..3},
    {ThreadsInGrid, BlocksInGrid, ThreadsInBlock, LinearWarpsInBlock},
    {RangeOf(<<b>>, <<n>>, <<s>>) : b \in 0..1, n \in 0..5, s \in 1..3},
    {<<1>>})

\* Groups whose threads share the work of a warp, or do not share work at all;
\* grids of two dimensions whose workers are numbered in one.
Linear == LoopsOver(
    {Grid(<<2, 1>>, <<1, 2>>, 2), Grid(<<1, 2>>, <<2, 2>>, 2)},
    {LinearThreadsInWarp, LinearThreadsInBlock, LinearThreadsInGrid,
     LinearBlocksInGrid, LinearWarpsInBlock},
    {RangeOf(<<1>>, <<n>>, <<s>>) : n \in {0, 3, 7}, s \in 1..2},
    {<<1>>})

\* Two dimensions, the whole range.
Plane == LoopsOver(
    {Grid(<<1, 2>>, <<2, 1>>, 2), Grid(<<2, 1>>, <<2, 1>>, 2), Grid(<<1, 1>>, <<1, 3>>, 2)},
    {ThreadsInGrid, BlocksInGrid, AllThreads},
    {RangeOf(<<0, 1>>, <<m, n>>, <<s, t>>) :
        m \in 0..3, n \in {0, 1, 3}, s \in 1..2, t \in 1..2},
    {<<1, 2>>})

\* Two dimensions, one selected.  The contiguous flat container is only used
\* where the other dimension has one worker.
Sliced == {l \in LoopsOver(
    {Grid(<<1, 2>>, <<2, 1>>, 2), Grid(<<1, 1>>, <<1, 3>>, 2), Grid(<<1, 1>>, <<2, 2>>, 2)},
    {ThreadsInGrid, AllThreads},
    {RangeOf(<<1, 0>>, <<m, n>>, <<s, 1>>) : m \in {0, 1, 4}, n \in {0, 3}, s \in 1..2},
    {<<1>>, <<2>>}) :
        l.traverse = "flat" /\ l.layout = "contiguous" =>
            \A d \in {1, 2} \ {l.select[1]} : ExtentsOf(l.group, l.grid)[d] = 1}

AllLoops == Line \union Linear \union Plane \union Sliced
             \union LoopsOver({Grid(<<2>>, <<t>>, 2) : t \in 1..2}, {LinearWarpsInGrid},
                              {RangeOf(<<0>>, <<n>>, <<1>>) : n \in 0..5}, {<<1>>})

\* [bytes, archWidth, cacheline, budget]: 1x1, 2x1, 2x2, 2x3, 4x1 and a budget
\* below one element.
Simd(b, a, c, m) == [bytes |-> b, archWidth |-> a, cacheline |-> c, budget |-> m]
SimdConfigs == {Simd(4, 1, 4, 4), Simd(4, 2, 8, 8), Simd(4, 2, 16, 16), Simd(2, 2, 4, 13),
                Simd(1, 6, 8, 7), Simd(8, 4, 32, 4)}

JobsOver(algos, grids, groups, extents, configs) ==
    {[algo |-> a, grid |-> g, group |-> w, extents |-> e, traverse |-> p[1], layout |-> p[2],
      bytes |-> c.bytes, archWidth |-> c.archWidth, cacheline |-> c.cacheline, budget |-> c.budget] :
        a \in algos, g \in grids, w \in groups, e \in extents, c \in configs,
        p \in {"flat", "tiled"} \X {"strided", "contiguous"}}

Algos == {"concurrent", "iota", "reduce"}

SimdJobs ==
    JobsOver(Algos, {Grid(<<1>>, <<1>>, 1), Grid(<<2>>, <<1>>, 1), Grid(<<1>>, <<3>>, 1)}, {ThreadsInGrid},
             {<<n>> : n \in {0, 1, 3, 4, 7, 12, 17, 24}}, SimdConfigs)
    \union
    JobsOver(Algos, {Grid(<<1, 1>>, <<2, 2>>, 1), Grid(<<1, 2>>, <<2, 1>>, 1), Grid(<<3, 1>>, <<1, 1>>, 1)},
             {ThreadsInGrid},
             {<<1, 5>>, <<2, 8>>, <<3, 4>>, <<0, 4>>, <<2, 13>>, <<3, 9>>}, {Simd(4, 1, 4, 4), Simd(4, 2, 8, 8), Simd(4, 2, 16, 16)})
    \union
    JobsOver({"reduce"}, {Grid(<<1, 1, 1>>, <<2, 1, 2>>, 1)}, {ThreadsInGrid},
             {<<2, 2, 5>>, <<1, 3, 4>>}, {Simd(4, 2, 8, 8)})
    \union
    JobsOver({"concurrent"}, {Grid(<<1, 2>>, <<2, 1>>, 1)}, {LinearThreadsInGrid},
             {<<9>>, <<16>>}, {Simd(4, 2, 16, 16)})

----------------------------------------------------------------------------
\* Ranges of one to four dimensions, empty ones too, for a walk over all of it,
\* over directions or over the core, whose halos are none, one or two positions.
RangesOver(ends, begins, strides, halos) ==
    {j \in [ctor : {"extents", "ends", "stride"}, begin : begins, end : ends, stride : strides,
            word : {8, 32}, halos : halos, walk : {"whole", "directions", "core"}] :
        /\ \A d \in DOMAIN j.end : j.begin[d] <= j.end[d]
        /\ j.ctor = "extents" => j.begin = Fill(j.end, 0)
        /\ j.ctor # "stride" => j.stride = Fill(j.end, 1)
        /\ j.walk # "whole" => j.ctor # "stride"
        /\ j.walk = "whole" => j.halos = <<>>
        /\ j.walk = "core" => j.word = 8}

RangeJobs ==
    RangesOver({<<n>> : n \in 0..5}, {<<0>>, <<2>>}, {<<1>>, <<2>>}, {<<>>, <<<<2>>>>, <<<<0>>, <<2>>>>})
    \union RangesOver({<<m, n>> : m \in {0, 2, 3}, n \in {2, 4}}, {<<0, 0>>, <<0, 1>>},
                      {<<1, 1>>, <<2, 1>>}, {<<>>, <<<<1, 0>>>>, <<<<0, 1>>, <<1, 2>>>>})
    \union {j \in RangesOver({<<2, 3, 2>>}, {<<0, 0, 0>>}, {<<1, 1, 1>>},
                             {<<>>, <<<<1, 0, 2>>, <<0, 1, 0>>>>}) : j.word = 32}
    \union {j \in RangesOver({<<2, 2, 2, 2>>}, {<<0, 0, 0, 0>>}, {<<1, 1, 1, 1>>}, {<<>>}) :
               j.word = 32 /\ j.ctor = "extents"}
Factors == {<<2>>, <<3>>, <<1, 2>>, <<2, 2>>}
Shifts  == {<<1>>, <<5>>, <<3, 1>>}

\* Complex numbers: a variable at each point of expansion and one elsewhere.
\* Numbers modulo 11: 1, 2, 3, 5 and 7 stand for the positive ones.
Positive    == {1, 2, 3, 5, 7}
LogOf       == <<0, 3, 5, 1, 8, 2, 4, 6, 7, 9>>
Near(point) == [re |-> <<point[1], 1, 3, 0>>, im |-> <<point[2], 2, 1, 0>>]
ComplexJobs == {[z |-> Near(p), w |-> Near(<<4, 9>>), r |-> <<1, 2, 1, 0>>, length |-> 2] :
                    p \in {<<0, 0>>, <<1, 0>>, <<2, 0>>, <<4, 9>>}}
=============================================================================
