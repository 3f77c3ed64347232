----------------------------- MODULE MCKernels -----------------------------
(***************************************************************************)
(* Code of the device: a kernel is launched (KernelLaunch), loops over     *)
(* indices (IdxMap) or over data in packs (SimdAlgo), a scan or a          *)
(* reduction runs with kernels of its own (GridAlgorithms), the lanes of a *)
(* warp vote and exchange values (Warp), two threads communicate through   *)
(* memory fences (MemFence), one thread walks a range (RangeWalk), computes *)
(* with complex numbers (ComplexMath) or draws random ones (RandomNumbers). *)
(* One of the nine runs, the variables of the others are idle.  MCLoops     *)
(* holds the loops, the ranges and the complex numbers.                     *)
(* Launches: extents around the size of a frame (eight elements here),     *)
(* grids of one to four dimensions on every back-end, and kernels that     *)
(* declare variables of different sizes and alignments, again and again,   *)
(* and dynamic memory.                                                     *)
(***************************************************************************)
EXTENDS KernelLaunch, FloatingPoint

CONSTANTS WarpJobs,                                         \* of Warp
          FenceJobs,                                        \* of MemFence
          Radix, Rounds, Multipliers, Weyl, XorWords(_, _), \* of RandomEngine
          Draws, Significands, MaxDraws                     \* of RandomNumbers

VARIABLES warp, step, held, answer
warpVars == <<warp, step, held, answer>>

VARIABLES fences, at, stores, view, released, seen, strict, loaded
fenceVars == <<fences, at, stores, view, released, seen, strict, loaded>>

VARIABLES loop, loopTurn, loopIter, obtained
loopVars == <<loop, loopTurn, loopIter, obtained>>

VARIABLES simd, simdTurn, row, simdIter, simdStage, lanes, data, result, call
simdVars == <<simd, simdTurn, row, simdIter, simdStage, lanes, data, result, call>>

VARIABLES algo, kernels, mem, pos, shared, reg
algoVars == <<algo, kernels, mem, pos, shared, reg>>

VARIABLES ranged, range, ops, dir, rangeIter, walked, counted
rangeVars == <<ranged, range, ops, dir, rangeIter, walked, counted>>

VARIABLES cjob, regs, exact, done
complexVars == <<cjob, regs, exact, done>>

VARIABLES draw, engine, first, drawn, engineCalls, deviates, cached
drawVars == <<draw, engine, first, drawn, engineCalls, deviates, cached>>

MCWorkers == {1, 2}

Sync        == [kind |-> "sync", id |-> "none"]
Var(id, n)  == [kind |-> "var", id |-> id, size |-> n, align |-> n, bytes |-> n]
Dyn(n)      == [kind |-> "dynamic", id |-> "dyn", size |-> 4, align |-> 4, bytes |-> n]

Job(api, spec, extents, blocks, threads, dev, perItem, kernel, base) ==
    [api |-> api, spec |-> spec, extents |-> extents, blocks |-> blocks, threads |-> threads,
     warp |-> dev[1], limit |-> dev[2], perItem |-> perItem, kernel |-> kernel, base |-> base,
     supports |-> {},
     device |-> [kind |-> "cpu", target |-> "x86_64", gfx |-> 0,
                 sizes |-> {w \in {1, 2, 4, 8, 16} : w <= dev[1]}]]

Apis == {"cuda", "sycl", "serial", "omp", "tbb", "cpuSerial"}
Gpus == {"cuda", "sycl"}

\* A frame specification is asked of the device.
Extents == {<<n>> : n \in {1, 3, 7, 8, 20}} \union {<<1, 5>>, <<3, 9>>, <<6, 2>>, <<4, 4>>, <<17, 1>>}
           \union {<<2, 3, 5>>, <<5, 1, 2>>}
ExtentJobs ==
    {Job(a, "extent", e, Nothing, Nothing, d, p, << >>, 0) :
        a \in {"cuda", "sycl", "omp"}, e \in Extents, d \in {<<1, 4>>, <<2, 8>>, <<4, 2>>}, p \in {1, 2}}

\* The extents of a frame are adjusted to the limit of the device.
FrameJobs ==
    {Job(a, "frame", Nothing, Fill(t, 1), t, <<1, l>>, 1, << >>, 0) :
        a \in {"cuda", "sycl"}, l \in {1, 3, 4, 8}, t \in {<<8>>, <<4, 4>>, <<2, 8>>, <<6, 2>>, <<2, 1, 4>>}}
    \union
    {Job(a, "constFrame", Nothing, Fill(p[1], 1), p[1], <<1, p[2]>>, 1, << >>, 0) :
        a \in {"cuda", "sycl"}, p \in {<<<<8>>, 8>>, <<<<32>>, 8>>, <<<<4, 4>>, 8>>, <<<<16, 1>>, 8>>,
                                      <<<<4, 4, 4>>, 8>>}}

\* The user gives blocks and threads.
GridJobs ==
    {Job(a, "thread", Nothing, g[1], g[2], <<1, 8>>, 1, << >>, 0) :
        a \in Gpus, g \in {<<<<3>>, <<2>>>>, <<<<2, 3>>, <<3, 2>>>>, <<<<1, 2, 3>>, <<2, 1, 3>>>>,
                            <<<<2, 1, 2, 1>>, <<1, 2, 1, 3>>>>}}
    \union
    {Job(a, "thread", Nothing, g, Fill(g, 1), <<1, 8>>, 1, << >>, 0) :
        a \in Apis \ Gpus, g \in {<<3>>, <<2, 3>>, <<1, 2, 2>>, <<2, 1, 2, 1>>}}
    \union
    {Job(a, "thread", Nothing, <<2>>, <<2>>, <<w, 8>>, 1, << >>, 0) : a \in Apis, w \in {1, 8, 16}}

\* Declarations.  On SYCL a variable is declared again only after a barrier.
Kernels == {<<Var("a", 1), Var("b", 4), Sync, Var("a", 1), Var("b", 4)>>,
            <<Var("a", 2), Var("b", 8), Sync, Var("b", 8), Var("c", 2)>>,
            <<Var("a", 8), Dyn(12), Sync, Var("b", 1), Var("a", 8)>>}
SharedJobs ==
    {Job(a, "thread", Nothing, <<3>>, <<1>>, <<1, 8>>, 1, k, b) :
        a \in Apis \ Gpus, k \in Kernels \union {<<Var("a", 1), Var("a", 1), Var("b", 8)>>},
        b \in {0, 4, 12}}
    \union
    {Job(a, "thread", Nothing, <<2>>, <<t>>, <<1, 8>>, 1, k, 0) : a \in Gpus, k \in Kernels, t \in {1, 2, 3}}

\* No executor is given.
Supported == {{"cuda"}, {"sycl"}, {"omp", "tbb", "cpuSerial"}, {"tbb", "cpuSerial"}, {"cpuSerial"}}
AnyJobs ==
    {[j EXCEPT !.supports = s] :
        j \in {Job("any", "extent", <<3, 9>>, Nothing, Nothing, <<1, 4>>, 1, << >>, 0),
               Job("any", "thread", Nothing, <<2, 2>>, <<1, 1>>, <<1, 8>>, 1, << >>, 0)}, s \in Supported}

\* SYCL devices: CPUs with and without sub-groups of 32, GPUs, an AMD device with
\* code for an older one, and a device larger than the ones the queue knows.
SyclDevice(kind, target, gfx, sizes) ==
    [kind |-> kind, target |-> target, gfx |-> gfx, sizes |-> sizes]
SyclDevices ==
    {SyclDevice("cpu", "x86_64", 0, {4, 8, 16, 32, 64}), SyclDevice("cpu", "unknown", 0, {4, 8, 16, 64}),
     SyclDevice("intelGpu", "intel", 0, {8, 16, 32}), SyclDevice("intelGpu", "ponteVecchio", 0, {16, 32}),
     SyclDevice("intelGpu", "unknown", 0, {16, 32, 64}), SyclDevice("nvidiaGpu", "nvidia", 0, {32}),
     SyclDevice("amdGpu", "amd", 9, {64}), SyclDevice("amdGpu", "amd", 9, {32}),
     SyclDevice("amdGpu", "amd", 11, {32})}
DeviceJobs ==
    {[Job("sycl", "thread", Nothing, <<2>>, <<2>>, <<1, 8>>, 1, << >>, 0) EXCEPT !.device = d] : d \in SyclDevices}

AllJobs == DeviceJobs \union AnyJobs \union ExtentJobs \union FrameJobs \union GridJobs \union SharedJobs

\* Scans of up to four levels and reductions, with one, two and four threads in
\* one to three blocks.
Scans(ns, threads, els, minis, warps, blocks) ==
    [algo : {"inclusive", "exclusive"}, n : ns, inPlace : BOOLEAN, threads : threads, els : els,
     mini : minis, warp : warps, blocks : blocks, chunks : {1}]

Reductions(ns, threads, els, blocks, chunks) ==
    [algo : {"reduce"}, n : ns, inPlace : {FALSE}, threads : threads, els : els, mini : {1},
     warp : {1}, blocks : blocks, chunks : chunks]

AlgoJobs ==
    \* one thread: every mini block, up to four levels of recursion
    {j \in Scans({1, 2, 3, 5, 8, 9}, {1}, {1, 2, 4, 8}, {1, 2, 4, 8}, {1}, {1}) : j.mini <= j.els /\ j.els > 1}
    \union
    \* two and four threads, padding, ragged ends, blocks that take several chunks
    {j \in Scans({1, 4, 7, 13}, {2}, {1, 2}, {1, 2}, {1, 4}, {1}) : j.mini <= j.els}
    \union Scans({5}, {2}, {2}, {1}, {2}, {2})
    \union Scans({4}, {4}, {1}, {1}, {1}, {1})
    \union
    \* several blocks race for the result; more threads than elements and fewer
    Reductions({1, 2, 5, 9}, {1, 2}, {1, 2}, {1, 2}, {1, 3}) \union
    Reductions({5, 9}, {4}, {1, 2}, {1}, {3}) \union
    Reductions({3}, {1}, {1}, {3}, {3})

\* Every call of the warp functions in every branch of a warp of four lanes, and
\* the sum over warps of two to eight lanes.
Vote(op, p) == [op |-> op, predicate |-> p]
Exchange(op, arg, width, add) == [op |-> op, arg |-> arg, width |-> width, add |-> add]

WarpJob(api, size, active, program) ==
    [api |-> api, size |-> size, active |-> active, program |-> program]

Calls(size, args, widths) ==
    {Vote(op, p) : op \in {"all", "any", "ballot", "activemask"}, p \in SUBSET (0 .. size - 1)}
    \union {Exchange(op, a, w, FALSE) : op \in {"shfl", "down", "up", "xor"}, a \in args, w \in widths}

TreeSum(size) == CASE size = 2 -> <<Exchange("down", 1, 0, TRUE)>>
                   [] size = 4 -> <<Exchange("down", 2, 0, TRUE), Exchange("down", 1, 0, TRUE)>>
                   [] size = 8 -> <<Exchange("down", 4, 0, TRUE), Exchange("down", 2, 0, TRUE),
                                    Exchange("down", 1, 0, TRUE)>>

WarpApis == {"cuda", "hip", "sycl", "syclAmd"}
CheckedWarps ==
    {WarpJob("host", 1, {0}, <<c>>) : c \in Calls(1, 0..1, {0, 1})}
    \union {WarpJob(a, 4, m, <<c>>) : a \in WarpApis, m \in SUBSET (0..3) \ {{}},
                                     c \in Calls(4, 0..4, {0, 2, 4})}
    \union {WarpJob(a, n, 0 .. n - 1, TreeSum(n)) : a \in WarpApis, n \in {2, 4, 8}}

\* Message passing with every pair of fences, and store buffering with strong ones.
Access(op, x) == [op |-> op, at |-> x]
FenceOf(o, s) == [op |-> "fence", order |-> o, scope |-> s]

FenceApis == {"host", "hip", "sycl", "cuda90", "cuda70", "cuda60", "cudaAtomic"}
Orders == {"Relaxed", "Acquire", "Release", "AcqRel", "SeqCst"}
FencePrograms ==
    {<<<<Access("store", "payload"), FenceOf(o, s), Access("store", "flag")>>,
       <<Access(w, "flag"), FenceOf(p, u), Access("load", "payload")>>>> :
        w \in {"load", "await"}, o \in Orders, p \in Orders, s \in {"Block", "Device"}, u \in {"Block", "Device"}}
    \union
    {<<<<Access("store", "payload"), FenceOf(o, s), Access("load", "flag")>>,
       <<Access("store", "flag"), FenceOf(p, u), Access("load", "payload")>>>> :
        o \in {"AcqRel", "SeqCst"}, p \in {"AcqRel", "SeqCst"}, s \in {"Block", "Device"}, u \in {"Block", "Device"}}
CheckedFences == {j \in [api : FenceApis, block : {<<1, 1>>, <<1, 2>>}, program : FencePrograms] :
                     j.api = "host" => j.block = <<1, 2>>}

\* Engines with words of three bits and three rounds of the shuffle; a float has
\* two significant bits and a double five, so that both round and neither has room
\* for every number of the engine, as in the code.
CheckedMultipliers == <<5, 3>>
CheckedWeyl == <<3, 6>>
XorTable == [p \in (0 .. 7) \X (0 .. 7) |->
                LET Bit(k) == ((p[1] \div k) + (p[2] \div k)) % 2
                IN  Bit(1) + 2 * Bit(2) + 4 * Bit(4)]
CheckedXor(a, b) == XorTable[<<a, b>>]
CheckedSignificands == [float |-> 4, double |-> 32]

DrawsOf(use, variants, seeds, subsequences, offsets, types, intervals, bounds) ==
    [use : {use}, variant : variants, seed : seeds, subsequence : subsequences, offset : offsets,
     type : types, interval : intervals, fused : BOOLEAN,
     min : {b[1] * (PerUnit \div 2) : b \in bounds}, max : {b[2] * (PerUnit \div 2) : b \in bounds}]

Engines   == {"single", "vector"}
RealTypes == {"float", "double"}
Intervals == {"co", "oc", "oo", "cc"}
Bounds    == {<<0, 2>>, <<-2, 2>>, <<2, 4>>, <<0, 6>>, <<6, 8>>, <<-3, -2>>}

\* Halves of the bounds of a real.
HasBounds(j) == \E b \in Bounds : j.min = b[1] * (PerUnit \div 2) /\ j.max = b[2] * (PerUnit \div 2)

NumberDraws  == {j \in DrawsOf("number", Engines, {0, 11}, {0, 1, 7, 8, 56, 63},
                               {0, 1, 3, 4, 5, 31, 32} \cup 60..63, {"float"}, {"co"}, {<<0, 2>>}) : ~j.fused}
BlockDraws   == {j \in DrawsOf("blocks", {"vector"}, {0, 11}, {0}, {0}, {"float"}, {"co"}, {<<0, 2>>}) : ~j.fused}
UniformDraws == DrawsOf("uniform", Engines, 0..15, {0}, {0}, RealTypes, Intervals, Bounds)
NormalDraws  == DrawsOf("normal", {"single"}, 0..15, {0}, {0}, RealTypes, {"oo"}, {<<0, 2>>})

\* There is no float here between 3 and 4, nor between -1.5 and -1.
HasRoom(j) == j.interval = "oo" /\ j.type = "float" => j.min \notin {3 * PerUnit, -3 * (PerUnit \div 2)}

CheckedDraws ==
    NumberDraws \cup BlockDraws \cup NormalDraws \cup {j \in UniformDraws : HasBounds(j) /\ HasRoom(j)}

----------------------------------------------------------------------------
Warps == INSTANCE Warp WITH Jobs <- WarpJobs
Fences == INSTANCE MemFence WITH Jobs <- FenceJobs
Engine == INSTANCE RandomNumbers WITH Jobs <- Draws, job <- draw, calls <- engineCalls

ASSUME WarpJobsAssumption == \A j \in WarpJobs : Warps!Legal(j)
ASSUME FenceJobsAssumption == \A j \in FenceJobs : Fences!Legal(j)

Grids == INSTANCE GridAlgorithms WITH Jobs <- AlgoJobs, job <- algo

ASSUME AlgoJobsAssumption == \A j \in AlgoJobs : Grids!Legal(j)

Inputs == INSTANCE MCLoops

Loops == INSTANCE IdxMap WITH Loops <- Inputs!AllLoops, NotStarted <- Nothing,
                              turn <- loopTurn, iter <- loopIter, seen <- obtained
Packs == INSTANCE SimdAlgo WITH Jobs <- Inputs!SimdJobs, job <- simd, stage <- simdStage,
                                turn <- simdTurn, iter <- simdIter

Ranges == INSTANCE RangeWalk WITH
    Jobs <- Inputs!RangeJobs, Words <- {8, 32}, SubWord <- 16, Factors <- Inputs!Factors,
    Shifts <- Inputs!Shifts, MaxOps <- 2, job <- ranged, it <- rangeIter

Complexes == INSTANCE ComplexMath WITH
    P <- 11, Positive <- Inputs!Positive, HalfPi <- 6, LogOf <- Inputs!LogOf, ComplexJobs <- Inputs!ComplexJobs

ASSUME LoopsAssumption == \A l \in Inputs!AllLoops : Loops!Legal(l)
ASSUME SimdJobsAssumption == \A j \in Inputs!SimdJobs : Packs!Legal(j)
ASSUME ComplexAssumption == Complexes!FieldIsSound
ASSUME EngineAssumption == Engine!LegalEngine /\ Engine!LegalReals
ASSUME DrawsAssumption == \A j \in Draws : Engine!Legal(j)

LaunchIdle == /\ job = Nothing /\ stage = "idle" /\ frame = Nothing /\ grid = Nothing
              /\ next = Nothing /\ run = Nothing /\ storage = Nothing /\ count = Nothing
AlgoIdle   == /\ algo = Nothing /\ kernels = Nothing /\ mem = Nothing /\ pos = Nothing
              /\ shared = Nothing /\ reg = Nothing
WarpIdle   == warp = Nothing /\ step = Nothing /\ held = Nothing /\ answer = Nothing
FenceIdle  == /\ fences = Nothing /\ at = Nothing /\ stores = Nothing /\ view = Nothing
              /\ released = Nothing /\ seen = Nothing /\ strict = Nothing /\ loaded = Nothing
LoopsIdle  == loop = Nothing /\ loopTurn = Nothing /\ loopIter = Nothing /\ obtained = Nothing
PacksIdle  == /\ simd = Nothing /\ simdTurn = Nothing /\ simdStage = Nothing /\ row = Nothing
              /\ simdIter = Nothing /\ lanes = Nothing /\ data = Nothing /\ result = Nothing
              /\ call = Nothing
RangesIdle == /\ ranged = Nothing /\ range = Nothing /\ ops = Nothing /\ dir = Nothing
              /\ rangeIter = Nothing /\ walked = Nothing /\ counted = Nothing
DrawIdle   == /\ draw = Nothing /\ engine = Nothing /\ first = Nothing /\ drawn = Nothing
              /\ engineCalls = Nothing /\ deviates = Nothing /\ cached = Nothing
ComplexIdle == cjob = Nothing /\ regs = Nothing /\ exact = Nothing /\ done = Nothing

LaunchRuns == job # Nothing
AlgoRuns   == algo # Nothing
WarpRuns   == warp # Nothing
FenceRuns  == fences # Nothing
LoopsRun   == loop # Nothing
PacksRun   == simd # Nothing
RangesRun  == ranged # Nothing
ComplexRuns == cjob # Nothing
DrawRuns   == draw # Nothing

MCInit ==
    \/ Init /\ AlgoIdle /\ WarpIdle /\ FenceIdle /\ LoopsIdle /\ PacksIdle /\ RangesIdle /\ ComplexIdle /\ DrawIdle
    \/ LaunchIdle /\ Grids!Init /\ WarpIdle /\ FenceIdle /\ LoopsIdle /\ PacksIdle /\ RangesIdle /\ ComplexIdle /\ DrawIdle
    \/ LaunchIdle /\ AlgoIdle /\ Warps!Init /\ FenceIdle /\ LoopsIdle /\ PacksIdle /\ RangesIdle /\ ComplexIdle /\ DrawIdle
    \/ LaunchIdle /\ AlgoIdle /\ WarpIdle /\ Fences!Init /\ LoopsIdle /\ PacksIdle /\ RangesIdle /\ ComplexIdle /\ DrawIdle
    \/ LaunchIdle /\ AlgoIdle /\ WarpIdle /\ FenceIdle /\ Loops!Init /\ PacksIdle /\ RangesIdle /\ ComplexIdle /\ DrawIdle
    \/ LaunchIdle /\ AlgoIdle /\ WarpIdle /\ FenceIdle /\ LoopsIdle /\ Packs!Init /\ RangesIdle /\ ComplexIdle /\ DrawIdle
    \/ LaunchIdle /\ AlgoIdle /\ WarpIdle /\ FenceIdle /\ LoopsIdle /\ PacksIdle /\ Ranges!Init /\ ComplexIdle /\ DrawIdle
    \/ /\ LaunchIdle /\ AlgoIdle /\ WarpIdle /\ FenceIdle /\ LoopsIdle /\ PacksIdle /\ RangesIdle
       /\ Complexes!Init /\ DrawIdle
    \/ /\ LaunchIdle /\ AlgoIdle /\ WarpIdle /\ FenceIdle /\ LoopsIdle /\ PacksIdle /\ RangesIdle
       /\ ComplexIdle /\ Engine!Init

MCNext ==
    \/ /\ LaunchRuns /\ Next
       /\ UNCHANGED <<algoVars, warpVars, fenceVars, loopVars, simdVars, rangeVars, complexVars, drawVars>>
    \/ /\ AlgoRuns /\ Grids!Next
       /\ UNCHANGED <<vars, warpVars, fenceVars, loopVars, simdVars, rangeVars, complexVars, drawVars>>
    \/ /\ WarpRuns /\ Warps!Next
       /\ UNCHANGED <<vars, algoVars, fenceVars, loopVars, simdVars, rangeVars, complexVars, drawVars>>
    \/ /\ FenceRuns /\ Fences!Next
       /\ UNCHANGED <<vars, algoVars, warpVars, loopVars, simdVars, rangeVars, complexVars, drawVars>>
    \/ /\ LoopsRun /\ Loops!Next
       /\ UNCHANGED <<vars, algoVars, warpVars, fenceVars, simdVars, rangeVars, complexVars, drawVars>>
    \/ /\ PacksRun /\ Packs!Next
       /\ UNCHANGED <<vars, algoVars, warpVars, fenceVars, loopVars, rangeVars, complexVars, drawVars>>
    \/ /\ RangesRun /\ Ranges!Next
       /\ UNCHANGED <<vars, algoVars, warpVars, fenceVars, loopVars, simdVars, complexVars, drawVars>>
    \/ /\ ComplexRuns /\ Complexes!Next
       /\ UNCHANGED <<vars, algoVars, warpVars, fenceVars, loopVars, simdVars, rangeVars, drawVars>>
    \/ /\ DrawRuns /\ Engine!Next
       /\ UNCHANGED <<vars, algoVars, warpVars, fenceVars, loopVars, simdVars, rangeVars, complexVars>>

mcVars == <<vars, algoVars, warpVars, fenceVars, loopVars, simdVars, rangeVars, complexVars, drawVars>>

MCSpec == MCInit /\ [][MCNext]_mcVars

----------------------------------------------------------------------------
\* A frame specification and the thread specification made of it respect the
\* limits of the device and cover the extents; every pair of a block and a thread
\* of the launch runs exactly once, whatever the native grid.
LaunchesAreExact == LaunchRuns => SpecIsUsable /\ EveryThreadRunsOnce

\* Within a block an id always means the same memory, aligned and apart from
\* other variables, whoever declares it, and never that of another block.
DeclarationsAreSound == LaunchRuns => SameIdSameMemory /\ VariablesAreSeparate

\* Scans and reductions take every element exactly once, whatever the chunks,
\* mini blocks, levels and the interleaving of blocks and threads.
AlgorithmsAreExact == AlgoRuns => Grids!ScanIsPrefixSum /\ Grids!ReduceIsExact

\* Between barriers no thread touches a cell of shared memory that another one
\* writes.
SharedMemoryIsNotRaced == AlgoRuns => Grids!SharedMemoryIsNotRaced

\* A vote counts the lanes of the branch and no other, an exchange gives every
\* lane the value that onAcc/warp.hpp documents, and a sum has every lane once.
WarpCallsAreExact == WarpRuns => Warps!CallsAreExact /\ Warps!SumIsExact

\* What a thread stored before a fence is seen by a thread that behind its own
\* fence has seen what came after, and sequentially consistent fences have one
\* order, on every back-end, as long as their scopes hold both threads.
FencesOrderMemory == FenceRuns => Fences!FencesOrderMemory

\* makeIdxMap: between them the workers of a group obtain every index of the
\* range, no other one, and none of them twice; every thread walks in row-major
\* order, contiguous layouts in one piece. The SIMD algorithms get every element
\* once, iota numbers them, and no pack leaves its row, is unaligned or behind end().
\* A range that was scaled, shifted and cast is walked in order over what that
\* leaves; the directions of a range split it.
EveryElementOnce ==
    /\ LoopsRun => /\ Loops!IndicesAreInRange /\ Loops!NoIndexTwice /\ Loops!AllIndicesVisited
                   /\ Loops!LayoutIsHonoured
    /\ PacksRun => Packs!EveryElementOnce /\ Packs!IotaNumbersElements /\ Packs!CallsStayInRange
    /\ RangesRun => Ranges!WholeIsInOrder /\ Ranges!DirectionsSplit

\* A program that computes with complex numbers has the same results on a device
\* as on the host, where it is std::complex that computes.
DeviceAgreesWithHost == ComplexRuns => Complexes!DeviceAgreesWithHost

\* The numbers of an engine are those of consecutive blocks, through every carry,
\* different blocks differ, and every number is used: no number is behind two
\* deviates, save the two of one Box-Muller transform, and none is skipped.
StreamIsConsecutive ==
    DrawRuns => Engine!StreamIsConsecutive /\ Engine!BlocksAreDistinct /\ Engine!DrawsAreUsedOnce

\* Uniform reals respect the bounds of their interval although each step rounds.
UniformStaysInInterval == DrawRuns => Engine!UniformStaysInInterval

\* "Skip offset numbers from the start of the subsequence" (philox.hpp:43): the
\* first number of an engine is the offset-th of the engine without offset.
OffsetSkipsNumbers == DrawRuns => Engine!OffsetSkipsNumbers

\* onAcc/warp.hpp:57: all() is true if the predicates of all threads that call
\* it are, whichever lanes they are.
AllCountsActiveLanes == WarpRuns => Warps!AllCountsActiveLanes
=============================================================================
