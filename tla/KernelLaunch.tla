---------------------------- MODULE KernelLaunch ----------------------------
(***************************************************************************)
(* From enqueueing a kernel to its blocks and threads: the frame             *)
(* specification a device proposes for an extent (getFrameSpec), the thread  *)
(* specification derived from it (AdjustThreadSpec), the launch on the       *)
(* native grid of CUDA/HIP and SYCL or by the executors of the host, the     *)
(* coordinates a thread sees (BlockLayer, ThreadLayer), and the memory its   *)
(* block shares (BlockShared).                                              *)
(*                                                                         *)
(* The blocks run on workers: multiprocessors of a GPU, the threads of       *)
(* OmpBlocks and TbbBlocks, the queue's thread for Serial.                  *)
(***************************************************************************)
EXTENDS BlockShared, IndexSpace, Bags

CONSTANTS Jobs, Workers, Nothing,
          FrameElements     \* elements of a frame: 512 in the code
ASSUME LaunchAssumption == FrameElements \in {2^k : k \in 0..9}

(***************************************************************************)
(* A job is a record                                                        *)
(*   api       "cuda", "sycl", "serial", "omp", "tbb" or "cpuSerial" (the    *)
(*             one for which blocks are not emulated), or "any", then        *)
(*   supports  names the executors compiled for the device                   *)
(*   spec      "extent": a frame specification is asked of the device first; *)
(*             "frame", "constFrame" (frame extents known to the compiler)   *)
(*             or "thread": the user gives [blocks, threads]                *)
(*   extents   the problem, for "extent"                                    *)
(*   blocks, threads   number and extents of frames, or of blocks           *)
(*   warp, limit       warp size and largest number of threads of a block    *)
(*   device    of SYCL: its kind, the sizes of sub-groups it has, the target *)
(*             the kernels are compiled for and, of AMD, the number of its    *)
(*             instruction set; they decide the warp size                     *)
(*   perItem   elements per frame item (getSimdFrameSpec), 1 without SIMD    *)
(*   kernel    what each thread does: declarations and barriers             *)
(*   base      address of the host's storage                                *)
(***************************************************************************)
HostApis == {"serial", "omp", "tbb", "cpuSerial"}

VARIABLES job, stage,
          frame,     \* the frame specification [blocks, threads]
          grid,      \* the thread specification [blocks, threads]
          next,      \* native blocks not started
          run,       \* run[w]: what worker w executes, or Nothing
          storage,   \* storage[w]: the array of a thread of OmpBlocks or Serial
          count      \* count[<<b, t>>]: how often a thread saw these coordinates
vars == <<job, stage, frame, grid, next, run, storage, count>>

----------------------------------------------------------------------------

\* Doubling the frame in this dimension does not oversubscribe the extents.
CanDouble(extents, f, d) == (extents[d] \div f[d]) \div 2 >= 1

\* The dimension with most room; the first one on a tie, the fastest if none has.
WidestDim(extents, f) ==
    LET room(d) == (extents[d] \div f[d]) \div 2
        best    == {d \in DOMAIN f : room(d) > 0 /\ \A e \in DOMAIN f : room(e) <= room(d)}
    IN  IF best = {} THEN Len(f) ELSE CHOOSE d \in best : \A e \in best : d <= e

BitFloor(x) == CHOOSE p \in {2^k : k \in 0..9} : p <= x /\ x < 2 * p
AtLeastOne(v) == [d \in DOMAIN v |-> MaxOf(v[d], 1)]

\* getFrameSpec: rounds of the loop that distributes numFrameElements; what is
\* left of it is halved down to one, in as many rounds at most as it has bits.
FrameLoop(extents, first, left) ==
    LET round[k \in 0..9] ==
            IF k = 0 THEN [f |-> first, left |-> left]
            ELSE LET s == round[k - 1]
                     d == WidestDim(extents, s.f)
                 IN  IF s.left > 1 /\ CanDouble(extents, s.f, d)
                     THEN [f |-> [s.f EXCEPT ![d] = 2 * @], left |-> s.left \div 2]
                     ELSE s
    IN  round

\* getFrameSpec
FirstFrame(extents, warp) ==
    LET n == Len(extents)
    IN  [Fill(extents, 1) EXCEPT ![n] = BitFloor(IF extents[n] < warp THEN extents[n] ELSE warp)]

FrameExtents(extents, warp) ==
    LET first == FirstFrame(extents, warp)
    IN  FrameLoop(extents, first, FrameElements \div first[Len(extents)])[9].f

\* divExZero
NumFrames(extents, f) == AtLeastOne([d \in DOMAIN f |-> extents[d] \div f[d]])

\* getFrameSpec, getSimdFrameSpec
FrameSpecFor(j) ==
    LET f == FrameExtents(j.extents, j.warp)
    IN  [threads |-> f,
         blocks  |-> NumFrames(j.extents, [f EXCEPT ![Len(f)] = @ * j.perItem])]

Halve(v, d) == [v EXCEPT ![d] = MaxOf(@ \div 2, 1)]

Within(u, limit) == Product(u) <= limit

\* The first round of a loop after which there are limit threads at most.
FirstWithin(round, limit) ==
    CHOOSE k \in DOMAIN round : /\ Within(round[k].v, limit)
                                /\ \A i \in 0..(k - 1) : ~Within(round[i].v, limit)

\* The largest extent, the first on a tie.
LargestDim(u) == CHOOSE d \in DOMAIN u : /\ \A e \in DOMAIN u : u[e] <= u[d]
                                         /\ \A e \in 1..(d - 1) : u[e] < u[d]

\* adjustToLimit at run time: the rounds of its loop halve the largest extent.
LargestRounds(v) ==
    LET round[k \in 0..Product(v)] ==
            IF k = 0 THEN [v |-> v]
            ELSE LET u == round[k - 1].v IN [v |-> Halve(u, LargestDim(u))]
    IN  round

AdjustToLimit(v, limit) ==
    LET round == LargestRounds(v) IN round[FirstWithin(round, limit)].v

\* adjustToLimit at compile time: dimensions in turn, to and fro.
AlternatingRounds(v) ==
    LET dim == Len(v)
        round[k \in 0 .. 2 * dim * Product(v)] ==
            IF k = 0 THEN [v |-> v, d |-> 1, up |-> TRUE]
            ELSE LET s  == round[k - 1]
                     to == IF s.up THEN s.d + 1 ELSE s.d - 1
                 IN  [v |-> Halve(s.v, s.d), d |-> IF to > dim THEN dim ELSE MaxOf(to, 1),
                      up |-> to <= dim /\ (to <= 1 \/ s.up)]
    IN  round

AdjustConstToLimit(v, limit) ==
    LET round == AlternatingRounds(v) IN round[FirstWithin(round, limit)].v

\* AdjustThreadSpec of cpu::Device
AdjustOnHost(j, f) ==
    [blocks  |-> IF j.api = "cpuSerial" THEN Fill(f.blocks, 1) ELSE f.blocks,
     threads |-> Fill(f.threads, 1)]

\* AdjustThreadSpec of the other devices
AdjustOnGpu(j, f) ==
    [blocks  |-> f.blocks,
     threads |-> IF j.spec = "constFrame" THEN AdjustConstToLimit(f.threads, j.limit)
                 ELSE AdjustToLimit(f.threads, j.limit)]

AdjustThreadSpec(j, f) == IF j.api \in HostApis THEN AdjustOnHost(j, f) ELSE AdjustOnGpu(j, f)

\* FrameSpec{frames, extents}, or ThreadSpec{blocks, threads}
GivenSpec(j) == [blocks |-> j.blocks, threads |-> j.threads]

\* The frame specification of a launch: getFrameSpec, getSimdFrameSpec of the
\* device, or the one that is given.
FrameOf(j) == CASE j.spec = "extent" -> FrameSpecFor(j)
                [] j.spec \in {"frame", "constFrame"} -> GivenSpec(j)
                [] j.spec = "thread" -> Nothing

\* Its thread specification.
GridOf(j) == IF j.spec = "thread" THEN GivenSpec(j) ELSE AdjustThreadSpec(j, FrameOf(j))

----------------------------------------------------------------------------
IndicesBelow(v) == {MapToND(v, k) : k \in 0..(Product(v) - 1)}

\* convertVecToUniformCudaHipDim
Dim3(v) == LET n == Len(v)
           IN  [x |-> v[n], y |-> IF n >= 2 THEN v[n - 1] ELSE 1,
                            z |-> IF n >= 3 THEN v[n - 2] ELSE 1]

\* CallKernel, getWorkerDescription: more than three dimensions become one.
NativeExtents(v) == IF Len(v) >= 4 THEN <<Product(v)>> ELSE v

\* What blockIdx and threadIdx, or nd_item, range over; indices on the host.
NativeIndices(v) ==
    LET n == NativeExtents(v)
        b == Dim3(n)
    IN  CASE job.api = "cuda" -> [x : 0..(b.x - 1), y : 0..(b.y - 1), z : 0..(b.z - 1)]
          [] job.api = "sycl" -> IndicesBelow(n)
          [] job.api \in {"serial", "cpuSerial"} -> IndicesBelow(v)
          [] job.api \in {"omp", "tbb"} -> 0..(Product(v) - 1)

\* Mutant: the first components of (z, y, x).
LShrink(v, native) == SubSeq(<<native.z, native.y, native.x>>, 1, Len(v))

\* Vec{z, y, x}.rshrink<dim>
RShrink(v, native) == SubSeq(<<native.z, native.y, native.x>>, 4 - Len(v), 3)

\* syclGeneric: ids of more than three dimensions are linear.
SyclIdx(v, native) == IF Len(v) <= 3 THEN native ELSE MapToND(v, native[1])

\* BlockLayer::idx and ThreadLayer::idx of the devices, GenericLayer of the host.
LayerIdx(v, native) ==
    CASE job.api = "cuda" -> IF Len(v) <= 3 THEN RShrink(v, native) ELSE MapToND(v, native.x)
      [] job.api = "sycl" -> SyclIdx(v, native)
      [] job.api \in {"serial", "cpuSerial"} -> native
      [] job.api \in {"omp", "tbb"} -> MapToND(v, native)

BlockIdx(native)  == LayerIdx(grid.blocks, native)
\* OneLayer on the host
ThreadIdx(native) == IF job.api \in HostApis THEN Fill(grid.threads, 0)
                     ELSE LayerIdx(grid.threads, native)

\* The executors of the host refuse blocks of several threads.
Refused == job.spec = "thread" /\ Product(job.threads) # 1

----------------------------------------------------------------------------
\* allExecutors, those with most parallelism first.
AllExecutors == <<"cuda", "sycl", "omp", "tbb", "cpuSerial">>

\* defaultExecutor
DefaultExecutor(supported) ==
    LET first == CHOOSE i \in DOMAIN AllExecutors :
                    /\ AllExecutors[i] \in supported
                    /\ \A k \in 1..(i - 1) : AllExecutors[k] \notin supported
    IN  AllExecutors[first]

\* GetDeviceProperties of a SYCL platform. CPUs have sub-groups of 64, which
\* the implementation does not support.
ReportedWarpSize(d) ==
    IF d.kind = "cpu" /\ Max(d.sizes) > 32 THEN 32 ELSE Max(d.sizes)

WithWarpSize(j) ==
    IF j.api = "sycl" THEN [j EXCEPT !.warp = ReportedWarpSize(j.device)] ELSE j

\* Warpsize::Dispatch: sizes a function is instantiated for.
DispatchSizes(kind) ==
    CASE kind = "cpu" -> {1, 2, 4, 8, 16, 32}
      [] kind = "intelGpu" -> {8, 16, 32}
      [] kind = "amdGpu" -> {32, 64}
      [] kind = "nvidiaGpu" -> {32}

\* Wavefronts of AMD's instruction sets.
WavefrontSizes(gfx) == IF gfx <= 9 THEN {64} ELSE {32}

\* ALPAKA_SYCL_SUBGROUP_SIZE in the compilation for the device: the sizes of
\* which it contains a kernel.
CompiledSizes(d) ==
    CASE d.target = "intel" -> {8, 16, 32}
      [] d.target = "ponteVecchio" -> {16, 32}
      [] d.target = "x86_64" -> {1, 2, 4, 8, 16, 32}
      [] d.target = "nvidia" -> {32}
      [] d.target = "amd" -> WavefrontSizes(d.gfx)
      [] d.target = "unknown" -> {2^k : k \in 0..6}

\* Without an executor, enqueue() takes the default one before all else.
WithExecutor(j) == IF j.api = "any" THEN [j EXCEPT !.api = DefaultExecutor(j.supports)] ELSE j

\* What is launched for a job.
Resolved(j) == WithWarpSize(WithExecutor(j))

Init == /\ \E j \in Jobs : job = Resolved(j)
        /\ stage = "enqueue"
        /\ frame = Nothing /\ grid = Nothing
        /\ next = {}
        /\ run = [w \in Workers |-> Nothing]
        /\ storage = [w \in Workers |-> EmptyStorage(job.base)]
        /\ count = EmptyBag

\* The thread specification of a launch, and what comes of enqueueing it.
Launch(outcome) ==
    /\ frame' = FrameOf(job)
    /\ grid' = GridOf(job)
    /\ stage' = outcome
    /\ next' = IF outcome = "running" THEN NativeIndices(grid'.blocks) ELSE {}
    /\ UNCHANGED <<job, run, storage, count>>

\* CallKernel
EnqueueOnCudaHip == stage = "enqueue" /\ job.api = "cuda" /\ Launch("running")

\* EnqueueKernelWithWarpSize: sizes with a kernel that the device can run. (The
\* host is compiled with all sizes, so it never reaches the abort() of the other
\* case: submit() throws when the kernel is missing.)
LaunchableSizes(d) == DispatchSizes(d.kind) \cap CompiledSizes(d) \cap d.sizes

\* dispatchWarpSize or submit() throws, or the kernel is submitted.
EnqueueOnSycl ==
    /\ stage = "enqueue" /\ job.api = "sycl"
    /\ Launch(IF job.warp \in LaunchableSizes(job.device) THEN "running" ELSE "thrown")

\* The task of a host queue constructs the executor.
EnqueueOnHost ==
    /\ stage = "enqueue" /\ job.api \in HostApis
    /\ Launch(IF Refused THEN "thrown" ELSE "running")

\* Blocks that may start now: Serial has one thread and goes through them in order.
Startable(w) ==
    IF job.api \in {"serial", "cpuSerial"}
    THEN {b \in next : w = Min(Workers)
                        /\ \A c \in next : Linearize(grid.blocks, b) <= Linearize(grid.blocks, c)}
    ELSE next

Coordinates(b) ==
    LET threads == NativeIndices(grid.threads)
        idx(t)  == <<BlockIdx(b), ThreadIdx(t)>>
    IN  [c \in {idx(t) : t \in threads} |-> Cardinality({t \in threads : idx(t) = c})]

\* A worker takes a block.  TbbBlocks makes its memory anew; Serial and OmpBlocks
\* go on with what the last block left.
StartBlock(w) ==
    /\ stage = "running" /\ run[w] = Nothing
    /\ \E b \in Startable(w), content \in {Null, Garbage} :
          LET threads == NativeIndices(grid.threads)
          IN  /\ content = Null \/ job.api = "sycl"
              /\ next' = next \ {b}
              /\ count' = count (+) Coordinates(b)
              /\ run' = [run EXCEPT ![w] =
                            [at    |-> [t \in threads |-> 1],
                             got   |-> [t \in threads |-> {}],
                             table |-> FreshTable(threads, Len(job.kernel), content)]]
    /\ storage' = IF job.api = "tbb" THEN [storage EXCEPT ![w] = EmptyStorage(job.base)] ELSE storage
    /\ UNCHANGED <<job, stage, frame, grid>>

Ended(w, t) == run[w].at[t] > Len(job.kernel)
Statement(w, t) == job.kernel[run[w].at[t]]

\* Where the compiler and the launch place shared memory on a GPU: apart.
RoomOnGpu == 100
Placed(d) ==
    LET first == CHOOSE k \in DOMAIN job.kernel : /\ job.kernel[k].id = d.id
                                                  /\ \A i \in 1..(k - 1) : job.kernel[i].id # d.id
    IN  RoomOnGpu * first

Leader(w) == CHOOSE t \in DOMAIN run[w].at : ThreadIdx(t) = Fill(grid.threads, 0)

Took(w, t, d, at) ==
    [run[w] EXCEPT !.at[t] = @ + 1,
                   !.got[t] = @ \union {[kind |-> d.kind, id |-> d.id, at |-> at,
                                         bytes |-> d.bytes, align |-> d.align]}]

\* allocVar and allocDynamic of SingleThreadStaticShared
DeclareOnHost(w, t) ==
    LET d     == Statement(w, t)
        found == GetVarPtr(storage[w], d)
        s     == IF found = Null THEN Alloc(storage[w], d) ELSE storage[w]
        at    == IF found = Null THEN GetLatestVarPtr(s, d) ELSE found
    IN  /\ job.api \in HostApis
        /\ storage' = [storage EXCEPT ![w] = s]
        /\ run' = [run EXCEPT ![w] = Took(w, t, d, at)]

\* StaticSharedMemory::allocVar of SYCL
DeclareVarOnSycl(w, t) ==
    LET d     == Statement(w, t)
        found == LookUp(run[w].table, t, d)
        table == IF found = Null THEN Enter(run[w].table, t, Leader(w), d, Placed(d))
                 ELSE run[w].table
        at    == IF found = Null THEN Placed(d) ELSE found
    IN  /\ job.api = "sycl" /\ d.kind = "var"
        /\ run' = [run EXCEPT ![w] = [Took(w, t, d, at) EXCEPT !.table = table]]
        /\ UNCHANGED storage

\* Shared memory of CUDA/HIP; DynamicSharedMemory of SYCL
DeclareOnGpu(w, t) ==
    LET d == Statement(w, t)
    IN  /\ job.api = "cuda" \/ (job.api = "sycl" /\ d.kind = "dynamic")
        /\ run' = [run EXCEPT ![w] = Took(w, t, d, Placed(d))]
        /\ UNCHANGED storage

Declare(w) ==
    /\ run[w] # Nothing
    /\ \E t \in DOMAIN run[w].at :
          /\ ~Ended(w, t) /\ Statement(w, t).kind # "sync"
          /\ DeclareOnHost(w, t) \/ DeclareVarOnSycl(w, t) \/ DeclareOnGpu(w, t)
    /\ UNCHANGED <<job, stage, frame, grid, next, count>>

\* syncBlockThreads
Synchronise(w) ==
    /\ run[w] # Nothing
    /\ \A t \in DOMAIN run[w].at : ~Ended(w, t) /\ Statement(w, t).kind = "sync"
    /\ run' = [run EXCEPT ![w].at = [t \in DOMAIN @ |-> @[t] + 1]]
    /\ UNCHANGED <<job, stage, frame, grid, next, storage, count>>

\* The block is through; reset() of the host's storage does nothing.
EndBlock(w) ==
    /\ run[w] # Nothing
    /\ \A t \in DOMAIN run[w].at : Ended(w, t)
    /\ run' = [run EXCEPT ![w] = Nothing]
    /\ UNCHANGED <<job, stage, frame, grid, next, storage, count>>

\* The kernel is done: the executor returns, the device completes the launch.
EndKernel ==
    /\ stage = "running" /\ next = {} /\ \A w \in Workers : run[w] = Nothing
    /\ stage' = "done"
    /\ UNCHANGED <<job, frame, grid, next, run, storage, count>>

Next == \/ EnqueueOnCudaHip \/ EnqueueOnSycl \/ EnqueueOnHost \/ EndKernel
        \/ \E w \in Workers : StartBlock(w) \/ Declare(w) \/ Synchronise(w) \/ EndBlock(w)

Spec == Init /\ [][Next]_vars

----------------------------------------------------------------------------
(***************************************************************************)
(* What the programs guarantee.  An id stands for one type and size.  The   *)
(* size of a type is a multiple of its alignment, and of two alignments one *)
(* is a multiple of the other.  Where the table of SYCL may be used there is *)
(* a barrier between two declarations of a variable.                        *)
(***************************************************************************)
IsDeclaration(s) == s.kind \in {"var", "dynamic"}

LegalStatement(s) ==
    /\ s.kind = "sync" \/ IsDeclaration(s)
    /\ IsDeclaration(s) => s.size \in Nat /\ s.bytes \in Nat /\ s.align \in Nat \ {0}
    /\ s.kind = "var" => s.bytes = s.size /\ s.size % s.align = 0 /\ MaxOf(MinAlign, s.align) % s.align = 0

LegalKernel(k) ==
    /\ k \in Seq({k[i] : i \in DOMAIN k})
    /\ \A i \in DOMAIN k : LegalStatement(k[i])
    /\ \A i, m \in DOMAIN k :
          IsDeclaration(k[i]) /\ IsDeclaration(k[m]) /\ k[i].id = k[m].id => k[i] = k[m]

BarrierBetween(k, i, m) == \E n \in (i + 1) .. (m - 1) : k[n].kind = "sync"

\* Extents are positive (asserted in getFrameSpec); frames and blocks have the same
\* dimensions; a warp fits into a frame of 512 elements.
IsExtents(v) == Len(v) \in Nat \ {0} /\ v \in [1 .. Len(v) -> Nat \ {0}]
LegalSpec(j) ==
    /\ j.api \in HostApis \union {"cuda", "sycl"}
    /\ j.spec \in {"extent", "frame", "constFrame", "thread"}
    /\ j.spec = "extent" => IsExtents(j.extents) /\ j.warp \in 1 .. FrameElements /\ j.perItem \in Nat \ {0}
    /\ j.spec # "extent" => IsExtents(j.blocks) /\ IsExtents(j.threads) /\ Len(j.blocks) = Len(j.threads)
    /\ j.spec # "thread" => j.limit \in Nat \ {0}

LegalJob(j) ==
    /\ j.base \in Nat
    /\ LegalSpec(j)
    /\ LegalKernel(j.kernel)
    /\ j.api \notin HostApis =>
          \A m \in DOMAIN j.kernel : j.kernel[m].kind = "var" => j.kernel[m].bytes <= RoomOnGpu
    /\ j.api = "sycl" =>
          \A m \in DOMAIN j.kernel : j.kernel[m].kind = "var" =>
              \A i \in 1 .. (m - 1) : j.kernel[i] = j.kernel[m] => BarrierBetween(j.kernel, i, m)
ASSUME JobsAssumption == \A j \in Jobs : LegalJob(Resolved(j))

----------------------------------------------------------------------------
IsPowerOfTwo(x) == x \in {2^k : k \in 0..10}

(* getFrameSpec and AdjustThreadSpec (onHost/internal/interface.hpp,          *)
(* api/util.hpp): a proposed frame has extents that are powers of two, stays  *)
(* within the problem and is as large as it can be; the frames together, with *)
(* their elements per item, cover no more than the problem unless one frame   *)
(* does; the threads of a block are within the limit of the device and remain *)
(* powers of two, which the tree of a reduction relies on.                   *)
SpecIsUsable ==
    stage = "enqueue" \/
    /\ job.spec = "extent" =>
         LET f == frame.threads
             k == Times(Times(frame.blocks, f), [Fill(f, 1) EXCEPT ![Len(f)] = job.perItem])
         IN  /\ Product(f) <= FrameElements
             /\ \A d \in DOMAIN f : /\ IsPowerOfTwo(f[d]) /\ f[d] <= job.extents[d]
                                    /\ k[d] <= job.extents[d] \/ frame.blocks[d] = 1
             /\ \/ Product(f) = FrameElements
                \/ \A d \in 1..(Len(f) - 1) : 2 * f[d] > job.extents[d]
    /\ job.spec # "thread" =>
         /\ job.api \notin HostApis => Product(grid.threads) <= job.limit
         /\ \A d \in DOMAIN frame.threads :
               IsPowerOfTwo(frame.threads[d]) => IsPowerOfTwo(grid.threads[d])

(* BlockLayer and ThreadLayer of the devices, Serial, OmpBlocks, TbbBlocks:   *)
(* when a kernel is done, every pair of a block index and a thread index      *)
(* within the thread specification was seen by exactly one thread, whatever   *)
(* the native grid and the order of the blocks; a refused launch runs none.   *)
EveryThreadRunsOnce ==
    /\ stage = "done" =>
         count = [c \in IndicesBelow(grid.blocks) \X IndicesBelow(grid.threads) |-> 1]
    /\ stage = "thrown" => count = EmptyBag

Got(w, kinds) ==
    UNION {{v \in run[w].got[t] : v.kind \in kinds} : t \in DOMAIN run[w].got}

(* onAcc/Acc.hpp:148 "Reusing the id will return the same memory declared     *)
(* before with the same id": within a block, whichever thread declares it and *)
(* whether it is the first time or not.                                      *)
SameIdSameMemory ==
    \A w \in Workers : run[w] # Nothing =>
        \A u, v \in Got(w, {"var"}) : u.id = v.id => u.at = v.at /\ u.at \notin {Null, Garbage}

Overlap(a, m, b, n) == a < b + n /\ b < a + m

HeadersOf(w) == DOMAIN storage[w].header

(* test/unit/sharedMem/sharedMem.cpp:75 "Different id's should produce        *)
(* independant shared memory": variables of a block overlap neither each      *)
(* other nor a header of the storage, and are aligned.                       *)
VariablesAreSeparate ==
    \A w \in Workers : run[w] # Nothing =>
        \A v \in Got(w, {"var"}) :
            /\ \A u \in Got(w, {"var"}) : u.id # v.id => ~Overlap(u.at, u.bytes, v.at, v.bytes)
            /\ job.api \in HostApis =>
                 /\ \A h \in HeadersOf(w) : ~Overlap(h, HeaderSize, v.at, v.bytes)
                 /\ (job.base + v.at) % v.align = 0
                 /\ v.at + v.bytes <= storage[w].end

=============================================================================
