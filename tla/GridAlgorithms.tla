---------------------------- MODULE GridAlgorithms ----------------------------
(***************************************************************************)
(* onHost::inclusiveScan, exclusiveScan (onHost/algo/internal/scan.hpp) and *)
(* onHost::transformReduce (onHost/algo/internal/transformReduce.hpp): the  *)
(* kernels that the host enqueues one after the other, run by blocks of     *)
(* threads that share memory and meet at barriers.                         *)
(*                                                                         *)
(* Between two barriers a thread runs one phase, here one step; phases of   *)
(* several threads interleave.  That no two of them touch the same cell of  *)
(* shared memory is a property below, so the size of the step loses         *)
(* nothing.  Data are integers: element i is 2^i, so that a sum tells which *)
(* elements are in it.                                                     *)
(***************************************************************************)
EXTENDS Integers, Sequences, FiniteSetsExt, TLC

CONSTANTS Jobs, Nothing
(***************************************************************************)
(* A job is a record                                                        *)
(*   algo     "inclusive", "exclusive" or "reduce"                          *)
(*   n        number of elements, at least one                              *)
(*   inPlace  a scan overwrites its input                                   *)
(*   threads  threads of a block, a power of two                            *)
(*   els      elements per thread and chunk, a power of two                 *)
(*   mini     scan: elements that a thread scans by itself, a power of two  *)
(*   warp     warp size, which pads the shared memory of a scan             *)
(*   blocks   thread blocks that the device runs                            *)
(*   chunks   reduce: chunks (frames) of the grid                           *)
(* Powers of two: the host asks for chunks of 2048 elements, 256 threads or *)
(* what is left of them when they are halved; getSimdFrameSpec doubles. A   *)
(* chunk of a scan has at most those elements.                              *)
(***************************************************************************)
PowersOfTwo == {2^k : k \in 0..11}
ChunkSize == 2048
Legal(j) == /\ j.n > 0
            /\ {j.threads, j.els, j.mini} \subseteq PowersOfTwo
            /\ j.mini <= j.els
            /\ j.algo # "reduce" => j.threads * j.els <= ChunkSize
            /\ {j.warp, j.blocks, j.chunks} \subseteq Nat \ {0}

VARIABLES job,
          kernels,  \* the kernels enqueued and not finished, in order
          mem,      \* global memory: arrays "in", "out" and "buf"
          pos,      \* pos[b][t]: phases that thread t of block b has finished
          shared,   \* shared memory of each block
          reg       \* reg[b][t]: registers of a thread
vars == <<job, kernels, mem, pos, shared, reg>>

Chunk      == job.threads * job.els
Threads    == 0 .. job.threads - 1
CeilDiv(a, b) == (a + b - 1) \div b
Log2(m)    == CHOOSE k \in 0..11 : 2^k <= m /\ m < 2^(k + 1)
Undefined  == -100000000
SumOver(S, Op(_)) == MapThenSumSet(Op, S)

----------------------------------------------------------------------------
(***************************************************************************)
(* The host.                                                                *)
(***************************************************************************)
Whole(array, size) == [array |-> array, base |-> 0, size |-> size]

\* scanBufferSize: one sum per chunk on every level above the last.
ScanBufferSize(n, chunk) ==
    LET size[m \in 0 .. n] ==
            LET chunks == CeilDiv(m, chunk) IN IF chunks > 1 THEN chunks + size[chunks] ELSE 0
    IN  size[n]

\* scan: the sums of the chunks are scanned in place by the same algorithm,
\* which is given what is left of the buffer.
Arrays == [array : {"in", "out", "buf"}, base : Nat, size : Nat]
ScanKernels(type, in, out, next, chunk) ==
    LET from[ty \in {"inclusive", "exclusive"}, i \in Arrays, o \in Arrays, n \in Nat] ==
            LET chunks == CeilDiv(i.size, chunk)
                sums   == [array |-> "buf", base |-> n, size |-> chunks]
                scan   == [kind |-> "scan", type |-> ty, in |-> i, out |-> o, sums |-> sums]
            IN  IF chunks = 1 THEN <<[scan EXCEPT !.sums = Nothing]>>
                ELSE <<scan>> \o from["exclusive", sums, sums, n + chunks]
                              \o <<[scan EXCEPT !.kind = "increments"]>>
    IN  from[type, in, out, next]

\* The overloads that are given a buffer and those that allocate one of this size.
GetScanBufferSize(n) == ScanBufferSize(n, Chunk)
InclusiveScan(n)        == ScanKernels("inclusive", Whole("in", n), Whole("out", n), 0, Chunk)
InclusiveScanInPlace(n) == ScanKernels("inclusive", Whole("out", n), Whole("out", n), 0, Chunk)
ExclusiveScan(n)        == ScanKernels("exclusive", Whole("in", n), Whole("out", n), 0, Chunk)
ExclusiveScanInPlace(n) == ScanKernels("exclusive", Whole("out", n), Whole("out", n), 0, Chunk)

\* transformReduce: the output is filled before the kernel combines into it.
ReduceKernels(n) ==
    LET reduce == [kind |-> "reduce", type |-> "reduce", in |-> Whole("in", n),
                   out |-> Whole("out", 1), sums |-> Nothing]
    IN  <<[reduce EXCEPT !.kind = "fill"], reduce>>

Array(size, Value(_)) == [i \in 0 .. size - 1 |-> Value(i)]

Init ==
    /\ job \in Jobs
    /\ mem = LET unset(size) == Array(size, LAMBDA i : Undefined)
             IN  [in  |-> Array(job.n, LAMBDA i : 2^i),
                  out |-> IF job.inPlace THEN Array(job.n, LAMBDA i : 2^i)
                          ELSE unset(IF job.algo = "reduce" THEN 1 ELSE job.n),
                  buf |-> unset(IF job.algo = "reduce" THEN 0 ELSE GetScanBufferSize(job.n))]
    /\ kernels = CASE job.algo = "reduce" -> ReduceKernels(job.n)
                   [] job.algo = "inclusive" /\ ~job.inPlace -> InclusiveScan(job.n)
                   [] job.algo = "inclusive" /\ job.inPlace  -> InclusiveScanInPlace(job.n)
                   [] job.algo = "exclusive" /\ ~job.inPlace -> ExclusiveScan(job.n)
                   [] job.algo = "exclusive" /\ job.inPlace  -> ExclusiveScanInPlace(job.n)
    /\ pos = Nothing /\ shared = Nothing /\ reg = Nothing

----------------------------------------------------------------------------
(***************************************************************************)
(* A kernel of blocks.                                                      *)
(***************************************************************************)
Kernel     == Head(kernels)
NumChunks  == IF Kernel.kind = "scan" THEN CeilDiv(Kernel.in.size, Chunk) ELSE job.chunks
Blocks     == 0 .. Min({job.blocks, NumChunks}) - 1
ChunksOf(b) == (NumChunks - b - 1) \div Cardinality(Blocks) + 1

\* Scan: the cells of shared memory hold the sums of the mini blocks.
NumMini    == Chunk \div job.mini
ConflictFree(i) == i + i \div job.warp
Levels     == Log2(NumMini)

\* Phases per chunk of a scan: load, up-sweep, save, down-sweep, write back.
ScanPhases == 3 + 2 * Levels
\* Phases of a reduction: accumulate, aggregate, tree, read and combine.
ReducePhases == 4 + Log2(job.threads)
NumPhases(b) == IF Kernel.kind = "scan" THEN ChunksOf(b) * ScanPhases ELSE ReducePhases

PhaseName(p) ==
    IF Kernel.kind = "scan"
    THEN LET q == p % ScanPhases
         IN  CASE q = 0 -> "load"
               [] q \in 1..Levels -> "up"
               [] q = Levels + 1 -> "save"
               [] q \in Levels + 2 .. 2 * Levels + 1 -> "down"
               [] q = 2 * Levels + 2 -> "write"
    ELSE CASE p = 0 -> "accumulate"
           [] p = 1 -> "aggregate"
           [] p \in 2 .. ReducePhases - 3 -> "tree"
           [] p = ReducePhases - 2 -> "read"
           [] p = ReducePhases - 1 -> "combine"

\* Mutant: the tree of a reduction goes on without waiting.
NoBarrierInTree(p) == PhaseName(p) \notin {"read", "combine", "tree"}

\* syncBlockThreads: before every phase but the last two, which one thread runs
\* on what it wrote itself.
BarrierBefore(p) == PhaseName(p) \notin {"read", "combine"}

\* The indices of a loop over 0 .. count - 1 that thread t runs.
Mine(t, count) == {i \in 0 .. count - 1 : i % job.threads = t}

----------------------------------------------------------------------------
(***************************************************************************)
(* The phases of a scan.                                                    *)
(***************************************************************************)
\* Up-sweep level l combines NumMini / 2^(l+1) pairs that are 2^l apart;
\* down-sweep level l has 2^l pairs that are NumMini / 2^(l+1) apart.
Left(i, offset)  == ConflictFree(offset * (2 * i + 1) - 1)
Right(i, offset) == ConflictFree(offset * (2 * i + 2) - 1)
UpOffset(p)   == 2^((p % ScanPhases) - 1)
UpPairs(p)    == NumMini \div (2 * UpOffset(p))
DownLevel(p)  == (p % ScanPhases) - Levels - 2
DownPairs(p)  == 2^DownLevel(p)
DownOffset(p) == NumMini \div (2 * DownPairs(p))
LastCell      == ConflictFree(NumMini - 1)

\* What a thread loads: behind the last element there are zeros.
Load(b, t, p) ==
    LET first == (b + Cardinality(Blocks) * (p \div ScanPhases)) * Chunk + t * job.els
    IN  [i \in 0 .. job.els - 1 |->
            IF first + i < Kernel.in.size THEN mem[Kernel.in.array][Kernel.in.base + first + i]
            ELSE 0]

\* scanMiniBlock: up- and down-sweep over registers leave the exclusive scan of
\* the mini block and return its sum.
ScanMiniBlock(r, m) ==
    LET up[l \in 0 .. Log2(job.mini)] ==
            IF l = 0 THEN [i \in 0 .. job.mini - 1 |-> r[m * job.mini + i]]
            ELSE [i \in 0 .. job.mini - 1 |->
                    IF (i + 1) % 2^l = 0 THEN up[l - 1][i] + up[l - 1][i - 2^(l - 1)]
                    ELSE up[l - 1][i]]
        total == up[Log2(job.mini)][job.mini - 1]
        down[l \in 0 .. Log2(job.mini)] ==
            LET o == job.mini \div 2^l
                d == down[l - 1]
            IN  IF l = 0 THEN [up[Log2(job.mini)] EXCEPT ![job.mini - 1] = 0]
                ELSE [i \in 0 .. job.mini - 1 |->
                        CASE (i + 1) % (2 * o) = o -> d[i + o]
                          [] (i + 1) % (2 * o) = 0 -> d[i] + d[i - o]
                          [] OTHER -> d[i]]
    IN  [sum |-> total, scanned |-> down[Log2(job.mini)]]

MiniPerThread == job.els \div job.mini

\* The cells that a thread changes in a phase, and their values.
ScanWrites(b, t, p) ==
    LET s == shared[b]
    IN  CASE PhaseName(p) = "load" ->
               [c \in {ConflictFree(t * MiniPerThread + m) : m \in 0 .. MiniPerThread - 1} |->
                   ScanMiniBlock(Load(b, t, p),
                       CHOOSE m \in 0 .. MiniPerThread - 1 : c = ConflictFree(t * MiniPerThread + m)).sum]
          [] PhaseName(p) = "up" ->
               [c \in {Right(i, UpOffset(p)) : i \in Mine(t, UpPairs(p))} |->
                   s[c] + s[Left(CHOOSE i \in Mine(t, UpPairs(p)) : c = Right(i, UpOffset(p)), UpOffset(p))]]
          [] PhaseName(p) = "save" ->
               [c \in IF t = 0 THEN {LastCell} ELSE {} |-> 0]
          [] PhaseName(p) = "down" ->
               LET mine   == Mine(t, DownPairs(p))
                   lefts  == {Left(i, DownOffset(p)) : i \in mine}
                   rights == {Right(i, DownOffset(p)) : i \in mine}
                   pair(c) == CHOOSE i \in mine : c \in {Left(i, DownOffset(p)), Right(i, DownOffset(p))}
               IN  [c \in lefts \union rights |->
                       IF c \in lefts THEN s[Right(pair(c), DownOffset(p))]
                       ELSE s[c] + s[Left(pair(c), DownOffset(p))]]
          [] PhaseName(p) = "write" -> [c \in {} |-> 0]

ScanReads(t, p) ==
    CASE PhaseName(p) = "load"  -> {}
      [] PhaseName(p) = "up"    -> UNION {{Left(i, UpOffset(p)), Right(i, UpOffset(p))} : i \in Mine(t, UpPairs(p))}
      [] PhaseName(p) = "save"  -> IF t = 0 THEN {LastCell} ELSE {}
      [] PhaseName(p) = "down"  -> UNION {{Left(i, DownOffset(p)), Right(i, DownOffset(p))} : i \in Mine(t, DownPairs(p))}
      [] PhaseName(p) = "write" -> {ConflictFree(t * MiniPerThread + m) : m \in 0 .. MiniPerThread - 1}

\* Registers after a phase: load scans the mini blocks.
ScanRegisters(b, t, p) ==
    IF PhaseName(p) # "load" THEN reg[b][t]
    ELSE [i \in 0 .. job.els - 1 |->
            ScanMiniBlock(Load(b, t, p), i \div job.mini).scanned[i % job.mini]]

\* Write back: an element is its scan within the mini block and what precedes the
\* mini block; an inclusive scan reads its input again.
WriteBack(b, t, p) ==
    LET chunk == b + Cardinality(Blocks) * (p \div ScanPhases)
        first == chunk * Chunk + t * job.els
        out   == Kernel.out
        last  == Min({first + job.els, Kernel.in.size}) - 1
    IN  [mem EXCEPT ![out.array] = [i \in DOMAIN @ |->
            IF i - out.base \notin first .. last THEN @[i]
            ELSE LET e == i - out.base - first
                 IN  reg[b][t][e] + shared[b][ConflictFree(t * MiniPerThread + e \div job.mini)]
                     + (IF Kernel.type = "inclusive" THEN mem[Kernel.in.array][Kernel.in.base + first + e] ELSE 0)]]

\* Mutant: the sum is saved after the last cell is cleared.
SaveAfterReset(b, p) == [mem EXCEPT ![Kernel.sums.array][Kernel.sums.base + b + Cardinality(Blocks) * (p \div ScanPhases)] = 0]

\* Thread 0 saves the sum of the chunk for the next level.
SaveSum(b, p) == [mem EXCEPT ![Kernel.sums.array][Kernel.sums.base + b + Cardinality(Blocks) * (p \div ScanPhases)]
                                 = shared[b][LastCell]]

ScanMemory(b, t, p) ==
    CASE PhaseName(p) = "write" -> WriteBack(b, t, p)
      [] PhaseName(p) = "save" /\ t = 0 /\ Kernel.sums # Nothing -> SaveSum(b, p)
      [] OTHER -> mem

----------------------------------------------------------------------------
(***************************************************************************)
(* The phases of a reduction.  Cell e of a block sums what the worker of    *)
(* element e of the block's chunks gets; cells above the threads are        *)
(* added to the threads' own, and a tree combines those.                   *)
(***************************************************************************)
AllWorkers == job.chunks * Chunk
ShareOf(w) == SumOver({i \in 0 .. job.n - 1 : i % AllWorkers = w}, LAMBDA i : mem.in[i])

TreeOffset(p) == job.threads \div 2^(p - 1)

ReduceWrites(b, t, p) ==
    LET s == shared[b]
    IN  CASE PhaseName(p) = "accumulate" ->
               [e \in Mine(t, Chunk) |->
                   SumOver(0 .. ChunksOf(b) - 1,
                           LAMBDA k : ShareOf((b + k * Cardinality(Blocks)) * Chunk + e))]
          [] PhaseName(p) = "aggregate" ->
               [c \in {t} |-> s[t] + SumOver(Mine(t, Chunk) \ Threads, LAMBDA e : s[e])]
          [] PhaseName(p) = "tree" ->
               [c \in IF t < TreeOffset(p) THEN {t} ELSE {} |-> s[t] + s[t + TreeOffset(p)]]
          [] OTHER -> [c \in {} |-> 0]

ReduceReads(t, p) ==
    CASE PhaseName(p) = "accumulate" -> {}
      [] PhaseName(p) = "aggregate"  -> Mine(t, Chunk)
      [] PhaseName(p) = "tree"       -> IF t < TreeOffset(p) THEN {t, t + TreeOffset(p)} ELSE {}
      [] PhaseName(p) = "read"       -> {}
      [] PhaseName(p) = "combine"    -> IF t = 0 THEN {0} ELSE {}

\* Atomic update as the back-ends emulate it: compare with what was read, and
\* swap, or take the present value and try again.
Combine(b) == IF mem.out[0] = reg[b][0]
              THEN /\ mem' = [mem EXCEPT !.out[0] = reg[b][0] + shared[b][0]]
                   /\ reg' = [reg EXCEPT ![b][0] = Nothing]
              ELSE /\ reg' = [reg EXCEPT ![b][0] = mem.out[0]]
                   /\ UNCHANGED mem

----------------------------------------------------------------------------
Cells == IF Kernel.kind = "scan" THEN 0 .. LastCell ELSE 0 .. Chunk - 1

\* The queue starts the next kernel of blocks.
StartKernel ==
    /\ kernels # <<>> /\ pos = Nothing
    /\ Kernel.kind \in {"scan", "reduce"}
    /\ pos' = [b \in Blocks |-> [t \in Threads |-> 0]]
    /\ shared' = [b \in Blocks |-> [c \in Cells |-> Undefined]]
    /\ reg' = [b \in Blocks |-> [t \in Threads |-> [i \in 0 .. job.els - 1 |-> Undefined]]]
    /\ UNCHANGED <<job, kernels, mem>>

\* May thread t of block b run its next phase?  A barrier holds it until all
\* threads of the block have finished what precedes.
Runnable(b, t) ==
    LET p == pos[b][t]
    IN  /\ p < NumPhases(b)
        /\ BarrierBefore(p) => \A u \in Threads : pos[b][u] >= p

Finish(b, t) == pos' = [pos EXCEPT ![b][t] = @ + 1]

ScanPhase(b, t) ==
    LET p == pos[b][t]
    IN  /\ Kernel.kind = "scan"
        /\ Runnable(b, t)
        /\ shared' = [shared EXCEPT ![b] = ScanWrites(b, t, p) @@ @]
        /\ reg' = [reg EXCEPT ![b][t] = ScanRegisters(b, t, p)]
        /\ mem' = ScanMemory(b, t, p)
        /\ Finish(b, t)
        /\ UNCHANGED <<job, kernels>>

ReducePhase(b, t) ==
    LET p == pos[b][t]
    IN  /\ Kernel.kind = "reduce"
        /\ Runnable(b, t)
        /\ shared' = [shared EXCEPT ![b] = ReduceWrites(b, t, p) @@ @]
        /\ CASE PhaseName(p) = "read" /\ t = 0 ->
                  /\ reg' = [reg EXCEPT ![b][0] = mem.out[0]]
                  /\ Finish(b, t)
                  /\ UNCHANGED mem
             [] PhaseName(p) = "combine" /\ t = 0 ->
                  /\ Combine(b)
                  /\ IF reg'[b][0] = Nothing THEN Finish(b, t) ELSE UNCHANGED pos
             [] OTHER -> Finish(b, t) /\ UNCHANGED <<mem, reg>>
        /\ UNCHANGED <<job, kernels>>

\* Scan_AddIncrementsKernel and the fill of the output: every element by itself.
SimpleKernel ==
    /\ kernels # <<>> /\ pos = Nothing
    /\ LET out == Kernel.out
       IN  \/ /\ Kernel.kind = "increments"
              /\ mem' = [mem EXCEPT ![out.array] = [i \in DOMAIN @ |->
                            IF i - out.base \notin 0 .. out.size - 1 THEN @[i]
                            ELSE @[i] + mem[Kernel.sums.array][Kernel.sums.base + (i - out.base) \div Chunk]]]
           \/ /\ Kernel.kind = "fill"
              /\ mem' = [mem EXCEPT !.out[0] = 0]
    /\ kernels' = Tail(kernels)
    /\ UNCHANGED <<job, pos, shared, reg>>

\* A kernel ends when all its threads have.
EndKernel ==
    /\ pos # Nothing
    /\ \A b \in Blocks : \A t \in Threads : pos[b][t] = NumPhases(b)
    /\ kernels' = Tail(kernels)
    /\ pos' = Nothing /\ shared' = Nothing /\ reg' = Nothing
    /\ UNCHANGED <<job, mem>>

Next == \/ StartKernel \/ SimpleKernel \/ EndKernel
        \/ /\ pos # Nothing
           /\ \E b \in Blocks : \E t \in Threads : ScanPhase(b, t) \/ ReducePhase(b, t)

Spec == Init /\ [][Next]_vars

----------------------------------------------------------------------------
Done == kernels = <<>>
Preceding(i) == SumOver(0 .. i - 1, LAMBDA k : 2^k)

\* A scan writes the sum of all elements before each one (and of that one too, if
\* inclusive), whatever the number of levels, the mini blocks, the padding, the
\* ragged end, and whether it overwrites its input; the increments of all levels
\* fit into the buffer that scanBufferSize() asks for.
ScanIsPrefixSum ==
    job.algo # "reduce" =>
        /\ Done => \A i \in 0 .. job.n - 1 :
              mem.out[i] = Preceding(i) + (IF job.algo = "inclusive" THEN 2^i ELSE 0)
        /\ \A k \in DOMAIN kernels : kernels[k].sums # Nothing =>
              kernels[k].sums.base + kernels[k].sums.size <= Cardinality(DOMAIN mem.buf)

\* A reduction takes every element exactly once, however many blocks update the
\* result, and however chunks, workers and elements relate in number.
ReduceIsExact == job.algo = "reduce" /\ Done => mem.out[0] = Preceding(job.n)

\* Whenever two threads of a block may run, neither writes a cell that the other
\* touches.
Reads(t, p) == IF Kernel.kind = "scan" THEN ScanReads(t, p) ELSE ReduceReads(t, p)
Writes(b, t, p) == DOMAIN IF Kernel.kind = "scan" THEN ScanWrites(b, t, p) ELSE ReduceWrites(b, t, p)
SharedMemoryIsNotRaced ==
    pos # Nothing =>
        \A b \in Blocks : \A t, u \in Threads :
            t # u /\ Runnable(b, t) /\ Runnable(b, u)
                => Writes(b, t, pos[b][t]) \intersect
                       (Reads(u, pos[b][u]) \union Writes(b, u, pos[b][u])) = {}
=============================================================================
