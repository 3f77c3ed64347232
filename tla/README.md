# alpaka: models of the library

TLA+ modules, TLC configurations and TLAPS proofs for alpaka (`src/include/alpaka`),
a header-only library that runs one kernel source on CPUs, CUDA/HIP and SYCL devices.
`PROJECT.json` maps every definition to the lines it models. File names and line numbers
below are relative to `src/include/alpaka`.

## 1. The system

A program obtains a device from a platform, makes *queues* on it, enqueues copies,
fills, host functions and kernels, orders queues with *events*, and holds memory in
reference-counted *buffers*. A kernel is launched as a grid of blocks of threads; in
it, *index containers* deal the indices of a range out to *worker groups*, threads of
a block share memory and meet at barriers, lanes of a warp vote and exchange values,
and all threads meet in atomic operations and fences.

| Component | State | Operations | Hard behaviour | What makes it correct |
|---|---|---|---|---|
| Callback thread (`core/CallbackThread.hpp`) | packages, stop token, mutex and condition, a promise per task | `submit`, `isEmpty`, destructor, worker loop | lost notifications, stop against submit, throwing tasks, destruction by its own task | a fair serial executor; a future is ready only when the task object is gone |
| Host queue (`api/host/Queue.hpp`) | a callback thread, `m_isBlocking`, `m_mutex`, `m_isBlockingTaskExecuted` | `enqueue`, `enqueueHostFn`, `...Deferred`, `wait`, `isEmpty`, destructor | several threads, execution in the caller against deferred execution, exceptions | `wait` and destruction cover earlier work, `isEmpty` hides nothing, calls return |
| Host event (`api/host/Event.hpp`) | counts of enqueues and of signals, future, mutex | enqueue, `waitFor`, `wait`, `isComplete`, destructor | enqueued again while a signal travels, several queues | complete only after what precedes; no deadlock |
| Memory and queue lifetime (`onHost/mem`, `api/host/Device.hpp`) | reference counts, destructor actions, weak registry of queues | `alloc`, `allocDeferred`, `keepAlive`, `destructorWaitFor`, `Device::wait` | destructors run on any thread, wait for queues, enqueue operations | no use after free, no leak, destructors return |
| CUDA/HIP and SYCL queue (`api/unifiedCudaHip`, `api/syclGeneric`, `api/oneApi`) | native in-order queue, callback thread, SYCL's last event | the host queue's | host functions run between two executors, `~Queue` in its own callback thread, submit and store in two steps | the host queue's promises |
| Platform and device registry (`api/*/Platform.hpp`, `api/*/Device.hpp`) | a platform per kind, weak devices, shared SYCL contexts, the current device of a thread | make platform, device, queue; drop; allocate; `isDataAccessible` | objects expire while others look for them; a reset of a whole device | one device per index, resets and frees spare what is in use |
| Handles and views (`mem/View.hpp`, `mem/MdSpan*.hpp`, `onHost/mem/SharedBuffer.hpp`) | pointer, extents, pitches, owner | sub-view, conversion, iteration, copy, fill | constness through chains of conversions, padding, borders as large as the view | handles point where they should; copies move every element and nothing else |
| Frame specifications and executors (`onHost`, `api/*/Executor`) | frame, grid, next block per worker | `getFrameSpec`, launch, adjustment to limits, default executor | rounding, extents smaller than a frame, concurrent blocks that reuse storage | every element in one frame; every thread once, with its own index |
| Block shared memory (`api/host/block/mem`, `api/oneApi/StaticSharedMemory.hpp`) | byte array with headers, or a table of pointers | declare variable, dynamic memory, barrier | declared by several threads, again, at any alignment | variables are disjoint, aligned and the same for all threads |
| Index containers, worker groups, ranges (`mem/*IdxContainer.hpp`, `mem/IdxRange.hpp`, `onAcc/WorkerGroup.hpp`) | an iterator per thread | `begin`, `end`, `++`, slicing, scaling, shifting, casting | remainders, empty ranges, strides, index types that wrap | every index once per group, in the promised layout |
| SIMD loops, transform, reduce, iota, scan (`onAcc/SimdAlgo.hpp`, `onHost/algo`) | packs, partial results in shared memory | main loop and remainder; sweeps, sums of blocks | rows not divisible by packs; barriers between levels | every element once; the sequential result |
| Boundary iteration (`mem/BoundaryIter.hpp`) | direction | part of a direction, `++` | halos as large as the range | the parts partition it |
| Random numbers (`rand`) | counter, key, position, cached deviate | next, skip, distributions | carries, rounding at the ends of an interval | consecutive numbers; values inside the interval |
| SIMD packs and masks, vectors (`Simd.hpp`, `simd`, `Vec.hpp`) | lanes | load, store, operators, masks, where, reductions, named access | masks of words against masks of booleans, aliasing of lanes | every lane as if it were computed alone |
| Complex numbers (`math/internal/Complex.hpp`) | real and imaginary part | operators and functions | operands that alias the result, formulas | what `std::complex` gives |
| Atomic operations (`onAcc/atomic.hpp`, `api/*/atomic.hpp`) | a cell | `atomicOp` | emulation by compare-and-swap, NaN, wrapping words | the functor in one step; calls return |
| Warp functions (`api/*/warp.hpp`) | lanes of a branch | votes and exchanges | divergence, groups within a warp | only lanes that take part count |
| Memory fences (`api/*/memFence.hpp`) | none | fence of an order and a scope | orders a back-end lacks | at least the order and the scope asked for |
| Dictionaries, tuples, tags; logging | – | – | – | not modelled (section 7) |

How they interact. A non-blocking host queue gives every operation to its callback
thread, a blocking one executes it in the caller under `m_mutex` and uses the callback
thread for deferred operations only. Native queues run operations in a stream of the
vendor and hand host functions to a callback thread, for which the stream waits. Events
are enqueued as operations that advance the event's count and hold a reference of it. The
owner of a buffer runs its destructor actions (waits for queues) and its free operation
(which may enqueue into a queue it keeps alive) on whichever thread drops the last
reference, the worker of a queue included. A device holds its platform, a queue its device;
in the other direction there are only weak references. A launch asks the device for
its limits, makes a grid, and lets workers take blocks; kernels use everything below it in
the table.

## 2. Modules

```
SerialExecutor <--refines-- CallbackThread --instance--> HostQueue
                            CallbackThreadProofs <--instance-- QueueAndAtomicsProofs
                            MCCallbackThread
 (its phases stay visible)  HostEvent --> HostEventProofs
                            HostMemory --> MCHostMemory + MemoryAndDataProofs
                            NativeQueue --> NativeQueueProofs

Registry --> MCRegistry + DeviceMemory, Handles --> RegistryProofs

AtomicMemory <--refines-- Atomics --> QueueAndAtomicsProofs, MCAtomics

IndexSpace --> WorkerGroup --> FlatIdxContainer, TiledIdxContainer --> IdxMap, SimdAlgo
           --> DataLayout  --> ViewOps, Handles, RangeWalk (with FlatIdxContainer)
BlockShared --> KernelLaunch --> MCKernels + MCLoops, IdxMap, SimdAlgo, GridAlgorithms,
                                             Warp, MemFence, RangeWalk, ComplexMath,
                                             RandomEngine --> RandomNumbers
FloatingPoint --> RandomNumbers, MCKernels, LaunchProofs
               KernelLaunch --> LaunchProofs,  MCKernels + LaunchProofs --> KernelProofs
ViewOps --> MCData + LaneOps --> MemoryAndDataProofs (with HostMemory)
```

`MC*` modules give constants their values. `MCRegistry`, `MCData` and `MCKernels` hold
several specifications with variables of their own: one is chosen in the initial
state and the variables of the others stay idle. This is how a run asks several
questions; nothing is shared between them.

**SerialExecutor** is the abstract promise: accepted tasks wait in a sequence, one at a
time is active, each gets one outcome, nothing is accepted after closing; the fair
version finishes every accepted task.

**CallbackThread** is the class step by step. `tasks` is `State::m_tasks`, in which a
package that was moved from leaves the empty slot `NoTask`; `current` and `eptr` are
the locals of the worker loop; `objects` are the live `FunctionHolder`s; `future` the
shared state of each promise; `stop` the stop token. Each critical section is a step
because it is under one mutex, with one exception: the worker that finds its wait
predicate false keeps the mutex until it sleeps (`WorkerCheck`, `WorkerSleep`), so a
notification in between could get lost, were it not for the mutex. After the take the
worker's actions follow the program order: run, pop, destroy the object, set the promise.
The worker is also a caller, because a task body and the destructors of captures may submit
tasks or destroy the object, in which case the thread is detached (`DtorDetach`).

**HostQueue** instantiates `CallbackThread` for the worker and adds the callers:
`at`/`op`/`arg` are the position, member function and operation of each caller, `lock`
is `m_mutex`, `busy` is `m_isBlockingTaskExecuted`, `direct` the state of operations
executed by their caller. `wait` is the test followed by a marker operation, as in the
code, so the two can be separated by steps of others. `preceding` and `before` are
history variables.

**HostEvent** has many queues. It takes from `CallbackThread` what the refinement
shows (each worker is a serial executor, whose four phases stay visible) and models
events in full: `event[e]` has the code's three fields; the captures of each operation
(count, future) are in `ops`. Blocking queues signal an enqueued event on the spot,
without `m_mutex`, as the code does.

**HostMemory** models owners as sets of named references. A destructor becomes a
sequence of steps in `todo` of the thread that dropped the last reference, so
destructors of different threads interleave, and one destructor may start another
(that of a buffer drops the last reference of its queue, and the queue is then drained).

**NativeQueue** is a stream of numbered operations that an external runtime completes in
order. A host function at its front submits itself to the callback thread and, unless
deferred, waits for its future. `last` is SYCL's `m_lastEvent`, stored in a step after
the submission. `~Queue` is three steps (`sync`, `members`, `dead`) in the thread of the
program or of the callback thread that gave up the last handle.

**Registry** has the singleton platform of each device kind (`singleton`), the table of
weak devices of a platform (`cache`), devices, queues, and the SYCL contexts that
kinds share. `lock` is the mutex under which a platform is made. A critical section is a step unless
it calls code that is not protected. **DeviceMemory** adds which device is current in a
thread and where memory lies. **Handles** derives handles from handles; every operation
exists for a constant and a mutable object and states which of its elements may be changed.

**AtomicMemory** applies an operation to a cell in one step. **Atomics** is how the
back-ends do it: an instruction, a loop of load, compute and compare-and-swap, or the
plain functor where the block has one thread.

**IndexSpace**, **WorkerGroup**, **FlatIdxContainer**, **TiledIdxContainer**,
**DataLayout** are pure functions: vector operations, ranges, chunks, the thread space of a
selection; which worker a thread is; `begin`, `end`, `++` and `*` of both traversals in both
layouts; pitches, sub-views and borders. **IdxMap** is the `for` loop of a kernel over a
container; **SimdAlgo** the loops over packs; **RangeWalk** makes a range, scales, shifts
and casts it, and walks it with indices modulo 2^w. In these, threads share nothing, so one
after another is enough.

**KernelLaunch** goes from a specification to a grid and then lets workers take blocks
and threads declare shared memory (**BlockShared**), on CUDA/HIP, SYCL, and the host
executors. On SYCL the warp size is the largest sub-group the device reports, capped on
CPUs, and a launch needs a kernel instantiated for it (`Warpsize::Dispatch`), compiled for the
target (`core/syclConfig.hpp`) and supported by the device; else it throws and runs nothing. **GridAlgorithms** is the list of kernels a scan or reduction enqueues; the
phases of threads between two barriers interleave. Element i is 2^i, so a sum tells which
elements are in it. **Warp** holds in each lane the bag of lanes its value is made of.
**MemFence** has a memory with views: a fence publishes what its thread has seen, within
a block or a device.

**ViewOps** lists the native calls of a copy or fill and executes them byte by byte.
**RandomEngine**, **RandomNumbers** are Philox and the distributions over short words, with
the rounding of **FloatingPoint**: a real is a multiple of one over a power of two, and a number with q significands is a
multiple of its spacing below q times it;
**LaneOps** runs programs on a pack, a mask, memory and a scalar next to a lane-by-lane
reference; the word with all bits set and the bitwise operators of the compiler are constants of it; **ComplexMath** runs programs on the device's complex numbers next to `std::complex`,
both as power series.

## 3. Runs

| Run | Shows | Bounds | Size |
|---|---|---|---|
| `CallbackThread` | refinement of the fair `SerialExecutor`; futures after destruction; the destructor ends the worker | 3 tasks, 2 clients | 1.5 k states |
| `HostQueue` | `wait` and destruction cover work, order of deferred operations, `isEmpty`; calls return and work finishes | both kinds; 2 operations, one may throw, 2 markers, 2 clients | 134 k |
| `HostEvent` | an event enqueued again in several queues; no deadlock | 2 non-blocking queues and 2 threads, or these and a blocking one with 1 thread; 1 event, 3 operations | 513 k |
| `HostMemory` | no use after free; `Device::wait`; what is given up is destroyed | 1 buffer, 4 calls; 1 thread with 2 queues or 2 threads with 1 | 383 k |
| `NativeQueue` | order, completion, memory and destruction of CUDA/HIP and SYCL queues | 2 runtimes, blocking or not, 2 threads, 2 operations and a buffer | 482 k |
| `Registry` | one device per index, resets, contexts; buffers; handles | 2 threads, 2 kinds, 3 platforms, 3 devices, 2 queues, 4 calls; 2 devices, 2 buffers; 3 handles, 3 operations | 1.06 M |
| `Atomics` | refinement of `AtomicMemory`; calls return | words of 2 bits, special floats, 2 threads, 1 and 2 calls, 4 back-ends | 100 k |
| `Kernels` | launches, shared memory, loops, scans and reductions, warps, fences, ranges, complex numbers, random numbers | see below | 347 k |
| `Data` | copies, fills, borders; packs and masks | see below | 250 k |

Why the bounds suffice. *CallbackThread*: three tasks give a task in hand, one waiting
and one to come, the smallest number that tells a queue from a stack while the worker is
busy; two clients and the worker give a submit, a destruction and a loop that overlap.
*HostQueue*: two operations, one deferred and one not or both alike, and a wait of
each client. *HostEvent*: three operations are two enqueues of one event in two queues
with work in front of one, or an enqueue, a wait for it and work on one side; every hazard
needs at most two travelling signals. *HostMemory*: four calls are a use, a `keepAlive`,
a `destructorWaitFor` and a wait for the device; the second queue is the one a destructor
reaches that runs on the worker of the first. *NativeQueue*: two operations besides the buffer
are the pair whose order can go wrong, in two executors. *Registry*: three platforms and devices
let an object expire and be made again while a second thread looks for it.
*Atomics*: a call that fails its compare-and-swap, retries and is overtaken again needs two
calls of the other thread; words of two bits wrap in every sum.

*Kernels*: extents of 1 to 20 elements in one to three dimensions around a frame of 8, devices
with warps of 1, 2 and 4 and limits of 1 to 8; grids of one to four dimensions on six back-ends;
three declarations of 1 to 12 bytes per kernel in blocks of one to three threads, two blocks at a time;
loops over no positions, fewer than, as many as and more than the workers; packs of one to four
lanes over rows of 0 to 24; scans of up to 13 elements and four levels; every warp
function in every branch of a warp of four; message passing with every pair of fences and
store buffering with strong ones; ranges with words of 8 and 32 values, cast to 16, and borders in one to four
dimensions; complex programs of two operations; engines with words of three bits, counters next to
every carry and floats of two significant bits, so that rounding does happen. *Data*: views of one to
five dimensions of extents 0 to 3, padded or not; programs of three operations on packs of one to four lanes,
of words of two bits.

Calls, operations and steps are counted up to `MaxCalls`, `MaxOps` and the like: these
are bounds of the instances, not of the program. The constants of the code that are scaled are
`FrameElements` (512 in the code, 8 here) and the widths of words. `HeaderSize` and
`MinAlign` are those of the code's types. Symmetry of threads is used in `Registry`, which has invariants only.
`CallbackThread`, `HostQueue`, `HostEvent` and `HostMemory` check for deadlock: a state in which
all are done stutters (`Terminated`), so a deadlock would be one of the program. The other runs end
where the kernel, the program or the bound on calls does; in `NativeQueue` and `Atomics` the
liveness properties would report a thread that is stuck.

Every property of a passing run has a variant of one definition in `PROJECT.json` with a
plausible bug (a missing notification, a pop that comes too early, an event captured by
reference, ...) that the property detects.

### Disagreements shown by a run

| Run | What it shows |
|---|---|
| `Kernels_offset` | the constructor of the scalar Philox engine loses the part of the offset that lies within a block (`rand/engine/philox/PhiloxSingle.hpp:113`) |
| `Kernels_all` | `all()` on an AMD device under SYCL is false whenever lane 0 is in another branch: `activeMask & predicateMask == activeMask` compares first (`api/oneApi/warp.hpp:86`) |
| `Registry_alloc` | CUDA/HIP allocations land on the device that is current in the thread instead of the given one (`api/unifiedCudaHip/Device.hpp:210`, against `onHost/Device.hpp:172`) |

### Disagreements met while modelling

The models follow the code, and the passing properties are stated so as to exempt, or the inputs
so as to leave out, exactly these cases.

Queues and devices:

* `wait()` on a blocking queue does not see deferred operations (`api/host/Queue.hpp:284`;
  `docs/source/tutorial/events.rst:13` promises all work). An exception in a
  blocking operation leaves the flag raised (`:125`), so `isEmpty()` stays false
  (against `onHost/Queue.hpp:208`).
* A deferred host function of a CUDA/HIP queue whose last handle is dropped calls
  `getSharedPtr` on a dying queue (`api/unifiedCudaHip/Queue.hpp:384`), which throws; the run
  `NativeQueue` has `DropAnytime = FALSE` (`docs/source/tutorial/queue.rst:16` allows it).
* A SYCL kernel enqueued with a frame specification is not stored as the last event
  (`api/oneApi/Queue.hpp:684`, against `api/syclGeneric/Queue.hpp:296`), and two threads may store
  theirs in the wrong order; `EmptyMeansDone` exempts the second and the run leaves out the first.
* `getFreeGlobalMemBytes` of CUDA/HIP measures the current device (`api/unifiedCudaHip/Device.hpp:146`).

Indices and launches:

* `begin()` of a sliced, flat, contiguous container uses the counts of the unmapped thread
  space (`mem/FlatIdxContainer.hpp:226`), so indices are left out when another dimension has several workers.
* `mapTo()` folds two or more unselected dimensions of several workers wrongly
  (`mem/ThreadSpace.hpp:83`), so slots are used twice or never.
* The index of a warp in the grid lacks the factor warps per block
  (`onAcc/internal/interfaceImpl.hpp:77`, against `onAcc/WorkerGroup.hpp:120`).
* The adjustment of a compile-time frame (`api/util.hpp:22`) does not compile for, e.g., `<8, 8>` or
  `<1, 64>` and a limit of 8.
* `makeDirectionSubRange` leaves the lattice of a stride other than one (`mem/IdxRange.hpp:140`);
  `++` of a finished direction iterator does not end where assertions are off
  (`mem/BoundaryIter.hpp:184`); the deduction guide at `mem/IdxRange.hpp:193` names the begin
  where the template has the end; `getSubView(BoundaryDirection)` exists for constant views only.
* `CArrayType` of a three-dimensional array span has the bounds `[E0][E0][E2]`
  (`mem/MdSpanArray.hpp:48`), which `declareSharedMdArray` reaches; a copy of a constant span is
  mutable (`mem/MdSpanArray.hpp:167`).
* The pointer to dynamic shared memory on a CPU is that of the last element of its chunk
  (`api/host/block/mem/SingleThreadStaticShared.hpp:43`, against `onAcc/Acc.hpp:189`). On SYCL a variable declared
  again without a barrier in between may be stale (`api/oneApi/StaticSharedMemory.hpp:88`).

Arithmetic:

* A floating point `Cas` on the host compares values, not bits (`api/host/atomic.hpp:211`).
* The offset of the vector engine counts blocks though it is documented as numbers (`rand/engine/philox/philox.hpp:98`), and its first
  block is dropped. The shuffle has eleven rounds (`rand/engine/philox/PhiloxStateless.hpp:100`). A uniform real of an interval closed
  above may exceed the maximum when `max - min` rounds up (`rand/distribution/UniformReal.hpp:353`: the float bounds
  -1 and 33554430 give 33554432), and
  two draws in one expression are unsequenced (`:149`).
* `shflXor` on SYCL returns the lane's own value in a higher group when the mask reaches the width
  (`api/oneApi/warp.hpp:190`; `Excepted` in `Warp`).
* A conversion or constructor of a mask may store 1 or raw values instead of all ones
  (`SimdMask.hpp:503`, `simd/internal/EmuSimdMask.hpp:77`). A compound assignment under `where`
  evaluates lanes that are masked off (`SimdWhereExpr.hpp:56`). Masks of one- and two-byte types, `copyFrom`/`copyTo` and
  mask-to-mask compound assignment of `EmuSimdMask` do not compile. `iotaCVec` is documented to
  start at 1 and starts at 0 (`CVec.hpp:124`, `:135`).
* `operator>>` of `Complex` takes a constant reference and assigns to it
  (`math/internal/Complex.hpp:352`).

## 4. Fairness

* Workers and callback threads: `WF` of their next step. The operating system runs the
  thread, and operations return. This is the only assumption on programs.
* The vendor's stream completes the operation at its front, and an event of another queue
  is signalled eventually (`Runtime`, `Signal` of `NativeQueue`): a property of the runtime, and of the program
  that has to enqueue the other event.
* A destructor that has begun and a thread in the middle of a call proceed: `WF` where nothing
  competes (`DtorJoin`, `ThreadStep`, `ClientStep`, `Step` of `Atomics`), `SF` where the caller
  contends for `m_mutex` of a blocking queue (`CallStep` of `HostQueue` and `HostEvent`):
  `std::mutex` is not fair, but the holder always releases it and the operating system
  does not starve a waiter for ever. A compare-and-swap loop of one thread needs no strong fairness: the others
  make finitely many calls.
* Nobody is obliged to call anything: submits, new calls, drops, spurious wake-ups have
  no fairness.

## 5. Proofs

**CallbackThreadProofs** holds for all sets of tasks and clients, under the named
assumptions of the module (the null task is no task, the worker is no client, nobody
is no thread, throwing tasks are tasks). The safety properties are not inductive: that a future
is ready only after the object is gone depends on which task the worker has in hand,
and that on the slot it left in the queue. The invariant

    IInv == TypeOK /\ SlotsInv /\ CurrentInv /\ LifeInv /\ EndInv

says that only the front slot may be empty, exactly while its task runs, and the other
slots hold the distinct pending tasks (`SlotsInv`); that the worker's locals describe
the task in hand (`CurrentInv`); that a task object lives from its submission to its
destruction by the worker and its future becomes ready later (`LifeInv`); and that the
thread ends only when stopped and drained (`EndInv`). `Init => IInv`, one lemma per
kind of step, and temporal reasoning give `Invariance`; from it follow `TypeCorrect`,
`FutureReadyMeansDestroyed`, `EmptyQueueIsIdle`, `TakenTaskExists` (the `assert(task)`
of the loop), `ReadyFuturesMeanEmptyQueue`, `OutcomesAreNotMixedUp` and
`JoinedExecutorIsDrained`; of these the run checks the properties `PROJECT.json` names, the
others are proved only. `Refinement` proves `Spec => ImplementsSerialExecutor` with
the mapping: waiting tasks are the slots except an emptied front one, the active task
is `current`, the result is the future's value, closed means that the destructor has
begun. Run, pop and object destruction map to stuttering, the rest to a step of the executor.
`SubmitOrders`, `OrderStays` and `OrderedIsOver` say what users of the object need: a task that is
submitted is ordered behind all that were, stays so, and finds them over when it starts.

**QueueAndAtomicsProofs** is about two components that share nothing but the file. Its first part holds for any operations, markers and threads of a blocking or non-blocking
queue. It instantiates `CallbackThreadProofs`: every step of the queue is a step or a stutter of
its callback thread, so the theorems of that module are used here and not proved again. On top,

    IInv == CTP!IInv /\ Types /\ Calls /\ Apart /\ Direct /\ DeferredInOrder

says that a caller is where its member function may be and that what it waits for is in front of its marker
(`Calls`), that calls have operations of their own and a destructor is alone (`Apart`), that only
the holder of `m_mutex` executes and the flag covers it (`Direct`), and that a deferred operation is
behind what was enqueued before it. `CallMoves` puts the invariant together for a step of one call, so
each action's lemma argues about its own caller only. From it follow `ReturnsCoverWork` (wait and
destructor), `EmptyQueueHasFinished` and `DeferredIsLate`: all the safety properties of the run.

**HostEventProofs** proves all the safety properties of the run `HostEvent`, for any queues, events,
threads and operations, deduced from one observation: a queue finishes its operations in the order they
entered (`InOrder`). An incomplete event has exactly one signal on its way that carries the event's
count (`Signals`), this is the operation of `m_future`, and what the event stands for is in front of it
(`Events`). So an event that completes has its work behind it (`EventsFollowTheirWork`); a thread or a
queue that has copied the future finds the work finished when the future is set, whatever was
enqueued meanwhile (`WaitsCoverTheirWork`, `LaterWorkAwaits`); and an event that nobody
refers to has no signal left, so its destructor does not block (`DestructorsDoNotBlock`).

**MemoryAndDataProofs** is about two components that share nothing but the file. Its first part proves both
safety properties of the run `HostMemory`, for any threads, queues, buffers and programs. Freeing happens in whichever thread drops the last handle, in a destructor of
several steps, and other threads may be in destructors of their own. In

    IInv == Types /\ Registered /\ Busy /\ Keeps /\ Referenced /\ Uses /\ Freeing /\ FreeOps /\ Debts

an operation that uses a buffer and is not done is protected by the handle of the thread that
enqueued it, or by what that thread left behind: an operation behind it that keeps the buffer, a
destructor action that waits for its queue, or the buffer being the queue's own (`Uses`). When the
last reference is gone nobody can add uses, so it is enough to say of the steps that the destructor
still has in front of `freeOp()` that each use is awaited by one of them or is in the queue into
which `freeOp()` enqueues the release (`Freeing`), and of a release that is in a queue that the uses that are
left are in front of it (`FreeOps`). `MemoryOutlivesUses` follows. `Debts` relates what a
`Device::wait` still owes (`owed`) to the steps it has left, which gives `DeviceWaitCovers`.

Its second part, `PacksStayLanewise`, proves `PacksAreLanewise` of the run `Data` for packs and memory of every
size, programs of every length and words of any number of bits but one: of the bitwise operators it is assumed
only what they do with no bits, all bits and equal words (`WordsAssumption`). The scalars are a function of the packs in

    LanesInv == packs, mask and memory of legal sizes /\ scalar = ScalarsOf(pack, mask, cells)
                  /\ every lane of the mask is 0 or Truth /\ out.got = out.expected /\ ~fault

where `Truth` is all bits set for masks of words on arrays and one otherwise. The property says of a lane only whether it is
zero; a blend is a choice (`BlendIsChoice`) because it is nothing but 0 or `Truth`, and this is kept by
comparisons (`CastIsTruth`) and by a lane that is set through a reference (`AssignedRefIsTruth`). The other lemmas
are about what the code does differently from the scalars: an access is aligned where it claims to be (`AccessesAreAligned`),
a store overwrites the middle of the memory (`Overwritten`), references of selected lanes are
assigned one after the other (`AssignedOnce`, an induction over the number of lanes; the names of lanes differ,
`NamesDiffer`), and a reduction by halves joins neighbours only and keeps their order
(`ReductionKeepsOrder`, an induction over the sizes), so it needs no commutative operator.

**NativeQueueProofs** proves the three safety properties of the run `NativeQueue` and its type
invariant, for any threads, operations and kinds, on all runtimes. In

    IInv == Types /\ Order /\ Memory /\ Lifetime /\ Tracked

the stream holds operations in the order of submission, and one that is not finished is in it or is
a deferred one in the callback thread (`Order`); the deleter of a buffer leaves nothing behind that
keeps the buffer, and its release is behind all uses (`Memory`); a dying queue has no
reference, and its stream is drained or only releases memory (`Lifetime`); SYCL's last event is behind
all that is stored as such (`Tracked`). So whoever finds an operation gone from the stream
finds all before it done (`GoneMeansDone`). `QueueKeepsOrder` (an action property with three parts), `MemoryIsFreedLast` and
`EmptyReportsAreTrue` follow. The last assumes that the run's kinds have no kernel with a frame specification
on SYCL, which are not stored as the last event: the report is wrong for them (section 3).

**RegistryProofs** holds for any number of threads, kinds, devices and calls. That at most one
device of an index is alive (`DevicesAreUnique`) is inductive only with the chain it
rests on: a device that is alive is held, and the one in the cache of its platform; a platform
that is held is the singleton of its kind; whoever builds a platform is alone under the mutex of
the kind (`BuildersAreAlone`), and the singleton stays expired meanwhile. One lemma per
action shows that the conjunction is kept. `ResetsSpareLiveQueues` adds to this invariant that a native device
which is being reset has no other device object (`DyingIsAlone`) and that a queue a thread
holds has its native resources (`LiveIsIntact`); it assumes `~Overlapping`, since a device
made anew while the old one dies does lose its queues. `ContextsAreShared` adds, under the same
assumption, that everybody who holds or builds a SYCL platform has the context of the manager that is alive, because
a platform holds its manager, so the map's entry is written once while any of them lives.
The module also proves the buffers: `MemoryIsUsable` of `DeviceMemory`, and
`CheckedMemoryIsUsable` of the composition `MCRegistry` that the run checks, for any number of
threads, devices and buffers. The invariant `Placed` says that no buffer has lost its memory and each lies on the
device it was asked for. The first part holds since the device whose reset would destroy a buffer
is held by it, which takes one lemma per way to drop a handle, as one drop leads to others; the second
is the assumption `Careful`, without which CUDA/HIP allocations go elsewhere (run `Registry_alloc`). With a
single device, memory that is reported as not accessible on the host would be usable by
every device, so the theorem is about two or more.

And the module proves `HandlesAreSound`, for any number of handles, operations, dimensions and objects to begin with
(`HandlesStaySound`). `RootsAssumption` says what those objects are (`LegalRoot`): memory whose alignment is a multiple of
its elements', containers of one dimension, arrays whose C array type has their extents. `HandlesInv` says that every handle
is in its place (`InPlace`), that its elements are constant if any before it had constant ones, that a
buffer's memory is freed if and only if nobody owns it, and that actions are numbered in their order. A view is in its
place if it has the pitches of the root, begins at the sum of its position's components times the pitches, does not reach
beyond the root and claims more than the alignment of an element only at the origin. That parts of parts, from
an offset on or in a direction of a boundary, are in place again (`ShiftIsPlaced`, `ShrinkIsPlaced`, `BoundaryIsPlaced`), that
the elements of such a view are those of the root and aligned (`ElementsOfTheRoot`), rests on two facts about sums over any
number of dimensions: they are linear (`SumIsLinear`, `SumScales`), and all pitches are multiples of the size of an element
(`PitchesAreMultiples`). Both are inductions over the dimensions, done over a set: `SetInduction` follows from
the library's well-founded order of the naturals without a theorem that takes an operator. An operation is
sound if it `Yields` such a handle and no owner where there was none; one lemma per family of member functions shows
that (`SpansYield`, `PartsYield`, `CopyYields`), and `KeptIsEnough` adds the deleter.

The second part of **QueueAndAtomicsProofs** shows that the back-ends implement `AtomicMemory`
(`AtomicOpIsAtomic`) for any threads, cells, width of words and kernels. The invariant says
that a call in progress holds the functor's result on the value it has loaded; a
compare-and-swap that succeeds finds that value, bit by bit, in the cell. It is assumed that no
kernel does a floating point `Cas` on the host (`NoFloatCasOnHost`), which compares with `==`.
`SubtractionIsAddition` is the lemma behind the emulation of Sub by Add. `AtomicsTypes` is type correctness.

**LaunchProofs** is about the arithmetic of indices and of floating point numbers and about `KernelLaunch`, and **KernelProofs**, which extends
it and `MCKernels`, states what follows for the composition and proves the parts about fences, random numbers,
warps and scans. (A proof obligation is dearer the more definitions are in sight: that is why the two are apart.)
The chunk boundaries of the contiguous layout, for every number of elements and of slots, begin at 0 and end at n (`ChunksCoverBounds`), neighbours
differ by n ÷ w or one more (`ChunksAreBalanced`), they are ordered, disjoint, and cover
every element (`ChunksAreComplete`). Everything rests on
n = w·(n ÷ w) + n % w and the monotonicity of products.

`LaunchesHoldExactly` is the property `LaunchesAreExact` of launches, for any number of dimensions, all positive
extents, any warp size up to the size of a frame, any limit of the device and any order in which workers take the
blocks. `JobsAssumption` says what a caller gives: positive extents (asserted in `getFrameSpec`), blocks and
threads of the same dimension, and a positive limit. There are three things to prove.

* *The loops compute what they should.* They are recursive functions over rounds (`FrameLoop`,
  `LargestRounds`, `AlternatingRounds`), which have to be shown to exist before anything can be said about them:
  `ProductsAreDefined`, and the same for each loop, by `SetInduction` over the set of rounds that are as the body says. In every round of
  `getFrameSpec` the frame consists of powers of two, is within the extents, and holds what
  has been taken from the 512 elements (`FrameHolds`); it stops early only when no dimension can be doubled. Of
  `adjustToLimit` the question is whether it ends: halving the largest extent shrinks
  the product in each round until it is one, while the loop at compile time, which goes through the
  dimensions to and fro and may meet some that are one already, comes to an extent above one in at
  most 2·dim rounds (`Ahead`); both therefore end within the limit and never leave an extent of zero.
* *Indices correspond.* `mapToND` numbers a space of any number of dimensions one to one (`MapToNDIsOneToOne`, by
  downward induction over the pitches); so do the native indices of each interface: up to three
  components on CUDA and HIP, in reversed order, and on SYCL, more dimensions being made one on either, and linear
  indices for OpenMP and TBB (`LayersAreOneToOne`).
* *Every thread runs once.* The invariant

      RunsInv == the grid is that of the job, and count = Counted(..., Started)

  says that the bag of coordinates seen so far holds each pair of a started block and a thread exactly once;
  starting a block adds those of one more (`CountGrows`), and at the end all native blocks have been started, which
  are all blocks.

`FencesOrder` is the property of the fences in the composition `MCKernels` that the run checks,
for every set of jobs that pair two threads with fences as the programs can (`FenceJobsAssumption`). Views are positions in modification orders. The invariant

    FenceInv == Types /\ StoredOnce /\ Travels /\ Totals

says that each location is stored to at most once, by its writer (`StoredOnce`); that with a release
fence in between the flag carries the payload, and whoever has loaded the flag has it in what an acquire fence
makes visible (`Travels`); and that a sequentially consistent fence leaves the store before it in the view of
the fences that follow, in whichever order two threads come by (`Totals`). That what a back end
issues is as strong as what was asked for, in order and in scope, is a lemma over its table
(`IssuedIsStrong`). `MessagesArrive` and `StrictFencesAreTotal` are the two halves.

`StreamOfNumbers` is the property `StreamIsConsecutive` of `MCKernels`, for words of any width, any
number of rounds and any arguments of the constructors. Two assumptions, which TLC evaluates with the run,
say what the code's constants are: multipliers are odd, so they have an inverse modulo the radix, the
exclusive or stays within words and loses nothing (`EngineAssumption`); a seed, a subsequence and an offset have two
words each (`DrawsAssumption`). There are three things to prove: the numbers of an engine are those of consecutive
blocks, through every carry (`NumbersAreConsecutive`); no number is behind two deviates save the twins of a
Box-Muller transform, and a single engine's numbers are all used (`NumbersAreUsedOnce`); there are as many
different blocks as counters (`BlocksAreCounted`). For the first two, counting through the
carries of four words is counting modulo the fourth power of the radix, written as
a number system (`AdvanceCounts`); `Handed(e, v, n)` says that an engine has handed
out n numbers since its counter had the value v, and a call of either engine adds the next ones
(`CallHandsOutNext`); `StreamInv` says so of the engine and of all that was drawn, and `UsesInv` that every
deviate is made of numbers which were the last ones when it was returned, so that the next ones are fresh
(`FreshNumbers`), and that a deviate kept by the distribution is the twin of the last one (`TwinFollows`).
That a block is four words for every number of rounds is an induction (`BlockIsFourWords`), over a set:
`SetInduction`, as in `RegistryProofs`. The words of one `double` are in either order, as the model leaves it open. For the third, multiplying by a
number that has an inverse loses nothing modulo the radix (`InverseCancels`), nor does the exclusive or
with a key, so a round is injective (`RoundIsInjective`), hence all rounds together are (`BlocksDiffer`, by
`SetInduction` again), and the counters are finitely many.

`UniformRealsAreInside` is the property `UniformStaysInInterval`, for any even number of significands of either type, all
four intervals, multiplication and addition fused or not, and any bounds that can be represented together with
their distance. The last of these is an assumption (`IsReal(max - min)` in `Legal`) without which the property
does not hold (section 3). `LegalReals`
says that a real's unit is a power of two and that no type has room for every integer converted to it, as
with 24 of 32 and 53 of 64 bits. The argument, in `LaunchProofs`: a number is
representable exactly if it is a multiple of its spacing (`PartsOf`), two of them are apart by at least the spacing of the larger
(`RealsAreApart`), and so rounding, which moves by half a spacing at most, passes none
(`NumbersRound`) and is monotone (`RoundingIsMonotone`); what has no number
in between, `NextAfterIsNext` finds. Therefore a part between nothing and one of a distance that can be represented,
added to the lower bound, stays between the bounds (`MulAddStays`), and a step off an open end
does not leave the interval because there is room in it. What remains is that the conversion yields such
a part (`PartOfOne`): rounding is monotone, so no integer is converted to more than the largest one is; as many bins
make one at most; and half a bin is less than half the spacing at one (`PartIsSmall`), so what it adds beyond
one is rounded away (`RoundsBack`). The invariant `RealsInv`
carries this through the draws.

`WarpCalls` is the property `WarpCallsAreExact` for warps of every size up to 64 and whatever lanes are
active (`WarpJobsAssumption`: groups are powers of two, and a program that adds is the sum of
`docs/snippets/example/190_warp.cpp`). A single call is compared with what is documented: the group of a lane is
its quotient by the width, which the native and the SYCL way to name a source must agree with
(`SourceIsDocumented`); the exclusive or neither leaves the group nor mixes it up because an aligned group of a power
of two has its high bits in common (`XorWithinGroup`). For the sum, `PartialSums` says that before a shift by s,
lane l below 2·s holds the values of the lanes congruent to l modulo 2·s, each once; modulo s there
is one class where modulo 2·s there were two (`ClassesHalve`), so shifting by s adds the right ones.

`DeclarationsHold` is the property `DeclarationsAreSound` of the memory that the threads of a block
share, for any number of workers, threads and declarations. `JobsAssumption` says what kernels guarantee: an id
stands for one declaration, alignments divide sizes and each other, a variable is not larger than the compiler's
room for it, and on SYCL threads meet at a barrier before they declare a variable again.
`PointerAssumption` keeps null pointers apart from offsets. The invariant

    LaunchInv == Launched /\ Blocks

has two arguments in it, one for each way to find a variable again. On the host, storages are chains
(`Chain`): headers lie one behind the other, each before its aligned chunk, and from the end of a chunk the next
header is where the walk looks for it. The walk therefore meets every header (`WalkMeets`), finds the one with the
id or runs off the end (`WalkFinds`, an induction over the distance to the end), and an
allocation lengthens the chain (`AllocKeepsChain`). On SYCL every thread counts the entries of the table on its own:
`Table` says that a thread has counted as many entries as there are variables declared before its position (`Declared`),
that the entries of variables some thread has passed have their ids, and that those the leader has
passed have their pointers. `Together` says that nobody is beyond a barrier that another one has not
reached; so a thread that declares a variable again (`LaterFinds`) is behind a barrier that the leader has reached
behind its own declaration, and a first declaration (`FirstEnters`) finds nothing. What each thread has obtained is
what a header, or the compiler, says (`IsVariable`), and from there `BlockIsSound` derives the property.

`SharedMemoryIsSafe` is the property `SharedMemoryIsNotRaced` of scans and reductions, for any number
of elements, blocks, threads and mini blocks; the code's 2048 elements per chunk bound the levels of a scan, and make
Log2 a matter of twelve cases (`Logarithm`). `GridInv` says of the positions of the threads of a block that what one
has passed a barrier for, all have reached; it is needed because the property alone says nothing about a
thread that waits. In a scan every phase is behind a barrier, so two threads that both may run are in the same one
(`BarriersAreEnough`), and in one phase they touch different cells: padding for bank conflicts is injective
(`CellsStayApart`), and pairs of different indices have no cell in common at any distance (`PairsStayApart`), nor do
the mini blocks of two threads (`MiniBlocksStayApart`). A reduction's last two phases have no barrier: there, a thread
may be ahead of one that is still in the last level of the tree, but neither of the two touches more than
the cell of its own index (`ReductionsDoNotRace`).

Only model-checked: all liveness (the provers handle neither fairness nor `ENABLED`), the copies and
borders of `Data` and the rest of `Kernels`: what a function computes for every number of dimensions, levels or
lanes is an induction over data, which is laborious in first-order form and impossible where the operators are
recursive.

## 6. Assumptions about callers

The models follow the documented contract, and go no further than these:

* Host runtime: a member function is not called on an object whose destructor has begun; a task
  neither owns nor waits for its own queue (`api/host/Queue.hpp:205`, `onHost/Queue.hpp:153`);
  `keepAlive` and `destructorWaitFor` are not mixed for one buffer. `Device::wait`
  covers the queues somebody still holds. Threads that enqueue an event in a blocking queue
  take turns (`SharingAssumption`).
* Registry: platforms of one kind are not made while the last one is going
  away, unless `Overlapping` is set, and then promises are weaker (see the module); `Careful` programs make the given
  device current before they allocate on CUDA/HIP. Array spans of three dimensions have two equal
  leading extents, and elements are as wide as they are aligned. The outer const of a span is dropped by a copy, as the tests of constness say.
* Launches: extents compile; frames of scans are powers of two; SYCL kernels pass a barrier before they declare a
  variable again; extents are positive, and of blocks and threads equally many; an id stands for one type; of two alignments the smaller divides the
  larger; the type of dynamic memory is fixed.
* Ranges: not inverted, strides positive; counting stays within the index type as long as the
  end plus a stride fits (`divCeil` adds the stride before it divides); a range below zero is not cast to a
  wider type; splitting by directions needs a stride of one and room for the halos.
* Warps: groups are powers of two, exchanges read lanes that take part, and the lanes of a branch
  arrive together. Groups of linear threads have no partial warps.
* Fences: every location has one writer; system scope is treated as device scope. Atomic
  cells of block scope on the host are owned by one thread, and floats are not given
  to Min and Max on SYCL.
* Reals: bounds and their distance are representable and an open interval has room inside.
* Packs: spans are aligned as the caller claims, and pointers sit at multiples of the width.
* Complex numbers: near the points 0, 1 and 2, as series to the third power modulo 11; the
  vendor's real functions are exact; the sine of `sincos` does not overwrite the argument.

## 7. Not modelled

* Dictionaries, tuples, tags and other metaprogramming: evaluated by the compiler. Logging
  and queries of the operating system: output.
* Errors reported by vendor runtimes, sub-devices, device properties other than the limits used
  in launches.
* Weak memory other than in `MemFence`: the host runtime synchronises with mutexes, futures and
  one sequentially consistent flag; atomics are looked at cell by cell. System scope of fences. Groups
  that need lock step (`test/unit/mem/memFenceProducerConsumer.cpp` mentions one).
* Division and shifts of packs; branch cuts, rounding and the promotion of arguments of complex functions; real
  math functions, which are calls of the platform.
* Index types that wrap in `makeIdxMap` (`RangeWalk` has them for one thread), packs of sliced ranges.

## 8. What is left

1. Theorems: what rests on the numbering of index spaces, which is proved (`MapToNDIsOneToOne`): loops, copies, borders.
2. `NoIndexTwice` for one-dimensional contiguous loops from the chunk theorems.
3. Errors of vendor runtimes in `NativeQueue`; deadlock of queues that wait for events of
   each other across back-ends.
4. Larger instances of `HostEvent` (two events) and `Kernels` (warps of eight lanes).
