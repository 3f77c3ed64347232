------------------------------ MODULE MCRegistry ------------------------------
(***************************************************************************)
(* Objects are found and expire (Registry), devices are allocated from and  *)
(* reset (DeviceMemory), or handles to memory are derived from handles      *)
(* (Handles): one of them runs.                                             *)
(***************************************************************************)
EXTENDS Registry, TLC

CONSTANTS Careful, MemDevices, MemBuffers,       \* of DeviceMemory
          HandleSlots, HandleRoots, HandleOps    \* of Handles

VARIABLES memApi, current, handles, memQueues, buffers
memVars == <<memApi, current, handles, memQueues, buffers>>

VARIABLES root, slots, actions, freed, ops
handleVars == <<root, slots, actions, freed, ops>>

ThreadSymmetry == Permutations(Threads)

Memory == INSTANCE DeviceMemory WITH
    api <- memApi, queues <- memQueues, NumDevices <- MemDevices, MaxBuffers <- MemBuffers

\* Objects of one to three dimensions.
RootsOf(kinds, inners, extents, align, size) ==
    [kind : kinds, inner : inners, extents : extents, align : {align}, size : {size}]
CheckedRoots == RootsOf({"buffer", "view"}, {FALSE}, {<<3>>, <<2, 3>>}, 8, 2)
           \union RootsOf({"span"}, {TRUE}, {<<2, 1, 2>>}, 4, 4)
           \union RootsOf({"array"}, BOOLEAN, {<<3>>, <<2, 3>>, <<2, 2, 3>>}, 4, 4)
           \union RootsOf({"std"}, BOOLEAN, {<<3>>}, 0, 4)

Derived == INSTANCE Handles WITH
    Slots <- HandleSlots, Roots <- HandleRoots, MaxOps <- HandleOps, Nothing <- None, handles <- slots

\* A program begins with one object.
ASSUME RootsAssumption == /\ 1 \in HandleSlots /\ IsFiniteSet(HandleSlots)
                          /\ \A r \in HandleRoots : Derived!LegalRoot(r) /\ Derived!RootHandle(r) # None

RegistryIdle == /\ api = "none" /\ singleton = [k \in Kinds |-> 0]
                /\ pc = [t \in Threads |-> "idle"] /\ calls = [t \in Threads |-> 0]
                /\ hold = [t \in Threads |-> [plat |-> 0, dev |-> 0, queue |-> 0]]
                /\ index = [t \in Threads |-> 0] /\ lock = [k \in Kinds |-> None]
                /\ platforms = <<>> /\ devs = <<>> /\ queues = <<>>
                /\ manager = [id |-> 0, ctx |-> 0] /\ ctxs = 0 /\ building = [t \in Threads |-> 0]
MemoryIdle   == memApi = None /\ current = None /\ handles = None /\ memQueues = None /\ buffers = None
HandlesIdle  == root = None /\ slots = None /\ actions = None /\ freed = None /\ ops = None

MCInit == \/ Init /\ MemoryIdle /\ HandlesIdle
          \/ RegistryIdle /\ Memory!Init /\ HandlesIdle
          \/ RegistryIdle /\ MemoryIdle /\ Derived!Init

MCNext == \/ api # "none" /\ Next /\ UNCHANGED <<memVars, handleVars>>
          \/ memApi # None /\ Memory!Next /\ UNCHANGED <<vars, handleVars>>
          \/ root # None /\ Derived!Next /\ UNCHANGED <<vars, memVars>>

MCSpec == MCInit /\ [][MCNext]_<<vars, memVars, handleVars>>

----------------------------------------------------------------------------
\* Memory that is held is intact and usable by kernels of its device, whoever
\* drops handles in which order, and what is reported accessible can be accessed,
\* if programs make a device current before they allocate there.
BuffersAreUsable == memApi # None => Memory!BuffersAreUsable

\* Whatever handles are derived from handles, they point to the elements that were
\* asked for with the alignment they claim, what was read only stays so, and
\* memory lives exactly as long as its owners.
HandlesAreSound == root # None => Derived!HandlesAreSound

\* "Allocate memory on the given device" (onHost/Device.hpp:172), for CUDA and HIP
\* whatever device the calling thread used last.
AllocatedOnGivenDevice == memApi # None => Memory!AllocatedOnGivenDevice
=============================================================================
