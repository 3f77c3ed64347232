---------------------------- MODULE DeviceMemory ----------------------------
(***************************************************************************)
(* Where memory lies and how long: alloc, allocUnified, allocMapped and    *)
(* allocDeferred of a device, and isDataAccessible (Device.hpp of           *)
(* api/unifiedCudaHip, api/syclGeneric and api/host, onHost/Device.hpp).    *)
(*                                                                         *)
(* The CUDA and HIP runtimes allocate on the device that is current in the *)
(* calling thread, and ~Device resets a whole device. Which calls make     *)
(* their device the current one is the library's choice: what constructs,  *)
(* waits and enqueues does, what allocates does not.                       *)
(***************************************************************************)
EXTENDS Integers, Sequences

CONSTANTS Threads,
          NumDevices,
          Careful,      \* does a program make a device current before it allocates there?
          MaxBuffers    \* bound on the allocations of a program

VARIABLES api,      \* "host", "cuda" (or HIP) or "sycl"
          current,  \* the device that is current in each thread
          handles,  \* devices to which the program holds a handle
          queues,   \* devices of which it holds a queue
          buffers   \* [given, how, at, state]: the device asked for, the kind of memory,
                    \* where it lies; "held", "lost" (held, but its device was reset), "freed"
vars == <<api, current, handles, queues, buffers>>

Indices == 0 .. NumDevices - 1

----------------------------------------------------------------------------
Held(b) == b.state # "freed"

\* Mutant: a deleter that frees memory without holding its device.
HoldsDeferredOnly(b, i) == Held(b) /\ b.given = i /\ b.how = "deferred"

\* The deleter of a buffer holds the device, or the queue that does; for SYCL it is
\* the context that it holds, unless the allocation was deferred.
Holds(b, i) == Held(b) /\ b.given = i /\ (api = "sycl" => b.how = "deferred")

Alive(i, hs, qs, bs) == i \in hs \cup qs \/ \E k \in DOMAIN bs : Holds(bs[k], i)

\* ~Device makes its device current, and its reset destroys all that lies there.
AfterReset(i, bs) ==
    [k \in DOMAIN bs |-> IF bs[k].at = i /\ bs[k].state = "held" THEN [bs[k] EXCEPT !.state = "lost"]
                                                                ELSE bs[k]]

Destroyed(t, i, hs, qs, bs) ==
    LET reset == api = "cuda" /\ ~Alive(i, hs, qs, bs)
    IN  /\ handles' = hs /\ queues' = qs
        /\ buffers' = IF reset THEN AfterReset(i, bs) ELSE bs
        /\ current' = IF reset THEN [current EXCEPT ![t] = i] ELSE current

----------------------------------------------------------------------------
Init == /\ api \in {"host", "cuda", "sycl"}
        /\ current = [t \in Threads |-> 0]
        /\ handles = {} /\ queues = {}
        /\ buffers = <<>>

MakeCurrent(t, i) == current' = IF api = "cuda" THEN [current EXCEPT ![t] = i] ELSE current

\* The constructor makes the device current; a cached device is only returned.
MakeDevice(t, i) ==
    /\ i \notin handles
    /\ handles' = handles \cup {i}
    /\ IF Alive(i, handles, queues, buffers) THEN UNCHANGED current ELSE MakeCurrent(t, i)
    /\ UNCHANGED <<api, queues, buffers>>

MakeQueue(t, i) ==
    /\ i \in handles \ queues
    /\ queues' = queues \cup {i}
    /\ MakeCurrent(t, i)
    /\ UNCHANGED <<api, handles, buffers>>

\* makeEvent and Device::wait; a kernel, fill or memset that is enqueued.
UseDevice(t, i) ==
    /\ i \in handles \cup queues
    /\ MakeCurrent(t, i)
    /\ UNCHANGED <<api, handles, queues, buffers>>

DropDevice(t, i) ==
    /\ i \in handles
    /\ Destroyed(t, i, handles \ {i}, queues, buffers)
    /\ UNCHANGED api

DropQueue(t, i) ==
    /\ i \in queues
    /\ Destroyed(t, i, handles, queues \ {i}, buffers)
    /\ UNCHANGED api

\* mallocAsync allocates on the device of the stream, the others on the current one.
PlaceOf(t, i, how) == IF api = "cuda" /\ how # "deferred" THEN current[t] ELSE i

Allocated(t, i, how) ==
    /\ Len(buffers) < MaxBuffers
    /\ Careful => PlaceOf(t, i, how) = i
    /\ buffers' = Append(buffers, [given |-> i, how |-> how, at |-> PlaceOf(t, i, how), state |-> "held"])
    /\ UNCHANGED <<api, current, handles, queues>>

\* The device is the one given, or that of a queue.
Alloc(t, i)         == i \in handles /\ Allocated(t, i, "alloc")
AllocUnified(t, i)  == i \in handles \cup queues /\ Allocated(t, i, "unified")
AllocMapped(t, i)   == i \in handles \cup queues /\ Allocated(t, i, "mapped")
AllocDeferred(t, i) == i \in queues /\ Allocated(t, i, "deferred")

\* The last copy of a buffer goes away, in any thread. The memory is freed before
\* the deleter lets go of the device.
DropBuffer(t, k) ==
    /\ Held(buffers[k])
    /\ Destroyed(t, buffers[k].given, handles, queues, [buffers EXCEPT ![k].state = "freed"])
    /\ UNCHANGED api

Next == \E t \in Threads :
            \/ \E i \in Indices : \/ MakeDevice(t, i) \/ DropDevice(t, i)
                                  \/ MakeQueue(t, i) \/ DropQueue(t, i)
                                  \/ UseDevice(t, i)
                                  \/ Alloc(t, i) \/ AllocUnified(t, i)
                                  \/ AllocMapped(t, i) \/ AllocDeferred(t, i)
            \/ \E k \in DOMAIN buffers : DropBuffer(t, k)

----------------------------------------------------------------------------
\* The device that the runtime names for a pointer: the first one of the context
\* for memory of the host of SYCL.
PointerDevice(b) == IF api = "sycl" /\ b.how = "mapped" THEN 0 ELSE b.at

IsShared(b) == b.how = "unified"

\* isDataAccessible for a device of the buffer's API: by the device of the pointer,
\* else by its kind.
IsDataAccessible(i, b) == api = "host" \/ PointerDevice(b) = i \/ IsShared(b)

\* isDataAccessible for a device of the host: asks the API of the buffer.
IsAccessibleOnHost(b) == api = "host" \/ b.how \in {"unified", "mapped"}

\* What a kernel on device i can use: memory of its own device, and what all can use.
CanUse(i, b) == api = "host" \/ b.at = i \/ b.how \in {"unified", "mapped"}

\* Memory that is held is intact, whoever drops handles in which order, kernels of
\* the device it was asked for can use it, and what is reported accessible is.
BuffersAreUsable ==
    \A k \in DOMAIN buffers :
        LET b == buffers[k]
        IN  Held(b) => /\ b.state # "lost"
                       /\ CanUse(b.given, b)
                       /\ \A i \in Indices : IsDataAccessible(i, b) => CanUse(i, b)
                       /\ IsAccessibleOnHost(b) <=> (\A i \in Indices : CanUse(i, b))
                       /\ IsDataAccessible(b.given, b) \/ (api = "sycl" /\ b.how = "mapped")

\* onHost/Device.hpp: alloc "Allocate memory on the given device".
AllocatedOnGivenDevice ==
    \A k \in DOMAIN buffers : buffers[k].how = "alloc" => buffers[k].at = buffers[k].given
=============================================================================
