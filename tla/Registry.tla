------------------------------- MODULE Registry -------------------------------
(***************************************************************************)
(* Platforms, devices and what is made from them: who gets which object,   *)
(* and when an object goes away (onHost/Handle.hpp and Platform.hpp,        *)
(* Device.hpp of api/host, api/unifiedCudaHip, api/syclGeneric).            *)
(*                                                                         *)
(* A platform is a singleton per device kind that lives as long as someone  *)
(* holds it; it caches its devices in weak references, and a device holds   *)
(* its platform, a queue its device.  So what is shared is found through    *)
(* weak references that expire while others look at them.  A critical       *)
(* section is one step, unless it calls code that is not protected.         *)
(***************************************************************************)
EXTENDS Integers, Sequences, FiniteSets

CONSTANTS Threads, Kinds, None,
          NumDevices,   \* native devices of each kind
          Overlapping,  \* may a program build platforms, or a device anew, while another thread
                        \* builds one, or destroys the device it replaces?
          MaxPlatforms, MaxDevices, MaxQueues, MaxCalls     \* bounds
ASSUME RegistryAssumption == /\ Overlapping \in BOOLEAN
                             /\ None \notin Threads
                             /\ {NumDevices, MaxPlatforms, MaxDevices, MaxQueues, MaxCalls} \subseteq Nat

VARIABLES api,        \* "host", "cuda" (or HIP) or "sycl"
          pc,         \* what each thread is doing
          calls,      \* calls it has begun
          hold,       \* the handles it has: plat, dev, queue (0: none)
          index,      \* the device it asks for
          lock,       \* holder of the mutex of each kind's singleton
          singleton,  \* the singleton's weak reference
          platforms,  \* every platform made: kind, manager, ctx, size and cache of devices
          devs,       \* every device made: plat, idx, state
          queues,     \* every queue made: dev, live, lost (its native resources are destroyed)
          manager,    \* SYCL: the context manager's weak reference and the contexts in its map
          ctxs,       \* SYCL: contexts made
          building    \* SYCL: the manager a thread that builds a platform holds
vars == <<api, pc, calls, hold, index, lock, singleton, platforms, devs, queues, manager, ctxs, building>>

Indices == 0 .. NumDevices - 1

----------------------------------------------------------------------------
(***************************************************************************)
(* Reference counts: who holds what.                                        *)
(***************************************************************************)
\* Mutant: a queue refers to its device without holding it.
DeviceHeldByThreads(d, holding, qs) == \E t \in Threads : holding[t].dev = d

DeviceHeld(d, holding, qs) == \/ \E t \in Threads : holding[t].dev = d
                              \/ \E q \in DOMAIN qs : qs[q].live /\ qs[q].dev = d

\* Mutant: a device refers to its platform without holding it.
PlatformHeldByThreads(p) == \E t \in Threads : hold[t].plat = p

PlatformHeld(p) == \/ \E t \in Threads : hold[t].plat = p
                   \/ \E d \in DOMAIN devs : devs[d].plat = p /\ devs[d].state # "dead"

\* Mutant: a platform does not hold the context manager.
ManagerHeldByBuilders(m) == \E t \in Threads : building[t] = m

ManagerHeld(m) == \/ \E t \in Threads : building[t] = m
                  \/ \E p \in DOMAIN platforms : PlatformHeld(p) /\ platforms[p].manager = m

----------------------------------------------------------------------------
Init == /\ api \in {"host", "cuda", "sycl"}
        /\ pc = [t \in Threads |-> "idle"]
        /\ calls = [t \in Threads |-> 0]
        /\ hold = [t \in Threads |-> [plat |-> 0, dev |-> 0, queue |-> 0]]
        /\ index = [t \in Threads |-> 0]
        /\ lock = [k \in Kinds |-> None]
        /\ singleton = [k \in Kinds |-> 0]
        /\ platforms = <<>>
        /\ devs = <<>>
        /\ queues = <<>>
        /\ manager = [id |-> 0, ctx |-> 0]
        /\ ctxs = 0
        /\ building = [t \in Threads |-> 0]

Begin(t) == /\ pc[t] = "idle"
            /\ calls[t] < MaxCalls
            /\ calls' = [calls EXCEPT ![t] = @ + 1]

Platform(k, m, c, size) == [kind |-> k, manager |-> m, ctx |-> c, size |-> size,
                            cache |-> [i \in Indices |-> 0]]

\* The platform is made, becomes the singleton, and the call returns it.
NewPlatform(t, p) == /\ Len(platforms) < MaxPlatforms
                     /\ platforms' = Append(platforms, p)
                     /\ singleton' = [singleton EXCEPT ![p.kind] = Len(platforms')]
                     /\ hold' = [hold EXCEPT ![t].plat = Len(platforms')]

(***************************************************************************)
(* make_sharedSingleton<Platform>: the mutex of the kind is held while a    *)
(* platform is built.  Only SYCL builds more than an empty object.          *)
(***************************************************************************)
MakePlatform(t, k) ==
    /\ Begin(t)
    /\ hold[t].plat = 0
    /\ lock[k] = None
    /\ Overlapping \/ \A u \in Threads : pc[u] \notin {"build", "insert"}
    /\ \/ /\ singleton[k] # 0 /\ PlatformHeld(singleton[k])
          /\ hold' = [hold EXCEPT ![t].plat = singleton[k]]
          /\ UNCHANGED <<pc, lock, singleton, platforms, manager, building>>
       \/ /\ singleton[k] = 0 \/ ~PlatformHeld(singleton[k])
          /\ api # "sycl"
          /\ NewPlatform(t, Platform(k, 0, 0, 0))
          /\ UNCHANGED <<pc, lock, manager, building>>
       \/ /\ singleton[k] = 0 \/ ~PlatformHeld(singleton[k])
          /\ api = "sycl"
          /\ lock' = [lock EXCEPT ![k] = t]
          /\ pc' = [pc EXCEPT ![t] = "build"]
          /\ IF manager.id # 0 /\ ManagerHeld(manager.id) THEN UNCHANGED manager
             ELSE manager' = [id |-> manager.id + 1, ctx |-> 0]
          /\ building' = [building EXCEPT ![t] = manager'.id]
          /\ UNCHANGED <<hold, singleton, platforms>>
    /\ UNCHANGED <<api, index, devs, queues, ctxs>>

\* The mutex of the kind is released when the constructor has returned.
Built(t, c, size) ==
    LET k == CHOOSE kind \in Kinds : lock[kind] = t
    IN  /\ NewPlatform(t, Platform(k, building[t], c, size))
        /\ lock' = [lock EXCEPT ![k] = None]
        /\ building' = [building EXCEPT ![t] = 0]
        /\ pc' = [pc EXCEPT ![t] = "idle"]

\* The constructor of the SYCL platform: no native platform, or no kernel can be
\* built for it, and the platform is one without devices; or Context::getContext
\* finds a context in the map, or has to make one.
BuildPlatform(t) ==
    /\ pc[t] = "build"
    /\ \/ Built(t, 0, 0)
       \/ /\ manager.ctx # 0
          /\ Built(t, manager.ctx, NumDevices)
       \/ /\ manager.ctx = 0
          /\ pc' = [pc EXCEPT ![t] = "insert"]
          /\ UNCHANGED <<hold, lock, singleton, platforms, building>>
    /\ UNCHANGED <<api, calls, index, devs, queues, manager, ctxs>>

\* The map is written, and not protected; the kernels may still fail to build.
InsertContext(t) ==
    /\ pc[t] = "insert"
    /\ ctxs' = ctxs + 1
    /\ manager' = [manager EXCEPT !.ctx = ctxs']
    /\ Built(t, ctxs', NumDevices) \/ Built(t, 0, 0)
    /\ UNCHANGED <<api, calls, index, devs, queues>>

----------------------------------------------------------------------------
(***************************************************************************)
(* makeDevice.                                                              *)
(***************************************************************************)
\* getDeviceCount looks at the size of the cache before it takes the lock.  The
\* CUDA runtime may fail to count, and there is no device then.
GetDeviceCount(t, i) ==
    /\ Begin(t)
    /\ hold[t].plat # 0 /\ hold[t].dev = 0
    /\ index' = [index EXCEPT ![t] = i]
    /\ LET size == platforms[hold[t].plat].size
       IN  \/ /\ api # "sycl" /\ size < NumDevices
              /\ pc' = [pc EXCEPT ![t] = "resize"]
           \/ /\ size = NumDevices
              /\ pc' = [pc EXCEPT ![t] = "device"]
           \/ /\ api = "cuda" \/ (api = "sycl" /\ size = 0)
              /\ UNCHANGED pc
    /\ UNCHANGED <<api, hold, lock, singleton, platforms, devs, queues, manager, ctxs, building>>

\* Resizing keeps what is in the cache.
Resize(t) ==
    /\ pc[t] = "resize"
    /\ platforms' = [platforms EXCEPT ![hold[t].plat].size = NumDevices]
    /\ pc' = [pc EXCEPT ![t] = "device"]
    /\ UNCHANGED <<api, calls, hold, index, lock, singleton, devs, queues, manager, ctxs, building>>

\* Under the lock: the cached device if its reference has not expired, or a new one.
MakeDevice(t) ==
    LET p      == hold[t].plat
        i      == index[t]
        cached == platforms[p].cache[i]
        expired == cached = 0 \/ ~DeviceHeld(cached, hold, queues)
    IN  /\ pc[t] = "device"
        /\ pc' = [pc EXCEPT ![t] = "idle"]
        /\ \/ /\ ~expired
              /\ hold' = [hold EXCEPT ![t].dev = cached]
              /\ UNCHANGED <<devs, platforms>>
           \/ /\ expired
              /\ Len(devs) < MaxDevices
              /\ Overlapping \/ \A d \in DOMAIN devs : devs[d].state # "dying"
              /\ devs' = Append(devs, [plat |-> p, idx |-> i, state |-> "alive"])
              /\ platforms' = [platforms EXCEPT ![p].cache[i] = Len(devs')]
              /\ hold' = [hold EXCEPT ![t].dev = Len(devs')]
        /\ UNCHANGED <<api, calls, index, lock, singleton, queues, manager, ctxs, building>>

\* makeQueue: the queue holds the device.
MakeQueue(t) ==
    /\ Begin(t)
    /\ hold[t].dev # 0 /\ hold[t].queue = 0
    /\ Len(queues) < MaxQueues
    /\ queues' = Append(queues, [dev |-> hold[t].dev, live |-> TRUE, lost |-> FALSE])
    /\ hold' = [hold EXCEPT ![t].queue = Len(queues')]
    /\ UNCHANGED <<api, pc, index, lock, singleton, platforms, devs, manager, ctxs, building>>

----------------------------------------------------------------------------
(***************************************************************************)
(* A handle is dropped.  Who drops the last one of a device runs its        *)
(* destructor, which resets a CUDA or HIP device; the weak reference has    *)
(* expired by then.                                                         *)
(***************************************************************************)
DropPlatform(t) ==
    /\ pc[t] = "idle"
    /\ hold[t].plat # 0
    /\ hold' = [hold EXCEPT ![t].plat = 0]
    /\ UNCHANGED <<api, pc, calls, index, lock, singleton, platforms, devs, queues, manager, ctxs, building>>

Release(t, d) ==
    IF DeviceHeld(d, hold', queues') THEN UNCHANGED <<pc, devs>>
    ELSE /\ devs' = [devs EXCEPT ![d].state = IF api = "cuda" THEN "dying" ELSE "dead"]
         /\ IF api = "cuda" THEN /\ pc' = [pc EXCEPT ![t] = "reset"] ELSE UNCHANGED pc

DropDevice(t) ==
    /\ pc[t] = "idle"
    /\ hold[t].dev # 0
    /\ hold' = [hold EXCEPT ![t].dev = 0]
    /\ UNCHANGED queues
    /\ Release(t, hold[t].dev)
    /\ index' = [index EXCEPT ![t] = IF pc'[t] = "reset" THEN devs[hold[t].dev].idx ELSE 0]
    /\ UNCHANGED <<api, calls, lock, singleton, platforms, manager, ctxs, building>>

DropQueue(t) ==
    LET q == hold[t].queue
    IN  /\ pc[t] = "idle"
        /\ q # 0
        /\ hold' = [hold EXCEPT ![t].queue = 0]
        /\ queues' = [queues EXCEPT ![q].live = FALSE]
        /\ Release(t, queues[q].dev)
        /\ index' = [index EXCEPT ![t] = IF pc'[t] = "reset" THEN devs[queues[q].dev].idx ELSE @]
        /\ UNCHANGED <<api, calls, lock, singleton, platforms, manager, ctxs, building>>

\* deviceReset() destroys whatever lives on the native device.
ResetDevice(t) ==
    /\ pc[t] = "reset"
    /\ \E d \in DOMAIN devs :
          /\ devs[d].state = "dying" /\ devs[d].idx = index[t]
          /\ devs' = [devs EXCEPT ![d].state = "dead"]
          /\ queues' = [q \in DOMAIN queues |->
                           IF /\ devs[queues[q].dev].idx = devs[d].idx
                              /\ platforms[devs[queues[q].dev].plat].kind = platforms[devs[d].plat].kind
                           THEN [queues[q] EXCEPT !.lost = TRUE] ELSE queues[q]]
    /\ pc' = [pc EXCEPT ![t] = "idle"]
    /\ index' = [index EXCEPT ![t] = 0]
    /\ UNCHANGED <<api, calls, hold, lock, singleton, platforms, manager, ctxs, building>>

----------------------------------------------------------------------------
\* A call that has begun goes on.
Continue(t) == BuildPlatform(t) \/ InsertContext(t) \/ Resize(t) \/ MakeDevice(t) \/ ResetDevice(t)

Step(t) == \/ \E k \in Kinds : MakePlatform(t, k)
           \/ \E i \in Indices : GetDeviceCount(t, i)
           \/ MakeQueue(t)
           \/ DropPlatform(t) \/ DropDevice(t) \/ DropQueue(t)
           \/ Continue(t)

Next == \E t \in Threads : Step(t)
Spec == Init /\ [][Next]_vars

----------------------------------------------------------------------------
TypeOK ==
    /\ pc \in [Threads -> {"idle", "build", "insert", "resize", "device", "reset"}]
    /\ index \in [Threads -> Indices]
    /\ lock \in [Kinds -> Threads \union {None}]
    /\ \A t \in Threads : /\ hold[t].plat \in 0..Len(platforms)
                          /\ hold[t].dev \in 0..Len(devs)
                          /\ hold[t].queue \in 0..Len(queues)
                          /\ building[t] \in 0..manager.id
    /\ \A d \in DOMAIN devs : /\ devs[d].state \in {"alive", "dying", "dead"}
                              /\ devs[d].state = "alive" <=> DeviceHeld(d, hold, queues)

\* Two handles of the same device of one kind are the same object: its list of
\* queues, for wait(), and its identity are shared, although the platform it was
\* found through may have been dropped and asked for again in between.
OneDevicePerIndex ==
    \A d, e \in DOMAIN devs :
        /\ devs[d].state = "alive" /\ devs[e].state = "alive"
        /\ devs[d].idx = devs[e].idx
        /\ platforms[devs[d].plat].kind = platforms[devs[e].plat].kind
        => d = e

\* A reset never hits what is in use: the queues that threads hold are intact.
ResetSparesLiveQueues == \A t \in Threads : hold[t].queue # 0 => ~queues[hold[t].queue].lost

\* The device kinds of one SYCL platform use one context ("The context manager
\* is required to be able to use the same sycl context for different device types").
ContextIsShared ==
    \A p, r \in DOMAIN platforms :
        PlatformHeld(p) /\ PlatformHeld(r) /\ platforms[p].ctx # 0 /\ platforms[r].ctx # 0
            => platforms[p].ctx = platforms[r].ctx
=============================================================================
