------------------------------ MODULE MemFence ------------------------------
(***************************************************************************)
(* memFence(acc, scope, order): which fence a back end issues, and what    *)
(* two threads that communicate through memory may then observe.           *)
(*                                                                         *)
(* The memory (external) keeps every store of a location; a thread reads   *)
(* any store that is not older than the one its view has reached. A store  *)
(* carries the view that was published by the last release fence of its    *)
(* thread; a load remembers it, and an acquire fence makes it the view of  *)
(* the reader. A fence of block scope publishes to, and accepts from, the  *)
(* threads of the block only. A sequentially consistent fence also         *)
(* exchanges views with the other ones. Every location has one writer.     *)
(***************************************************************************)
EXTENDS Integers, Sequences, FiniteSets, FiniteSetsExt

CONSTANT Jobs   \* [api, block, program]

VARIABLES
    fences,     \* the kernel: its back end, the block of every thread, programs
    at,         \* [thread -> next instruction]
    stores,     \* [location -> its stores, each with the views it carries]
    view,       \* [thread -> [location -> position]]
    released,   \* [thread -> [scope -> view]] published by release fences
    seen,       \* [thread -> [scope -> view]] carried by the stores it read
    strict,     \* [block, or 0 for the device -> view] of the SeqCst fences
    loaded      \* [thread -> [location -> value of the last load]]

vars == <<fences, at, stores, view, released, seen, strict, loaded>>

Thread   == DOMAIN fences.program
Location == {"payload", "flag"}
Scope    == {"Block", "Device"}

Bottom == [x \in Location |-> 1]

Join(views) == [x \in Location |-> Max({v[x] : v \in views})]

-----------------------------------------------------------------------------
(* The fence of a back end: its order, or none, and its scope.             *)

Orders == {"Relaxed", "Acquire", "Release", "AcqRel", "SeqCst"}

Fence(order, scope) == [order |-> order, scope |-> scope]

\* A change to PtxOrder that this project must notice: an acquire fence is
\* left out where PTX has none.
PtxOrderReleaseOnly(api, order) ==
    CASE api = "cuda90" -> order
      [] api = "cuda70" -> IF order = "Acquire" THEN "Relaxed" ELSE order
      [] api = "cuda60" -> "SeqCst"

\* PTX before version 9 has no fences of one direction, before version 7
\* there is only __threadfence(), which is sequentially consistent.
PtxOrder(api, order) ==
    CASE api = "cuda90" -> order
      [] api = "cuda70" -> IF order \in {"Acquire", "Release"} THEN "AcqRel" ELSE order
      [] api = "cuda60" -> "SeqCst"

CudaFence(api, scope, order) ==
    IF order = "Relaxed" THEN Fence("Relaxed", scope)
    ELSE IF api = "cudaAtomic" THEN Fence(order, scope)
    ELSE Fence(PtxOrder(api, order), scope)

\* A block of the host has one thread.
HostFence(scope, order) ==
    IF scope = "Block" THEN Fence("Relaxed", scope) ELSE Fence(order, scope)

Issued(scope, order) ==
    CASE fences.api = "host"            -> HostFence(scope, order)
      [] fences.api \in {"hip", "sycl"} -> Fence(order, scope)
      [] OTHER                          -> CudaFence(fences.api, scope, order)

-----------------------------------------------------------------------------
Instruction(t) == fences.program[t][at[t]]

Does(t, op) == /\ at[t] <= Len(fences.program[t])
               /\ Instruction(t).op = op

Init == /\ fences \in Jobs
        /\ at = [t \in Thread |-> 1]
        /\ stores = [x \in Location |->
                        <<[value |-> 0, views |-> [s \in Scope |-> Bottom], by |-> 0]>>]
        /\ view = [t \in Thread |-> Bottom]
        /\ released = [t \in Thread |-> [s \in Scope |-> Bottom]]
        /\ seen = [t \in Thread |-> [s \in Scope |-> Bottom]]
        /\ strict = [b \in 0 .. Cardinality(Thread) |-> Bottom]
        /\ loaded = [t \in Thread |-> [x \in Location |-> 0]]

Advance(t) == at' = [at EXCEPT ![t] = @ + 1]

\* payload[0] = 1, or atomicExch(acc, &flag[0], 1), which is relaxed.
Store(t) ==
    /\ Does(t, "store")
    /\ LET x == Instruction(t).at
       IN  /\ stores' = [stores EXCEPT ![x] =
                  Append(@, [value |-> 1, views |-> released[t], by |-> t])]
           /\ view' = [view EXCEPT ![t][x] = Len(stores[x]) + 1]
    /\ Advance(t)
    /\ UNCHANGED <<fences, released, seen, strict, loaded>>

\* The scopes in which thread t can see what the writer of s published.
Reaches(s, t) == IF s.by = 0 \/ fences.block[s.by] = fences.block[t]
                 THEN Scope ELSE {"Device"}

\* A load, or an attempt of a loop that waits for a value.
Load(t) ==
    /\ Does(t, "load") \/ Does(t, "await")
    /\ \E i \in DOMAIN stores[Instruction(t).at] :
          LET x == Instruction(t).at
              s == stores[x][i]
          IN  /\ i >= view[t][x]
              /\ view' = [view EXCEPT ![t][x] = i]
              /\ loaded' = [loaded EXCEPT ![t][x] = s.value]
              /\ seen' = [seen EXCEPT ![t] =
                     [c \in Scope |-> IF c \in Reaches(s, t)
                                      THEN Join({@[c], s.views[c]}) ELSE @[c]]]
              /\ IF Does(t, "load") \/ s.value = 1 THEN Advance(t) ELSE UNCHANGED at
    /\ UNCHANGED <<fences, stores, released, strict>>

Acquires(f) == f.order \in {"Acquire", "AcqRel", "SeqCst"}
Releases(f) == f.order \in {"Release", "AcqRel", "SeqCst"}

\* What a fence of a scope publishes to and accepts from.
Within(scope) == IF scope = "Block" THEN {"Block"} ELSE Scope

\* The sequentially consistent fences that are ordered with one of thread t.
StrictWith(t, scope) == {fences.block[t]} \cup (IF scope = "Block" THEN {} ELSE {0})

MemFence(t) ==
    /\ Does(t, "fence")
    /\ LET f == Issued(Instruction(t).scope, Instruction(t).order)
           v == Join({view[t]}
                     \cup {seen[t][s] : s \in IF Acquires(f) THEN Within(f.scope) ELSE {}}
                     \cup {strict[b] : b \in IF f.order = "SeqCst"
                                             THEN StrictWith(t, f.scope) ELSE {}})
       IN  /\ view' = [view EXCEPT ![t] = v]
           /\ strict' = [b \in DOMAIN strict |->
                  IF f.order = "SeqCst" /\ b \in StrictWith(t, f.scope) THEN v ELSE strict[b]]
           /\ released' = [released EXCEPT ![t] =
                  [s \in Scope |-> IF Releases(f) /\ s \in Within(f.scope)
                                   THEN v ELSE @[s]]]
    /\ Advance(t)
    /\ UNCHANGED <<fences, stores, seen, loaded>>

Next == \E t \in Thread : Store(t) \/ Load(t) \/ MemFence(t)

-----------------------------------------------------------------------------
(* Two threads, 1 and 2, each with one fence between two accesses.         *)

Apis == {"host", "hip", "sycl", "cuda90", "cuda70", "cuda60", "cudaAtomic"}

\* One thread writes the payload, then the flag; the other one reads or awaits the
\* flag, then reads the payload (docs/source/tutorial/memFence.rst).
MessagePassing(p) ==
    /\ p[1][1].op = "store" /\ p[1][1].at = "payload"
    /\ p[1][3].op = "store" /\ p[1][3].at = "flag"
    /\ p[2][1].op \in {"load", "await"} /\ p[2][1].at = "flag"
    /\ p[2][3].op = "load" /\ p[2][3].at = "payload"

\* Each thread writes one location, then reads the other.
StoreBuffering(p) ==
    /\ p[1][1].op = "store" /\ p[1][1].at = "payload"
    /\ p[1][3].op = "load" /\ p[1][3].at = "flag"
    /\ p[2][1].op = "store" /\ p[2][1].at = "flag"
    /\ p[2][3].op = "load" /\ p[2][3].at = "payload"

Legal(j) == /\ j.api \in Apis
            /\ DOMAIN j.program = {1, 2}
            /\ j.block \in [{1, 2} -> {1, 2}]
            /\ j.api = "host" => j.block[1] # j.block[2]
            /\ \A t \in {1, 2} : /\ Len(j.program[t]) = 3
                                 /\ j.program[t][2].op = "fence"
                                 /\ j.program[t][2].order \in Orders
                                 /\ j.program[t][2].scope \in Scope
            /\ MessagePassing(j.program) \/ StoreBuffering(j.program)

Finished == \A t \in Thread : at[t] > Len(fences.program[t])

Given(t) == fences.program[t][2]

\* Each of the two fences is seen by the other thread.
ScopesMeet == \/ fences.block[1] = fences.block[2]
              \/ \A t \in Thread : Given(t).scope = "Device"

Publishes(t) == fences.program[t][1].op = "store" /\ fences.program[t][3].op = "store"
Consumes(t)  == fences.program[t][1].op # "store"

\* Producer and consumer (docs/source/tutorial/memFence.rst): who observes the
\* flag behind an acquire fence observes the payload before the release fence.
PayloadIsVisible ==
    (/\ Finished
     /\ Publishes(1) /\ Given(1).order \in {"Release", "AcqRel", "SeqCst"}
     /\ Consumes(2) /\ Given(2).order \in {"Acquire", "AcqRel", "SeqCst"}
     /\ ScopesMeet
     /\ loaded[2]["flag"] = 1)
    => loaded[2]["payload"] = 1

\* "a single global order for all sequentially consistent operations"
\* (onAcc/memoryOrder.hpp:37): of two threads that each store, fence and load
\* what the other one stores, one sees the store of the other.
SeqCstIsTotal ==
    (/\ Finished
     /\ ~Publishes(1) /\ ~Consumes(2)
     /\ \A t \in Thread : Given(t).order = "SeqCst"
     /\ ScopesMeet)
    => loaded[1]["flag"] = 1 \/ loaded[2]["payload"] = 1

\* Both: fences order what two threads do to memory, on every back end.
FencesOrderMemory == PayloadIsVisible /\ SeqCstIsTotal
=============================================================================
