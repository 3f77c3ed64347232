------------------------------ MODULE Atomics ------------------------------
(***************************************************************************)
(* How atomicOp() is carried out by the back ends: by an instruction of    *)
(* the device, by a loop around compare-and-swap, or, for block scope on   *)
(* the host where a block has one thread, by the plain functor. Threads    *)
(* interleave between the load and the compare-and-swap of a loop.         *)
(*                                                                         *)
(* All orders are memory_order_relaxed in the code; only single cells are  *)
(* looked at here, whose modification order is total.                      *)
(***************************************************************************)
EXTENDS AtomicMemory

VARIABLE call       \* [Thread -> what the call in progress holds]

vs == <<job, memory, returned, call>>

Idle == [pc |-> "idle"]

FloatOp == {"Add", "Sub", "Min", "Max", "Exch", "Cas"}

Op == FloatOp \cup {"Inc", "Dec", "And", "Or", "Xor"}

\* Device functions of CUDA and HIP found by the traits; unsigned long is
\* redirected to its 64-bit twin. HIP disables its slow sum of floats.
BuiltInSum(api, type, op, scope) ==
    \/ op \in {"Cas", "Add"} /\ type \in {"u32", "u64", "ulong"}
    \/ op = "Sub" /\ type = "u32"
    \/ op = "Add" /\ type = "f32" /\ ~(api = "hip" /\ scope = "Block")

\* HIP's functions for the order of floats are disabled, CUDA has none.
BuiltInOrder(type, op) ==
    \/ op \in {"Min", "Max", "Exch"} /\ type \in {"u32", "u64", "ulong"}
    \/ op = "Exch" /\ type = "f32"

BuiltInBits(type, op) ==
    \/ op \in {"Inc", "Dec"} /\ type = "u32"
    \/ op \in {"And", "Or", "Xor"} /\ type \in {"u32", "u64", "ulong"}

BuiltIn(api, type, op, scope) == \/ BuiltInSum(api, type, op, scope)
                                 \/ BuiltInOrder(type, op)
                                 \/ BuiltInBits(type, op)

\* Sub without a device function is Add of the negated value.
Lowered(c) ==
    IF /\ job.api \in {"cuda", "hip"}
       /\ c.op = "Sub"
       /\ ~BuiltIn(job.api, job.type, "Sub", c.scope)
    THEN [c EXCEPT !.op = "Add", !.value = Negated(job.type, @)]
    ELSE c

\* How a call is carried out. A compare-and-swap of a floating point number
\* on CUDA and HIP is the built-in one on its bits.
Way(c) ==
    CASE job.api = "host" /\ c.scope = "Block" -> "functor"
      [] job.api = "host" /\ c.scope # "Block" ->
            IF c.op \in {"Add", "Sub", "And", "Or", "Xor"}
            THEN "instruction" ELSE "loop"
      [] job.api = "sycl" ->
            IF c.op \in {"Inc", "Dec"} THEN "loop" ELSE "instruction"
      [] job.api \in {"cuda", "hip"} ->
            IF c.op = "Cas" \/ BuiltIn(job.api, job.type, c.op, c.scope)
            THEN "instruction" ELSE "loop"

\* The value a call computes from old. The loop of the host's Cas decides
\* with ==, every other implementation with the functor of operation.hpp.
Desired(c, old) ==
    IF c.op = "Cas" /\ Way(c) = "loop"
    THEN IF SameValue(job.type, old, c.compare) THEN c.value ELSE old
    ELSE Result(job.type, c, old)

Current(t) == Lowered(NextCall(t))

Start(t, way) == /\ call[t] = Idle
                 /\ HasCall(t)
                 /\ Way(Current(t)) = way

Finish(t, old) == /\ returned' = [returned EXCEPT ![t] = Append(@, old)]
                  /\ call' = [call EXCEPT ![t] = Idle]
                  /\ UNCHANGED job

Holds(t, pc, old) ==
    [call EXCEPT ![t] =
        [pc |-> pc, old |-> old, new |-> Desired(Current(t), old)]]

\* An atomic instruction of the device or the library.
Instruction(t) ==
    /\ Start(t, "instruction")
    /\ LET c == Current(t)
       IN  /\ memory' = [memory EXCEPT ![c.cell] = Desired(c, @)]
           /\ Finish(t, memory[c.cell])

\* The load before a compare-and-swap loop.
Load(t) ==
    /\ Start(t, "loop")
    /\ call' = Holds(t, "swap", memory[Current(t).cell])
    /\ UNCHANGED <<job, memory, returned>>

\* A change to the code that this project must notice: the loop stores its
\* value without looking whether the cell has changed since the load.
SwapUnchecked(t) ==
    /\ call[t].pc = "swap"
    /\ memory' = [memory EXCEPT ![Current(t).cell] = call[t].new]
    /\ Finish(t, call[t].old)

\* The compare-and-swap finds the bits it expects: the call is done.
Swap(t) ==
    /\ call[t].pc = "swap"
    /\ SameBits(memory[Current(t).cell], call[t].old)
    /\ memory' = [memory EXCEPT ![Current(t).cell] = call[t].new]
    /\ Finish(t, call[t].old)

\* It finds others: they are what the next attempt starts from. (A weak
\* compare-and-swap may also fail with equal bits, which changes nothing.)
Retry(t) ==
    /\ call[t].pc = "swap"
    /\ ~SameBits(memory[Current(t).cell], call[t].old)
    /\ call' = Holds(t, "swap", memory[Current(t).cell])
    /\ UNCHANGED <<job, memory, returned>>

\* The plain functor reads the cell ...
Read(t) ==
    /\ Start(t, "functor")
    /\ call' = Holds(t, "write", memory[Current(t).cell])
    /\ UNCHANGED <<job, memory, returned>>

\* ... and writes it.
Write(t) ==
    /\ call[t].pc = "write"
    /\ memory' = [memory EXCEPT ![Current(t).cell] = call[t].new]
    /\ Finish(t, call[t].old)

AInit == MInit /\ call = [t \in Thread |-> Idle]

Step(t) == \/ Instruction(t)
           \/ Load(t)
           \/ Swap(t)
           \/ Retry(t)
           \/ Read(t)
           \/ Write(t)

ANext == \E t \in Thread : Step(t)

ASpec == AInit /\ [][ANext]_vs

AFairSpec == ASpec /\ \A t \in Thread : WF_vs(Step(t))

-----------------------------------------------------------------------------
(* What the callers guarantee. *)

CallsOf(j, t) == {j.program[t][i] : i \in DOMAIN j.program[t]}

\* On the host a block has one thread: a cell that is used with block scope
\* is used by one thread.
BlockCellsAreOwned(j) ==
    \A t, u \in Thread : \A c \in CallsOf(j, t), d \in CallsOf(j, u) :
        j.api = "host" /\ c.scope = "Block" /\ c.cell = d.cell => t = u

\* Floating point numbers have no Inc, Dec and bitwise operations
\* (static_assert, unifiedCudaHip/atomic.hpp:133).
OperationsExist(j) ==
    \A t \in Thread : \A c \in CallsOf(j, t) :
        c.op \in IF IsFloat(j.type) THEN FloatOp ELSE Op

CallType(type) == [op : Op, cell : Cell, value : Value(type),
                   compare : Value(type), scope : {"Block", "Device"}]

IsJob(j) ==
    /\ DOMAIN j = {"api", "type", "initial", "program"}
    /\ j.api \in {"host", "cuda", "hip", "sycl"}
    /\ j.type \in {"u32", "u64", "ulong", "f32"}
    /\ j.initial \in [Cell -> Value(j.type)]
    /\ DOMAIN j.program = Thread
    /\ \A t \in Thread :
          /\ j.program[t] \in Seq(CallType(j.type))
          /\ Len(j.program[t]) \in Nat
    /\ BlockCellsAreOwned(j)
    /\ OperationsExist(j)

ASSUME WordsAssumption == Words \in Nat \ {0}

ASSUME BitsAssumption ==
    \A a, b \in Word : /\ AndBits(a, b) \in Word
                       /\ OrBits(a, b) \in Word
                       /\ XorBits(a, b) \in Word

ASSUME JobsAssumption == \A j \in Jobs : IsJob(j)

-----------------------------------------------------------------------------
Held(t) == [pc : {"swap", "write"}, old : Value(job.type), new : Value(job.type)]

\* Type correctness: values stay in the range of the type of the kernel.
ATypeOK == /\ job \in Jobs
           /\ memory \in [Cell -> Value(job.type)]
           /\ returned \in [Thread -> Seq(Value(job.type))]
           /\ DOMAIN call = Thread
           /\ \A t \in Thread : /\ call[t] = Idle \/ call[t] \in Held(t)
                                /\ call[t] # Idle => HasCall(t)

\* Whatever the back end makes of it, an atomic call behaves as the functor
\* of operation.hpp applied in one step: no update of another thread is lost
\* between the load and the store of a loop, and the value returned is the
\* one the update started from (atomicOp(), onAcc/atomic.hpp:26).
ImplementsAtomicMemory == MSpec

\* Every call of every thread returns, for any contents of the cell; the
\* loops compare bits because a comparison of values would repeat for ever
\* on a NaN (unifiedCudaHip/atomic.hpp:83).
EveryOperationReturns ==
    <>(\A t \in Thread : Len(returned[t]) = Len(job.program[t]))

=============================================================================
