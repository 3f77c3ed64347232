---------------------------- MODULE AtomicMemory ----------------------------
(***************************************************************************)
(* What alpaka::onAcc::atomicOp() promises: an operation of                *)
(* alpaka/operation.hpp is applied to a memory cell in one step and the    *)
(* call returns the value the cell had before that step.                   *)
(***************************************************************************)
EXTENDS Integers, Sequences

CONSTANTS
    Thread,         \* the threads of a kernel
    Cell,           \* memory cells
    Words,          \* unsigned values are 0 .. Words - 1
    AndBits(_, _),  \* the bitwise operators of the compiler
    OrBits(_, _),
    XorBits(_, _),
    Jobs            \* what a kernel may do: api, value type, initial memory,
                    \* and the program of every thread

VARIABLES
    job,            \* the kernel that runs
    memory,         \* [Cell -> value]
    returned        \* [Thread -> the values its calls have returned]

Word == 0 .. Words - 1

(***************************************************************************)
(* A floating point number is an integer with a sign of its own, so that   *)
(* there is a negative zero, or it is not a number. Rounding is left out.  *)
(***************************************************************************)
Float == [nan : BOOLEAN, negative : BOOLEAN, magnitude : Nat]

IsFloat(type) == type = "f32"

Value(type) == IF IsFloat(type) THEN Float ELSE Word

Number(x) == IF x.negative THEN -x.magnitude ELSE x.magnitude

Wrap(n) == IF n >= Words THEN n - Words ELSE IF n < 0 THEN n + Words ELSE n

FloatSum(a, b) ==
    LET sum == Number(a) + Number(b)
    IN  [nan |-> a.nan \/ b.nan,
         negative |-> /\ ~(a.nan \/ b.nan)
                      /\ sum < 0 \/ (sum = 0 /\ a.negative /\ b.negative),
         magnitude |-> IF a.nan \/ b.nan THEN 0
                       ELSE IF sum < 0 THEN -sum ELSE sum]

Negated(type, a) ==
    IF IsFloat(type) THEN [a EXCEPT !.negative = ~a.nan /\ ~a.negative]
                     ELSE Wrap(-a)

Plus(type, a, b) == IF IsFloat(type) THEN FloatSum(a, b) ELSE Wrap(a + b)

Minus(type, a, b) ==
    IF IsFloat(type) THEN FloatSum(a, Negated(type, b)) ELSE Wrap(a - b)

Less(type, a, b) ==
    IF IsFloat(type) THEN ~a.nan /\ ~b.nan /\ Number(a) < Number(b)
                     ELSE a < b

\* == of the language: not a number equals nothing, the two zeros are equal.
SameValue(type, a, b) ==
    IF IsFloat(type) THEN ~a.nan /\ ~b.nan /\ Number(a) = Number(b)
                     ELSE a = b

\* A change to the code that this project must notice: values are compared
\* where bits have to be.
SameBitsByValue(a, b) == SameValue(job.type, a, b)

\* Comparison of the bits, as compare-and-swap instructions do it.
SameBits(a, b) == a = b

(***************************************************************************)
(* The value a functor of operation.hpp leaves in a cell that holds old.   *)
(***************************************************************************)
Result(type, c, old) ==
    CASE c.op = "Add"  -> Plus(type, old, c.value)
      [] c.op = "Sub"  -> Minus(type, old, c.value)
      [] c.op = "Min"  -> IF Less(type, c.value, old) THEN c.value ELSE old
      [] c.op = "Max"  -> IF Less(type, old, c.value) THEN c.value ELSE old
      [] c.op = "Exch" -> c.value
      [] c.op = "Inc"  -> IF old >= c.value THEN 0 ELSE old + 1
      [] c.op = "Dec"  -> IF old = 0 \/ old > c.value THEN c.value ELSE old - 1
      [] c.op = "And"  -> AndBits(old, c.value)
      [] c.op = "Or"   -> OrBits(old, c.value)
      [] c.op = "Xor"  -> XorBits(old, c.value)
      [] c.op = "Cas"  -> IF SameBits(old, c.compare) THEN c.value ELSE old

-----------------------------------------------------------------------------
NextCall(t) == job.program[t][Len(returned[t]) + 1]

HasCall(t) == Len(returned[t]) < Len(job.program[t])

MInit == /\ job \in Jobs
         /\ memory = job.initial
         /\ returned = [t \in Thread |-> <<>>]

\* One call of thread t: read, change and return in one step.
Apply(t) ==
    /\ HasCall(t)
    /\ LET c == NextCall(t)
       IN  /\ memory' = [memory EXCEPT
                            ![c.cell] = Result(job.type, c, memory[c.cell])]
           /\ returned' = [returned EXCEPT
                              ![t] = Append(@, memory[c.cell])]
    /\ UNCHANGED job

MNext == \E t \in Thread : Apply(t)

mVars == <<job, memory, returned>>

MSpec == MInit /\ [][MNext]_mVars

=============================================================================
