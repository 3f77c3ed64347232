------------------------------ MODULE MCAtomics ------------------------------
(***************************************************************************)
(* Two threads and one contended cell; words of two bits, so that every    *)
(* sum and difference can wrap; thread one calls once, thread two twice.   *)
(* The kernels with block scope on the host give every thread a cell.      *)
(***************************************************************************)
EXTENDS Atomics

LOCAL INSTANCE Bitwise

CONSTANTS t1, t2, c1, c2

MCThread == {t1, t2}
MCCell == {c1, c2}

MCAndBits(a, b) == a & b
MCOrBits(a, b) == a | b
MCXorBits(a, b) == a ^^ b

Real(n) == [nan |-> FALSE, negative |-> n < 0, magnitude |-> IF n < 0 THEN -n ELSE n]
NegativeZero == [nan |-> FALSE, negative |-> TRUE, magnitude |-> 0]
NaN == [nan |-> TRUE, negative |-> FALSE, magnitude |-> 0]
Special == {NegativeZero, NaN}

Operands(type) == IF IsFloat(type) THEN {Real(1), NegativeZero, NaN} ELSE {1, 3}
Initials(type) == IF IsFloat(type) THEN {Real(0), NaN} ELSE {0, 3}

Calls(api, type, scope, cell) ==
    {[op |-> op, cell |-> cell, value |-> v, compare |-> k, scope |-> scope] :
        op \in IF ~IsFloat(type) THEN Op
               ELSE IF api = "sycl" THEN FloatOp \ {"Min", "Max"}
               ELSE FloatOp,
        v \in Operands(type),
        k \in {IF IsFloat(type) THEN Real(0) ELSE 0}}

\* The kernels of an api: the two threads share c1, or own a cell each.
Kernels(api, type, scope) ==
    {[api |-> api, type |-> type,
      initial |-> [c \in MCCell |-> v],
      program |-> [t \in MCThread |-> IF t = t1 THEN <<a>> ELSE <<b, b>>]] :
        v \in Initials(type),
        a \in Calls(api, type, scope, c1),
        b \in Calls(api, type, scope,
                    IF api = "host" /\ scope = "Block" THEN c2 ELSE c1)}

Targets ==
    ({"host", "cuda", "sycl"} \X {"u32", "f32"} \X {"Device"})
    \cup ({"cuda"} \X {"u64", "ulong"} \X {"Device"})
    \cup ({"hip"} \X {"f32"} \X {"Block"})
    \cup ({"host"} \X {"u32", "f32"} \X {"Block"})

AllKernels == UNION {Kernels(p[1], p[2], p[3]) : p \in Targets}

\* A host Cas compares floating point values: its kernels here have no value
\* that differs from its bits in comparison.
ComparesSpecials(j) ==
    /\ j.api = "host" /\ IsFloat(j.type)
    /\ \E t \in Thread : \E c \in CallsOf(j, t) : c.op = "Cas"
    /\ \/ \E c \in Cell : j.initial[c] \in Special
       \/ \E t \in Thread : \E c \in CallsOf(j, t) : c.value \in Special

MCJobs == {j \in AllKernels : ~ComparesSpecials(j)}
==============================================================================
