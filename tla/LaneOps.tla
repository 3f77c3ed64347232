------------------------------- MODULE LaneOps -------------------------------
(***************************************************************************)
(* Packs of lanes and their masks: Simd and SimdMask on std::simd ("std")  *)
(* or on an array ("emu"), and Vec ("vec"). A program of operations runs   *)
(* on two packs, a mask and the memory they are loaded from, and beside it *)
(* the same program on plain scalars, one for every lane.                  *)
(*                                                                         *)
(* An array keeps a mask of types of four or eight bytes as words with all *)
(* bits set or none, and blends with it. A word is a number up to Ones.    *)
(***************************************************************************)
EXTENDS Integers, Sequences, SequencesExt

CONSTANTS Jobs,        \* [storage, wordMask, sycl, width, align, memory]
          Ones,        \* the word with all bits set
          AndBits(_, _), OrBits(_, _), XorBits(_, _),   \* bitwise operators of the compiler
          MaxSelected, \* bound on the components that are selected from a vector
          MaxOps       \* bound on the length of a program

VARIABLES
    job,
    pack,       \* [a, b -> sequence of words]
    mask,       \* sequence of lanes as they are stored
    memory,     \* the elements of an MdSpan, aligned to job.align elements
    scalar,     \* [a, b, mask, memory], by plain scalars
    out,        \* a result that is no pack of this width, and by scalars
    fault,      \* an aligned access was not aligned
    ops         \* operations done

vars == <<job, pack, mask, memory, scalar, out, fault, ops>>

Word == 0 .. Ones

WordsAreBinary ==
    /\ Ones \in Nat /\ Ones >= 3      \* no word is of one bit
    /\ \A x \in Word : /\ AndBits(Ones, x) = x /\ AndBits(x, Ones) = x
                      /\ AndBits(0, x) = 0 /\ AndBits(x, 0) = 0 /\ AndBits(x, x) = x
                      /\ OrBits(0, x) = x /\ OrBits(x, 0) = x /\ OrBits(x, x) = x
                      /\ XorBits(0, x) = x /\ XorBits(x, 0) = x /\ XorBits(x, x) = 0

IsSimd == job.storage \in {"emu", "std"}
Blends == job.storage = "emu" /\ job.wordMask

-----------------------------------------------------------------------------
Scalar(op, x, y) == CASE op = "+" -> (x + y) % (Ones + 1)
                      [] op = "-" -> (x - y) % (Ones + 1)
                      [] op = "*" -> (x * y) % (Ones + 1)
                      [] op = "=" -> y
                      [] op = "min" -> IF y < x THEN y ELSE x
                      [] op = "neg" -> (-x) % (Ones + 1)

Compared(op, x, y) == CASE op = "<"  -> x < y
                        [] op = ">=" -> x >= y
                        [] op = "==" -> x = y

Combined(op, p, q) == CASE op = "&&" -> p /\ q
                        [] op = "||" -> p \/ q
                        [] op = "!=" -> p # q

Operated(op, x, y) == [l \in DOMAIN x |-> Scalar(op, x[l], y[l])]

\* A mask as scalars see it.
Comparison(op, x, y) == [l \in DOMAIN x |-> Compared(op, x[l], y[l])]

\* A change to the code that this project must notice: true is one.
CastToOne(c) == IF c THEN 1 ELSE 0

\* -static_cast<ValueMaskType>(condition) for words, the condition otherwise.
ValueMaskCast(c) == IF ~c THEN 0 ELSE IF Blends THEN Ones ELSE 1

IsTrue(m) == m # 0

\* A comparison of two packs, and of two masks: for != the words are compared.
CompareMask(op, x, y) == [l \in DOMAIN x |-> ValueMaskCast(Compared(op, x[l], y[l]))]

CombineMask(op, p, q) ==
    [l \in DOMAIN p |-> ValueMaskCast(IF op = "!=" THEN p[l] # q[l]
                                      ELSE Combined(op, IsTrue(p[l]), IsTrue(q[l])))]

-----------------------------------------------------------------------------
(* Memory.                                                                  *)

\* Alignment of a pack, in elements.
OptimalAlignment(n) == IF n % 2 = 0 /\ n \in {2^k : k \in 1 .. n} THEN n ELSE 1

\* A pointer that was moved by operator[] is aligned to elements only.
PtrAlignment(moved) == IF moved THEN 1 ELSE job.align

AlignedAccess(moved) == PtrAlignment(moved) % OptimalAlignment(job.width) = 0

Faults(at, moved) == AlignedAccess(moved) /\ at % OptimalAlignment(job.width) # 0

LoadAsSimd(at) == [l \in 1 .. job.width |-> memory[at + l]]

Stored(cells, at, p) ==
    [i \in DOMAIN cells |-> IF i - at \in DOMAIN p THEN p[i - at] ELSE cells[i]]

\* Where packs fit, and start at a multiple of their width unless moved.
Positions(moved) == {at \in 0 .. Len(memory) - job.width : moved \/ at % job.width = 0}

-----------------------------------------------------------------------------
(* Blends of where(mask, value).                                            *)

\* (mask & t) | (~mask & own)
Blend(m, t, own) == OrBits(AndBits(m, t), AndBits(Ones - m, own))

\* EmuSimd evaluates value op rhs for all lanes, std::simd for those of the mask.
Updated(m, op, own, rhs) ==
    [l \in DOMAIN own |->
        LET t == Scalar(op, own[l], rhs[l])
        IN  IF Blends THEN Blend(m[l], t, own[l])
            ELSE IF IsTrue(m[l]) THEN t ELSE own[l]]

-----------------------------------------------------------------------------
(* Results with other lanes. Lanes count from 0 as in the code.             *)

Lane(i) == pack.a[i + 1]

Revert == [l \in 1 .. job.width |-> Lane(job.width - l)]

RShrink(n) == [l \in 1 .. n |-> Lane(job.width - 1 - (n - l))]

\* Wraps where the begin of the pack is reached.
RShrinkAt(n, start) == [l \in 1 .. n |-> Lane((job.width + start - (n - l)) % job.width)]

\* Lanes and components by name: a pack counts from the first, a Vec from the last.
Names == <<"x", "y", "z", "w">>
SimdLaneOf(name) == CHOOSE l \in 1 .. 4 : Names[l] = name
VecLaneOf(name)  == job.width + 1 - CHOOSE l \in 1 .. 4 : Names[l] = name
LaneOf(name)     == IF IsSimd THEN SimdLaneOf(name) ELSE VecLaneOf(name)

EraseBack == [l \in 1 .. job.width - 1 |-> Lane(l - 1)]

RemoveLane(lane) == [l \in 1 .. job.width - 1 |-> Lane(IF l - 1 >= lane THEN l ELSE l - 1)]

\* v[selection] and v.ref(selection) op= value, for a Vec: a copy of selected
\* elements, and references to them assigned one after the other.
Swizzle(p, sel) == [i \in DOMAIN sel |-> p[sel[i]]]

AssignedRefs(op, p, sel, value) ==
    LET after[i \in 0 .. Len(sel)] ==
            IF i = 0 THEN p ELSE [after[i - 1] EXCEPT ![sel[i]] = Scalar(op, @, value[i])]
    IN  after[Len(sel)]

Selections == UNION {[1 .. n -> 1 .. job.width] : n \in 1 .. MaxSelected}

\* reduce_range, for every size and first lane, with a function that need not be
\* commutative: here it joins sequences. SYCL has no recursion and goes from lane to lane.
ReduceRange(lanes) ==
    LET n == Len(lanes)
        range[size \in 1 .. n] ==
            LET left == IF job.sycl THEN size - 1 ELSE size \div 2
            IN  [first \in 1 .. n - size + 1 |->
                    IF size = 1 THEN <<lanes[first]>>
                    ELSE range[left][first] \o range[size - left][first + left]]
    IN  range[n][1]

-----------------------------------------------------------------------------
Init == /\ job \in Jobs
        /\ memory = job.memory
        /\ pack = [r \in {"a", "b"} |-> [l \in 1 .. job.width |-> 0]]
        /\ mask = [l \in 1 .. job.width |-> 0]
        /\ scalar = [a |-> pack.a, b |-> pack.b, mask |-> [l \in 1 .. job.width |-> FALSE],
                     memory |-> memory]
        /\ out = [got |-> <<>>, expected |-> <<>>]
        /\ fault = FALSE
        /\ ops = 0

Operation == ops < MaxOps /\ ops' = ops + 1 /\ UNCHANGED job

\* SimdPtr::load; a Vec is made of values.
Load(r) ==
    /\ Operation
    /\ \E moved \in IF IsSimd THEN BOOLEAN ELSE {TRUE} : \E at \in Positions(moved) :
          /\ pack' = [pack EXCEPT ![r] = LoadAsSimd(at)]
          /\ scalar' = [scalar EXCEPT ![r] = SubSeq(scalar.memory, at + 1, at + job.width)]
          /\ fault' = (fault \/ Faults(at, moved))
    /\ UNCHANGED <<mask, memory, out>>

\* SimdPtr::storeTo
Store ==
    /\ Operation /\ IsSimd
    /\ \E moved \in BOOLEAN : \E at \in Positions(moved) :
          /\ memory' = Stored(memory, at, pack.a)
          /\ scalar' = [scalar EXCEPT !.memory =
                            SubSeq(@, 1, at) \o scalar.a \o SubSeq(@, at + job.width + 1, Len(@))]
          /\ fault' = (fault \/ Faults(at, moved))
    /\ UNCHANGED <<pack, mask, out>>

Operate(op) ==
    /\ Operation
    /\ pack' = [pack EXCEPT !.a = Operated(op, @, pack.b)]
    /\ scalar' = [scalar EXCEPT !.a = Operated(op, @, scalar.b)]
    /\ UNCHANGED <<mask, memory, out, fault>>

\* a op= value
AssignValue(op, value) ==
    /\ Operation
    /\ pack' = [pack EXCEPT !.a = Operated(op, @, [l \in DOMAIN @ |-> value])]
    /\ scalar' = [scalar EXCEPT !.a = [l \in DOMAIN @ |-> Scalar(op, @[l], value)]]
    /\ UNCHANGED <<mask, memory, out, fault>>

\* A lane is assigned through the name that it has in the order of coordinates.
SetNamedLane(name, value) ==
    /\ Operation
    /\ LaneOf(name) \in 1 .. job.width
    /\ pack' = [pack EXCEPT !.a[LaneOf(name)] = value]
    /\ LET names == [k \in 1 .. job.width |-> IF k \in DOMAIN Names THEN Names[k] ELSE "none"]
           order == IF IsSimd THEN names ELSE Reverse(names)
       IN  scalar' = [scalar EXCEPT !.a = [l \in DOMAIN @ |-> IF order[l] = name THEN value ELSE @[l]]]
    /\ UNCHANGED <<mask, memory, out, fault>>

\* a.ref(selection) op= value, where a value that stems from a is a copy.
AssignSelected(op) ==
    /\ Operation /\ ~IsSimd
    /\ \E sel \in {x \in Selections : IsInjective(x)}, r \in {"a", "b"} :
          /\ pack' = [pack EXCEPT !.a = AssignedRefs(op, @, sel, Swizzle(pack[r], Reverse(sel)))]
          /\ scalar' = [scalar EXCEPT !.a =
                [l \in DOMAIN @ |-> IF \E i \in DOMAIN sel : sel[i] = l
                                    THEN LET i == CHOOSE i \in DOMAIN sel : sel[i] = l
                                         IN  Scalar(op, @[l], scalar[r][sel[Len(sel) + 1 - i]])
                                    ELSE @[l]]]
    /\ UNCHANGED <<mask, memory, out, fault>>

\* The operators == and != of a Vec compare it as a whole.
Compare(op) ==
    /\ Operation
    /\ op = "==" => IsSimd
    /\ mask' = CompareMask(op, pack.a, pack.b)
    /\ scalar' = [scalar EXCEPT !.mask = Comparison(op, scalar.a, scalar.b)]
    /\ UNCHANGED <<pack, memory, out, fault>>

\* mask op (a < b)
Combine(op) ==
    /\ Operation
    /\ op = "!=" => IsSimd
    /\ mask' = CombineMask(op, mask, CompareMask("<", pack.a, pack.b))
    /\ scalar' = [scalar EXCEPT !.mask =
                      [l \in DOMAIN @ |-> Combined(op, @[l], scalar.a[l] < scalar.b[l])]]
    /\ UNCHANGED <<pack, memory, out, fault>>

\* A lane of a mask is assigned through a SmartMaskValueRef.
AssignedRef(op, m, v) == CASE op = "=" -> v [] op = "|=" -> OrBits(m, v)
                           [] op = "&=" -> AndBits(m, v) [] op = "^=" -> XorBits(m, v)

\* SimdMask::fill, and a mask of one truth value per lane.
MaskOf(c) == [l \in DOMAIN c |-> ValueMaskCast(c[l])]

MakeMask ==
    /\ Operation /\ IsSimd
    /\ \E c \in [1 .. job.width -> BOOLEAN] :
          mask' = MaskOf(c) /\ scalar' = [scalar EXCEPT !.mask = c]
    /\ UNCHANGED <<pack, memory, out, fault>>

SetLane(op, c) ==
    /\ Operation /\ IsSimd
    /\ \E l \in 1 .. job.width :
          /\ mask' = [mask EXCEPT ![l] = AssignedRef(op, @, ValueMaskCast(c))]
          /\ scalar' = [scalar EXCEPT !.mask[l] = CASE op = "="  -> c [] op = "|=" -> @ \/ c
                                                    [] op = "&=" -> @ /\ c [] op = "^=" -> @ # c]
    /\ UNCHANGED <<pack, memory, out, fault>>

\* where(mask, a) op rhs
Where(op) ==
    /\ Operation /\ IsSimd
    /\ \E s \in BOOLEAN, v \in {1, 2} :
          LET rhs(x) == IF s THEN [l \in 1 .. job.width |-> v] ELSE x
          IN  /\ pack' = [pack EXCEPT !.a = Updated(mask, op, @, rhs(pack.b))]
              /\ scalar' = [scalar EXCEPT !.a =
                    [l \in DOMAIN @ |-> IF scalar.mask[l] THEN Scalar(op, @[l], rhs(scalar.b)[l])
                                                          ELSE @[l]]]
    /\ UNCHANGED <<mask, memory, out, fault>>

Gives(got, expected) ==
    /\ Operation
    /\ out' = [got |-> got, expected |-> expected]
    /\ UNCHANGED <<pack, mask, memory, scalar, fault>>

\* The last n lanes of the pack up to a lane, the pack being repeated before it.
EndingAt(n, start) == LET twice == scalar.a \o scalar.a
                      IN  SubSeq(twice, job.width + start + 2 - n, job.width + start + 1)

Rearrange ==
    \/ Gives(Revert, Reverse(scalar.a))
    \/ \E n \in 1 .. job.width : Gives(RShrink(n), EndingAt(n, job.width - 1))
    \/ \E n \in 1 .. job.width, start \in 0 .. job.width - 1 :
          Gives(RShrinkAt(n, start), EndingAt(n, start))
    \/ job.width > 1 /\ Gives(EraseBack, Front(scalar.a))
    \/ job.width > 1 /\ \E lane \in 0 .. job.width - 1 : Gives(RemoveLane(lane), RemoveAt(scalar.a, lane + 1))

ReducePack == Gives(ReduceRange(pack.a), scalar.a)
ReduceMask == Gives([l \in 1 .. job.width |-> IsTrue(ReduceRange(mask)[l])], scalar.mask)

Next == \/ \E r \in {"a", "b"} : Load(r)
        \/ Store
        \/ \E op \in {"+", "-", "*", "=", "min", "neg"} : Operate(op)
        \/ \E op \in {"=", "+"} : AssignSelected(op)
        \/ \E op \in {"<", ">=", "=="} : Compare(op)
        \/ \E op \in {"&&", "||", "!="} : Combine(op)
        \/ MakeMask
        \/ \E op \in {"=", "|=", "&=", "^="}, c \in BOOLEAN : SetLane(op, c)
        \/ \E op \in {"=", "+", "-", "*"} : Where(op)
        \/ \E op \in {"+", "="}, value \in {3} : AssignValue(op, value)
        \/ \E n \in DOMAIN Names : SetNamedLane(Names[n], 3)
        \/ Rearrange
        \/ ReducePack \/ ReduceMask

-----------------------------------------------------------------------------
\* A vector has no packs in memory and no alignment.
Legal(j) == /\ j.width \in 1 .. Len(j.memory)
            /\ j.align \in Nat \ {0} /\ j.storage \in {"emu", "std", "vec"}
            /\ j.wordMask \in BOOLEAN /\ j.sycl \in BOOLEAN /\ j.memory \in Seq(Word)
            /\ j.storage = "std" => j.width \in {1, 2, 4, 8}
            /\ j.storage = "vec" => ~j.wordMask

\* Whatever the storage and the form of its masks, every lane is what a scalar
\* program would make of it, reductions keep the order of the lanes, and packs
\* are never accessed as aligned where they are not.
PacksAreLanewise ==
    /\ pack.a = scalar.a /\ pack.b = scalar.b
    /\ \A l \in DOMAIN mask : IsTrue(mask[l]) = scalar.mask[l]
    /\ memory = scalar.memory
    /\ out.got = out.expected
    /\ ~fault
=============================================================================
