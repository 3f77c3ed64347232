-------------------------------- MODULE Warp --------------------------------
(***************************************************************************)
(* The warp functions of alpaka::onAcc::warp. The lanes of a warp that are *)
(* in the same branch of a kernel make a call together; the others are     *)
(* inactive. A program is the sequence of calls of that branch.            *)
(*                                                                         *)
(* What a lane holds is the bag of the lanes whose first values it has     *)
(* been made of, so that an exchange shows where its result comes from and *)
(* a sum what it is the sum of.                                            *)
(***************************************************************************)
EXTENDS Integers, Sequences

CONSTANT Jobs   \* [api, size, active, program]

VARIABLES
    warp,       \* the warp and what it is to do
    step,       \* the call that comes next
    held,       \* [lane -> bag of lanes], the variable that is exchanged
    answer      \* [lane -> result of its last vote]

vars == <<warp, step, held, answer>>

Lane == 0 .. warp.size - 1

NoBag == [l \in Lane |-> 0]

\* What is read from a lane that does not take part.
Unspecified == [l \in Lane |-> -1]

Added(a, b) == [l \in Lane |-> a[l] + b[l]]

Call == warp.program[step]

\* Exclusive or of lane numbers; a warp has up to 64 lanes.
Differs(a, b, k) == ((a \div k) + (b \div k)) % 2
Xor(a, b) ==
    Differs(a, b, 1) + 2 * Differs(a, b, 2) + 4 * Differs(a, b, 4)
        + 8 * Differs(a, b, 8) + 16 * Differs(a, b, 16) + 32 * Differs(a, b, 32)

\* A width of zero stands for the whole warp.
Width(c) == IF c.width # 0 THEN c.width ELSE warp.size

-----------------------------------------------------------------------------
(* Votes. A mask is the set of lanes whose bit is set.                     *)

Activemask == IF warp.api = "host" THEN {0} ELSE warp.active

Ballot(c) == c.predicate \cap Activemask

\* SYCL on AMD devices: activeMask & predicateMask == activeMask, where the
\* comparison binds first and its result is a mask with lane 0 or none.
All(c) ==
    CASE warp.api = "host"    -> 0 \in c.predicate
      [] warp.api = "syclAmd" ->
            Activemask \cap (IF Ballot(c) = Activemask THEN {0} ELSE {}) # {}
      [] OTHER                -> Activemask \subseteq c.predicate

Any(c) ==
    CASE warp.api = "host"    -> 0 \in c.predicate
      [] warp.api = "syclAmd" -> Activemask \cap Ballot(c) # {}
      [] OTHER                -> Activemask \cap c.predicate # {}

-----------------------------------------------------------------------------
(* Exchanges: the lane whose value lane l gets.                            *)

\* CUDA and HIP: __shfl_sync and its relatives, functions of the device.
NativeSource(c, l) ==
    LET start == (l \div Width(c)) * Width(c)
    IN  CASE c.op = "shfl" -> start + (c.arg % Width(c))
          [] c.op = "down" -> IF l - start + c.arg < Width(c) THEN l + c.arg ELSE l
          [] c.op = "up"   -> IF l - start >= c.arg THEN l - c.arg ELSE l
          [] c.op = "xor"  -> IF Xor(l, c.arg) < start + Width(c) THEN Xor(l, c.arg) ELSE l

\* A change to the SYCL code below that this project must notice: a shift down
\* stops at the end of the warp and not at that of the group.
SyclSourceOfWarp(c, l) ==
    LET start == (l \div Width(c)) * Width(c)
    IN  CASE c.op = "shfl" -> start + (c.arg % Width(c))
          [] c.op = "down" ->
                IF l + c.arg >= warp.size THEN l ELSE l + c.arg
          [] c.op = "up"   -> IF l - start < c.arg THEN l ELSE l - c.arg
          [] c.op = "xor"  ->
                LET source == Xor(l - start, c.arg)
                IN  IF source < Width(c) THEN start + source ELSE l

\* SYCL: shifts and selections of the whole sub-group, made to respect width.
\* The result of a shift past the end of the sub-group is not used.
SyclSource(c, l) ==
    LET start == (l \div Width(c)) * Width(c)
    IN  CASE c.op = "shfl" -> start + (c.arg % Width(c))
          [] c.op = "down" ->
                IF l + c.arg >= start + Width(c) THEN l ELSE l + c.arg
          [] c.op = "up"   -> IF l - start < c.arg THEN l ELSE l - c.arg
          [] c.op = "xor"  ->
                LET source == Xor(l - start, c.arg)
                IN  IF source < Width(c) THEN start + source ELSE l

Source(c, l) ==
    CASE warp.api = "host"                -> l
      [] warp.api \in {"cuda", "hip"}     -> NativeSource(c, l)
      [] warp.api \in {"sycl", "syclAmd"} -> SyclSource(c, l)

Exchanged(c, l) ==
    LET s == Source(c, l)
    IN  IF s \in warp.active THEN held[s] ELSE Unspecified

-----------------------------------------------------------------------------
Votes     == {"all", "any", "ballot", "activemask"}
Exchanges == {"shfl", "down", "up", "xor"}

Init == /\ warp \in Jobs
        /\ step = 1
        /\ held = [l \in Lane |-> [NoBag EXCEPT ![l] = 1]]
        /\ answer = [l \in Lane |-> {}]

Running(ops) == /\ step <= Len(warp.program)
                /\ Call.op \in ops

Voted(c) == CASE c.op = "all"        -> {All(c)}
              [] c.op = "any"        -> {Any(c)}
              [] c.op = "ballot"     -> Ballot(c)
              [] c.op = "activemask" -> Activemask

Vote ==
    /\ Running(Votes)
    /\ answer' = [l \in Lane |-> IF l \in warp.active THEN Voted(Call) ELSE answer[l]]
    /\ step' = step + 1
    /\ UNCHANGED <<warp, held>>

\* With "add" the result is added to the variable: one step of a sum.
Exchange ==
    /\ Running(Exchanges)
    /\ held' = [l \in Lane |-> IF l \notin warp.active THEN held[l]
                             ELSE IF Call.add THEN Added(held[l], Exchanged(Call, l))
                             ELSE Exchanged(Call, l)]
    /\ step' = step + 1
    /\ UNCHANGED <<warp, answer>>

Next == Vote \/ Exchange

-----------------------------------------------------------------------------
(* What the callers guarantee: a warp of the host has one lane, a width is  *)
(* a power of two up to the size of the warp, and a program that adds what  *)
(* it gets is the sum of the whole warp (docs/snippets/example/190_warp.cpp) *)
(* by shifts down, each half as far as the one before.                      *)
Sizes == {1, 2, 4, 8, 16, 32, 64}

IsCall(size, c) ==
    \/ c.op \in Votes /\ c.predicate \subseteq 0 .. size - 1
    \/ /\ c.op \in Exchanges
       /\ c.arg \in Nat
       /\ c.width \in {0} \cup {w \in Sizes : w <= size}
       /\ c.add \in BOOLEAN

Adds(program) == \E i \in DOMAIN program : program[i].op \in Exchanges /\ program[i].add

IsSum(j) ==
    /\ j.active = 0 .. j.size - 1
    /\ \A i \in DOMAIN j.program : LET c == j.program[i] IN c.op = "down" /\ c.add /\ c.width = 0
    /\ 2 * j.program[1].arg = j.size
    /\ \A i \in 2 .. Len(j.program) : 2 * j.program[i].arg = j.program[i - 1].arg
    /\ j.program[Len(j.program)].arg = 1

Legal(j) == /\ j.api \in {"host", "cuda", "hip", "sycl", "syclAmd"}
            /\ j.size \in Sizes
            /\ j.api = "host" => j.size = 1
            /\ j.active # {} /\ j.active \subseteq 0 .. j.size - 1
            /\ j.program \in Seq({j.program[i] : i \in DOMAIN j.program})
            /\ \A i \in DOMAIN j.program : IsCall(j.size, j.program[i])
            /\ Adds(j.program) => IsSum(j)

-----------------------------------------------------------------------------
(* The comments of onAcc/warp.hpp, which give the program with an array in *)
(* shared memory that an exchange is equal to.                             *)
Documented(c, l) ==
    CASE c.op = "shfl" -> Width(c) * (l \div Width(c)) + (c.arg % Width(c))
      [] c.op = "down" -> IF (l % Width(c)) + c.arg < Width(c) THEN l + c.arg ELSE l
      [] c.op = "up"   -> IF l % Width(c) >= c.arg THEN l - c.arg ELSE l
      [] c.op = "xor"  ->
            LET lane == Xor(l, c.arg)
            IN  IF lane \div Width(c) > l \div Width(c) THEN l ELSE lane

DocumentedVote(c) ==
    CASE c.op = "all"        -> {warp.active \subseteq c.predicate}
      [] c.op = "any"        -> {warp.active \cap c.predicate # {}}
      [] c.op = "ballot"     -> warp.active \cap c.predicate
      [] c.op = "activemask" -> warp.active

\* The one call of a program gives every lane what is documented; what a lane
\* that does not take part would give is left open.
\* Two cases are excepted, see the README: all() on AMD devices under SYCL, and
\* an exclusive or on SYCL that leaves the group.
Excepted(c) == \/ warp.api = "syclAmd" /\ c.op = "all" /\ 0 \notin warp.active
               \/ /\ warp.api \in {"sycl", "syclAmd"}
                  /\ c.op = "xor"
                  /\ c.arg >= Width(c)

Sums == Adds(warp.program)

Returned == ~Sums /\ Len(warp.program) = 1 /\ step = 2

IsExact(c) ==
    \A l \in warp.active :
        IF c.op \in Votes THEN answer[l] = DocumentedVote(c)
        ELSE Documented(c, l) \in warp.active =>
                 held[l] = [NoBag EXCEPT ![Documented(c, l)] = 1]

CallsAreExact == Returned => Excepted(warp.program[1]) \/ IsExact(warp.program[1])

\* The sum by shifts down (docs/source/tutorial/warp.rst) has every lane once.
SumIsExact ==
    Sums /\ step > Len(warp.program) => held[0] = [l \in Lane |-> 1]

AllCountsActiveLanes == Returned /\ warp.program[1].op = "all" => IsExact(warp.program[1])
=============================================================================
