----------------------------- MODULE IndexSpace -----------------------------
(***************************************************************************)
(* Index arithmetic shared by the index containers (include/alpaka/Vec.hpp, *)
(* mem/IdxRange.hpp, mem/ThreadSpace.hpp).  A vector is a sequence of       *)
(* naturals, its first component the slowest moving dimension, as in        *)
(* alpaka::Vec; a CVec selection is a sequence of dimensions (1-based here, *)
(* 0-based in the code).  All quantities are unsigned in the code and small *)
(* here, so no width is modelled.                                          *)
(***************************************************************************)
EXTENDS Naturals, Sequences, FiniteSetsExt, Functions

\* Components of v in the order in which the selection names its dimensions.
Select(v, sel) == [k \in DOMAIN sel |-> v[sel[k]]]

\* v with the components that the selection names replaced by those of w.
Assign(v, sel, w) ==
    [d \in DOMAIN v |-> IF d \in Range(sel) THEN w[CHOOSE k \in DOMAIN sel : sel[k] = d]
                                            ELSE v[d]]

Plus(u, v)    == [d \in DOMAIN u |-> u[d] + v[d]]
Times(u, v)   == [d \in DOMAIN u |-> u[d] * v[d]]
Minus(u, v)   == [d \in DOMAIN u |-> u[d] - v[d]]
DivCeil(u, v) == [d \in DOMAIN u |-> (u[d] + v[d] - 1) \div v[d]]
Fill(v, x)    == [d \in DOMAIN v |-> x]

\* Vec::product: the components are multiplied from the first one on.
PrefixProducts(v) == LET product[k \in 0..Len(v)] == IF k = 0 THEN 1 ELSE product[k - 1] * v[k] IN product
Product(v)        == PrefixProducts(v)[Len(v)]

\* Row-major position of idx in a space of the given extents.
Linearize(extents, idx) ==
    LET upTo[d \in DOMAIN idx] ==
            IF d = 1 THEN idx[1] ELSE upTo[d - 1] * extents[d] + idx[d]
    IN  upTo[Len(idx)]

\* Its inverse: the slowest component takes what is left over, it never wraps.
MapToND(extents, linearIdx) ==
    LET pitch(d) == Product(SubSeq(extents, d + 1, Len(extents)))
    IN  [d \in DOMAIN extents |->
            IF d = 1 THEN linearIdx \div pitch(1)
                     ELSE (linearIdx % pitch(d - 1)) \div pitch(d)]

----------------------------------------------------------------------------
\* Mutant: the remainder is given to nobody.
ChunkBeginTruncates(n, w, slot) == slot * (n \div w)

(***************************************************************************)
(* Distributing n elements over w slots in consecutive chunks: every slot   *)
(* gets n \div w elements and the first n % w slots one more.              *)
(***************************************************************************)
ChunkBegin(n, w, slot) ==
    slot * (n \div w) + (IF slot < n % w THEN slot ELSE n % w)

----------------------------------------------------------------------------
(***************************************************************************)
(* IdxRange: the positions begin, begin + stride, ... below end in every    *)
(* dimension.                                                              *)
(***************************************************************************)
Distance(range) == Minus(range.end, range.begin)

\* How many positions the range has in each dimension.
Positions(range) == DivCeil(Distance(range), range.stride)

(***************************************************************************)
(* ThreadSpace::mapTo.  The worker's index and the number of workers,       *)
(* expressed in the selected dimensions only: what the other dimensions     *)
(* hold moves to the first selected one.  The code moves all indices before *)
(* it moves the counts, so every moved index is scaled by the count the     *)
(* first selected dimension had at the start.                              *)
(***************************************************************************)
MapTo(space, sel) ==
    LET rest  == DOMAIN space.idx \ Range(sel)
        slow  == sel[1]
        moved == MapThenSumSet(LAMBDA d : space.idx[d] * space.count[slow], rest)
        Fold(v, x, unit) == [d \in DOMAIN v |-> IF d = slow THEN x
                                                ELSE IF d \in rest THEN unit ELSE v[d]]
        folded == [d \in DOMAIN space.count |-> IF d \in rest \union {slow} THEN space.count[d] ELSE 1]
    IN  [idx   |-> Fold(space.idx, space.idx[slow] + moved, 0),
         count |-> Fold(space.count, Product(folded), 1)]
=============================================================================
