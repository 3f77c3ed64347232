----------------------------- MODULE DataLayout -----------------------------
(***************************************************************************)
(* How multidimensional data lies in memory (mem/DataPitches.hpp,           *)
(* api/util.hpp), what a view of it is (mem/View.hpp, mem/MdSpan.hpp), how  *)
(* a view is walked (mem/MdForwardIter.hpp) and how it is cut into its      *)
(* boundaries and its core (mem/BoundaryIter.hpp).  Vectors have their      *)
(* slowest component first; sizes and pitches are bytes.                    *)
(***************************************************************************)
EXTENDS IndexSpace, Integers, FiniteSets

\* The last n components, or the n components that end at position last.
RShrink(v, n)          == SubSeq(v, Len(v) - n + 1, Len(v))
RShrinkAt(v, n, last)  == SubSeq(v, last - n + 1, last)
EraseBack(v)           == SubSeq(v, 1, Len(v) - 1)

\* Vec::sum: the components are added from the first one on.
PrefixSums(v) == LET sum[k \in 0..Len(v)] == IF k = 0 THEN 0 ELSE sum[k - 1] + v[k] IN sum
Sum(v)        == PrefixSums(v)[Len(v)]

\* meta::ndLoopIncIdx: the indices in the order of the nested loops.
NdLoop(extents) == [k \in 1..Product(extents) |-> MapToND(extents, k - 1)]

----------------------------------------------------------------------------
\* Bytes from an element to the next one of each dimension, the row pitch given.
CalculatePitches(extents, row, size) ==
    LET n == Len(extents)
        pitch[d \in 1..n] == CASE d = n     -> size
                               [] d = n - 1 -> row
                               [] OTHER     -> extents[d + 1] * pitch[d + 1]
    IN  pitch

PitchesFromExtents(extents, size) ==
    CalculatePitches(extents, extents[Len(extents)] * size, size)

\* What an allocation of elements of size bytes asks for: rows begin aligned.
AlignedMemDescription(align, extents, size) ==
    LET n       == Len(extents)
        row     == ((extents[n] * size + align - 1) \div align) * align
        pitches == CalculatePitches(extents, row, size)
    IN  IF n = 1 THEN [bytes |-> extents[1] * size, pitches |-> <<size>>]
        ELSE [bytes |-> pitches[1] * extents[1], pitches |-> pitches]

----------------------------------------------------------------------------
\* A view: the address of its origin, extents, pitches and element size.
MakeView(ptr, extents, pitches, size) ==
    [ptr |-> ptr, extents |-> extents, pitches |-> pitches, size |-> size]

Ptr(view, idx) == view.ptr + Sum(Times(idx, view.pitches))

\* Precondition (asserted): offset + extents <= view.extents.
GetSubView(view, offset, extents) ==
    MakeView(Ptr(view, offset), extents, view.pitches, view.size)

(***************************************************************************)
(* A boundary direction names a part of every dimension; a view is cut      *)
(* there by the halos.  Precondition: the halos fit into the view.          *)
(***************************************************************************)
\* Mutant: the upper boundary begins one element early.
BoundaryViewOverlaps(view, dir, lower, upper) ==
    LET Offset(d) == CASE dir[d] = "LOWER"  -> 0
                       [] dir[d] = "UPPER"  -> view.extents[d] - upper[d] - 1
                       [] dir[d] = "MIDDLE" -> lower[d]
        Extent(d) == CASE dir[d] = "LOWER"  -> lower[d]
                       [] dir[d] = "UPPER"  -> upper[d]
                       [] dir[d] = "MIDDLE" -> view.extents[d] - lower[d] - upper[d]
    IN  GetSubView(view, [d \in DOMAIN dir |-> Offset(d)], [d \in DOMAIN dir |-> Extent(d)])

BoundaryView(view, dir, lower, upper) ==
    LET Offset(d) == CASE dir[d] = "LOWER"  -> 0
                       [] dir[d] = "UPPER"  -> view.extents[d] - upper[d]
                       [] dir[d] = "MIDDLE" -> lower[d]
        Extent(d) == CASE dir[d] = "LOWER"  -> lower[d]
                       [] dir[d] = "UPPER"  -> upper[d]
                       [] dir[d] = "MIDDLE" -> view.extents[d] - lower[d] - upper[d]
    IN  GetSubView(view, [d \in DOMAIN dir |-> Offset(d)], [d \in DOMAIN dir |-> Extent(d)])

----------------------------------------------------------------------------
(***************************************************************************)
(* The iterator over the directions: an odometer whose last digit moves     *)
(* fastest; when all digits wrap it is out of bounds, the end.              *)
(***************************************************************************)
Last3(d) == CASE d = "LOWER" -> "MIDDLE" [] d = "MIDDLE" -> "UPPER" [] d = "UPPER" -> "LOWER"

DirBegin(n) == [d \in 1..n |-> "LOWER"]
DirEnd(n)   == [d \in 1..n |-> "OOB"]

DirNext(dir) ==
    LET n     == Len(dir)
        Wraps(d) == \A e \in d + 1 .. n : dir[e] = "UPPER"
    IN  IF Wraps(0) THEN DirEnd(n)
        ELSE [d \in 1..n |-> IF Wraps(d) THEN Last3(dir[d]) ELSE dir[d]]

----------------------------------------------------------------------------
(***************************************************************************)
(* The forward iterator over the elements of a view.  The slowest component *)
(* never wraps: it reaches the extent at the end.                           *)
(***************************************************************************)
IterBegin(view) ==
    LET empty == \E d \in DOMAIN view.extents : view.extents[d] = 0
    IN  [d \in DOMAIN view.extents |-> IF d = 1 /\ empty THEN view.extents[1] ELSE 0]

IterAtEnd(view, current) == view.extents[1] <= current[1]

IterNext(view, current) ==
    LET n == Len(current)
        Carry(d) == \A e \in d + 1 .. n : current[e] + 1 >= view.extents[e]
    IN  [d \in 1..n |-> CASE ~Carry(d) -> current[d]
                          [] Carry(d) /\ d > 1 /\ current[d] + 1 >= view.extents[d] -> 0
                          [] OTHER -> current[d] + 1]
=============================================================================
