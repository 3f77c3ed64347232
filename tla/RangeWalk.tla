----------------------------- MODULE RangeWalk -----------------------------
(***************************************************************************)
(* An index range on its own (mem/IdxRange.hpp): it is made, scaled,        *)
(* shifted and cast to another index type, and then walked by one thread,   *)
(* as a whole with begin() and end() or direction by direction              *)
(* (mem/BoundaryIter.hpp, makeDirectionSubRange).  A generator of linear    *)
(* indices (mem/LinearizedIdxGenerator.hpp) is read along the way.          *)
(*                                                                         *)
(* Index types are unsigned: an index of width w is a number modulo 2^w,    *)
(* `word` is 2^w.  A range may be shifted below zero and back.              *)
(***************************************************************************)
EXTENDS FlatIdxContainer, DataLayout

CONSTANTS Jobs,     \* ranges to make, halos, and how each of them is walked
          Words,    \* the index types
          SubWord,  \* the index type of the part of a range in a direction
          Factors,  \* what a range is scaled with
          Shifts,   \* what it is shifted by
          MaxOps, Nothing

VARIABLES job, range,
          ops,      \* what was done to the range
          dir, it,  \* where the walk is
          walked,   \* positions in the order of the walk
          counted   \* directions that were entered, by what they describe
vars == <<job, range, ops, dir, it, walked, counted>>

Wrap(v, word) == [d \in DOMAIN v |-> v[d] % word]
Dims(r) == Len(r.begin)

----------------------------------------------------------------------------
\* The three constructors: extents; begin and end; begin, end and stride.
RangeTo(extents, word) ==
    [begin |-> Fill(extents, 0), end |-> extents, stride |-> Fill(extents, 1), word |-> word]
RangeFrom(begin, end, word) ==
    [begin |-> begin, end |-> end, stride |-> Fill(end, 1), word |-> word]
RangeWith(begin, end, stride, word) ==
    [begin |-> begin, end |-> end, stride |-> stride, word |-> word]

MakeRange(j) == CASE j.ctor = "extents" -> RangeTo(j.end, j.word)
                  [] j.ctor = "ends"    -> RangeFrom(j.begin, j.end, j.word)
                  [] j.ctor = "stride"  -> RangeWith(j.begin, j.end, j.stride, j.word)

\* operator%, operator>>, operator<<.
Scaled(r, f)      == [r EXCEPT !.stride = Wrap(Times(@, f), r.word)]
Shifted(r, v)     == [r EXCEPT !.begin = Wrap(Plus(@, v), r.word), !.end = Wrap(Plus(@, v), r.word)]
ShiftedBack(r, v) == [r EXCEPT !.begin = Wrap(Minus(@, v), r.word), !.end = Wrap(Minus(@, v), r.word)]

\* pCast: every component is converted.
PCast(r, word) == [begin |-> Wrap(r.begin, word), end |-> Wrap(r.end, word),
                   stride |-> Wrap(r.stride, word), word |-> word]

Span(r) == Wrap(Distance(r), r.word)

\* Preconditions: the arithmetic that counts positions stays within the index
\* type, divCeil adds the stride to the distance before it divides.
Counts(r) == \A d \in DOMAIN r.begin : r.stride[d] > 0 /\ Span(r)[d] + r.stride[d] - 1 < r.word

----------------------------------------------------------------------------
(***************************************************************************)
(* begin() and end(): the flat container of one worker in the contiguous    *)
(* layout.  Positions are counted from the begin of the range, which is     *)
(* added in the index type.                                                *)
(***************************************************************************)
Walk(r) == Contiguous([begin |-> Fill(r.begin, 0), end |-> Span(r), stride |-> r.stride],
                      [idx |-> Fill(r.begin, 0), count |-> Fill(r.begin, 1)],
                      [d \in DOMAIN r.begin |-> d])

Here(r, i) == Wrap(Plus(r.begin, Deref(i)), r.word)

----------------------------------------------------------------------------
\* The direction of a walk over the whole range.
Whole == <<>>

\* makeCoreBoundaryDirection, and what directions describe.
CoreDirection(n) == [d \in 1..n |-> "MIDDLE"]

BoundaryDimensionality(b) == Cardinality({d \in DOMAIN b : b[d] = "MIDDLE"})
IsVertex(b)   == BoundaryDimensionality(b) = 0
IsEdge(b)     == BoundaryDimensionality(b) = 1
IsFace(b)     == BoundaryDimensionality(b) = 2
IsCell(b)     == BoundaryDimensionality(b) = 3
IsInterior(b) == BoundaryDimensionality(b) = Len(b)

Descriptions == {"vertex", "edge", "face", "cell", "interior"}
Describes(what, b) == CASE what = "vertex" -> IsVertex(b) [] what = "edge" -> IsEdge(b)
                        [] what = "face"   -> IsFace(b)   [] what = "cell" -> IsCell(b)
                        [] what = "interior" -> IsInterior(b)

\* The length of the container of directions.
NumDirections(n) == 3 ^ n

\* makeBoundaryDirIterator: without halos they are one, with one vector it
\* counts for both ends.
OneEverywhere(n) == [lower |-> [d \in 1..n |-> 1], upper |-> [d \in 1..n |-> 1]]
Symmetric(halos) == [lower |-> halos, upper |-> halos]
HalosOf(j) == CASE j.halos = <<>>     -> OneEverywhere(Len(j.end))
                [] Len(j.halos) = 1  -> Symmetric(j.halos[1])
                [] Len(j.halos) = 2  -> [lower |-> j.halos[1], upper |-> j.halos[2]]

\* makeDirectionSubRange: whatever the index type of the range, begin and end
\* of the part have another, fixed one.
MakeDirectionSubRange(r, b, h) ==
    LET Begin(d) == CASE b[d] = "LOWER"  -> r.begin[d]
                      [] b[d] = "UPPER"  -> r.end[d] - h.upper[d]
                      [] b[d] = "MIDDLE" -> r.begin[d] + h.lower[d]
        End(d)   == CASE b[d] = "LOWER"  -> r.begin[d] + h.lower[d]
                      [] b[d] = "UPPER"  -> r.end[d]
                      [] b[d] = "MIDDLE" -> r.end[d] - h.upper[d]
    IN  RangeWith(Wrap([d \in DOMAIN b |-> Begin(d)], SubWord),
                  Wrap([d \in DOMAIN b |-> End(d)], SubWord), r.stride, SubWord)

\* Preconditions of a walk over directions: no gaps, room for the halos, and
\* numbers that the index type of the parts can hold.
CanSplit(r, h) == \A d \in DOMAIN r.begin :
                     /\ r.stride[d] = 1
                     /\ h.lower[d] + h.upper[d] <= Span(r)[d]
                     /\ r.begin[d] <= r.end[d] /\ r.end[d] < SubWord

----------------------------------------------------------------------------
\* LinearizedIdxGenerator: the value at an index, and a pack of values whose
\* lanes go on in the fastest dimension.
Generated(extents, idx) == Linearize(extents, idx)
LoadAsSimd(extents, idx, width) ==
    [k \in 1..width |-> Generated(extents, [idx EXCEPT ![Len(idx)] = @ + k - 1])]

----------------------------------------------------------------------------
Init == /\ job \in Jobs
        /\ range = MakeRange(job)
        /\ ops = <<>> /\ dir = Nothing /\ it = Nothing /\ walked = <<>>
        /\ counted = [what \in Descriptions |-> 0]

MayChange == dir = Nothing /\ Len(ops) < MaxOps
Became(r, op) == /\ Counts(r)
                 /\ range' = r
                 /\ ops' = Append(ops, op)
                 /\ UNCHANGED <<job, dir, it, walked, counted>>

Scale == \E f \in Factors : /\ MayChange /\ Len(f) = Dims(range)
                            /\ \A d \in DOMAIN f : range.stride[d] * f[d] < range.word
                            /\ Became(Scaled(range, f), [op |-> "%", by |-> f])
Shift == \E v \in Shifts : /\ MayChange /\ Len(v) = Dims(range)
                           /\ Became(Shifted(range, v), [op |-> ">>", by |-> v])
ShiftBack == \E v \in Shifts : /\ MayChange /\ Len(v) = Dims(range)
                               /\ Became(ShiftedBack(range, v), [op |-> "<<", by |-> v])

\* Precondition: the distance and the stride fit into the new type, and a range
\* that goes on beyond the largest index is not cast to a wider one.
Cast == \E w \in Words \ {range.word} :
           /\ MayChange
           /\ \A d \in DOMAIN range.begin : /\ Span(range)[d] < w /\ range.stride[d] < w
                                            /\ w > range.word => range.begin[d] <= range.end[d]
           /\ Became(PCast(range, w), [op |-> "cast", by |-> w])

\* for(auto idx : range)
BeginWalk == /\ job.walk = "whole" /\ dir = Nothing
             /\ dir' = Whole
             /\ it' = Walk(range)
             /\ UNCHANGED <<job, range, ops, walked, counted>>

\* for(auto direction : makeBoundaryDirIterator(...)), or the core alone.
BeginDirections == /\ job.walk # "whole" /\ dir = Nothing
                   /\ CanSplit(range, HalosOf(job))
                   /\ dir' = IF job.walk = "core" THEN CoreDirection(Dims(range)) ELSE DirBegin(Dims(range))
                   /\ UNCHANGED <<job, range, ops, it, walked, counted>>

Part == IF dir = Whole THEN range ELSE MakeDirectionSubRange(range, dir, HalosOf(job))

AtSomeDirection == dir \notin {Nothing, Whole} /\ dir # DirEnd(Dims(range))

EnterDirection == /\ AtSomeDirection /\ it = Nothing
                  /\ it' = Walk(Part)
                  /\ counted' = [what \in Descriptions |->
                                   counted[what] + (IF Describes(what, dir) THEN 1 ELSE 0)]
                  /\ UNCHANGED <<job, range, ops, dir, walked>>

\* A walk over extents reads the generator of these extents.
Read(idx) == IF job.ctor = "extents" /\ ops = <<>>
             THEN LoadAsSimd(job.end, idx, Min({2, job.end[Len(idx)] - idx[Len(idx)]}))
             ELSE <<>>

Visit == /\ it # Nothing /\ ~AtEnd(it)
         /\ walked' = Append(walked, [at |-> Here(Part, it), in |-> dir, pack |-> Read(Here(Part, it))])
         /\ it' = Advance(it)
         /\ UNCHANGED <<job, range, ops, dir, counted>>

LeaveDirection == /\ AtSomeDirection /\ it # Nothing /\ AtEnd(it)
                  /\ dir' = IF job.walk = "core" THEN DirEnd(Dims(range)) ELSE DirNext(dir)
                  /\ it' = Nothing
                  /\ UNCHANGED <<job, range, ops, walked, counted>>

Next == \/ Scale \/ Shift \/ ShiftBack \/ Cast
        \/ BeginWalk \/ BeginDirections \/ EnterDirection \/ Visit \/ LeaveDirection

Spec == Init /\ [][Next]_vars

----------------------------------------------------------------------------
(***************************************************************************)
(* What the range stands for, told from how it was made: the positions of   *)
(* each dimension, in order.                                               *)
(***************************************************************************)
Every(s, f) == [k \in 1 .. (Len(s) + f - 1) \div f |-> s[(k - 1) * f + 1]]
Changed(s, op, d, word) ==
    CASE op.op = "%"    -> Every(s, op.by[d])
      [] op.op = ">>"   -> [k \in DOMAIN s |-> (s[k] + op.by[d]) % word]
      [] op.op = "<<"   -> [k \in DOMAIN s |-> (s[k] - op.by[d]) % word]
      [] op.op = "cast" -> [k \in DOMAIN s |-> s[k] % op.by]

Made(d) == LET first == IF job.ctor = "extents" THEN 0 ELSE job.begin[d]
               step  == IF job.ctor = "stride" THEN job.stride[d] ELSE 1
               all   == {p \in first .. job.end[d] - 1 : (p - first) % step = 0}
           IN  [k \in 1..Cardinality(all) |-> first + (k - 1) * step]

Coordinates(d) ==
    LET word[k \in 0..Len(ops)] == IF k = 0 THEN job.word
                                   ELSE IF ops[k].op = "cast" THEN ops[k].by ELSE word[k - 1]
        after[k \in 0..Len(ops)] == IF k = 0 THEN Made(d)
                                    ELSE Changed(after[k - 1], ops[k], d, word[k - 1])
    IN  after[Len(ops)]

Meant(k) ==
    LET sizes == [d \in 1..Dims(range) |-> Len(Coordinates(d))]
        at    == MapToND(sizes, k - 1)
    IN  [d \in 1..Dims(range) |-> Coordinates(d)[at[d] + 1]]
NumMeant == Product([d \in 1..Dims(range) |-> Len(Coordinates(d))])

Finished == IF job.walk = "whole" THEN dir = Whole /\ it # Nothing /\ AtEnd(it)
                                  ELSE dir = DirEnd(Dims(range))

\* A range that was scaled, shifted (below zero, too) and cast is walked in
\* row-major order over exactly the positions that this leaves; a generator
\* numbers the positions of its extents in that order, lane by lane.
WholeIsInOrder ==
    job.walk = "whole" =>
                  /\ \A k \in DOMAIN walked : /\ k <= NumMeant /\ walked[k].at = Meant(k)
                                              /\ \A l \in DOMAIN walked[k].pack : walked[k].pack[l] = k + l - 2
                  /\ Finished => Len(walked) = NumMeant

HaloWidth(side, d) == IF job.halos = <<>> THEN 1 ELSE job.halos[side][d]

\* Where a position lies, seen from the ends of the range.
Nearest(d, p) == LET k == p - range.begin[d] IN
                 CASE k < HaloWidth(1, d) -> "LOWER"
                   [] k >= Span(range)[d] - HaloWidth(Len(job.halos), d) -> "UPPER"
                   [] OTHER -> "MIDDLE"

\* Directions of n dimensions that leave m of them in the middle.
Expected(n, m) == IF m > n THEN 0 ELSE Cardinality(kSubset(m, 1..n)) * 2 ^ (n - m)

Missing == {p \in {Meant(k) : k \in 1..NumMeant} : \A k \in DOMAIN walked : walked[k].at # p}

\* The directions split a range: every position is walked once, in the direction
\* whose halos it lies in, and a volume has its number of vertices, edges, faces,
\* cells and its one interior; the core is what lies in no halo.
DirectionsSplit ==
    job.walk # "whole" =>
        /\ \A k, l \in DOMAIN walked : k # l => walked[k].at # walked[l].at
        /\ \A k \in DOMAIN walked : \A d \in DOMAIN range.begin :
               walked[k].in[d] = Nearest(d, walked[k].at[d])
        /\ Finished /\ job.walk = "core" =>
               \A p \in Missing : \E d \in DOMAIN p : Nearest(d, p[d]) # "MIDDLE"
        /\ Finished /\ job.walk = "directions" =>
               LET n == Dims(range) IN
               /\ Missing = {}
               /\ counted = [vertex |-> Expected(n, 0), edge |-> Expected(n, 1),
                             face |-> Expected(n, 2), cell |-> Expected(n, 3), interior |-> 1]
               /\ n <= 3 => NumDirections(n) = counted.vertex + counted.edge + counted.face + counted.cell
=============================================================================
