-------------------------- MODULE FlatIdxContainer --------------------------
(***************************************************************************)
(* Traversal of an index range as one linear sequence                       *)
(* (mem/FlatIdxContainer.hpp).  An iterator counts through the positions of *)
(* the selected dimensions in row-major order; the other dimensions stay at *)
(* the begin of the range.  The range-based for loop compares the iterator  *)
(* with end(), which is one number; both are kept in one record here.      *)
(***************************************************************************)
EXTENDS IndexSpace

Iterator(range, space, sel, current, step, end) ==
    [offset  |-> Plus(range.begin,
                      Assign(Times(MapTo(space, sel).idx, range.stride), sel, Fill(sel, 0))),
     sel     |-> sel,
     extent  |-> Select(Positions(range), sel),
     stride  |-> Select(range.stride, sel),
     current |-> current,
     step    |-> step,
     end     |-> end]

\* begin() and end() of the strided layout: every worker takes each n-th position.
Strided(range, space, sel) ==
    LET mapped == MapTo(space, sel)
        counts == Select(mapped.count, sel)
    IN  Iterator(range, space, sel,
                 Linearize(counts, Select(mapped.idx, sel)),
                 Product(counts),
                 Product(Select(Positions(range), sel)))

(***************************************************************************)
(* begin() and end() of the contiguous layout: every worker takes one       *)
(* chunk.  begin() computes the worker's slot from the counts before        *)
(* mapTo, end() from the counts after it.                                  *)
(***************************************************************************)
Contiguous(range, space, sel) ==
    LET mapped  == MapTo(space, sel)
        n       == Product(Select(Positions(range), sel))
        before  == Select(space.count, sel)
        after   == Select(mapped.count, sel)
        idx     == Select(mapped.idx, sel)
        endSlot == Linearize(after, idx) + 1
        end     == ChunkBegin(n, Product(after), endSlot)
    IN  Iterator(range, space, sel,
                 ChunkBegin(n, Product(before), Linearize(before, idx)),
                 1,
                 IF end < n THEN end ELSE n)

AtEnd(it) == it.current >= it.end

Deref(it) ==
    LET moved == Times(MapToND(it.extent, it.current), it.stride)
    IN  Assign(it.offset, it.sel, Plus(Select(it.offset, it.sel), moved))

Advance(it) == [it EXCEPT !.current = @ + it.step]
=============================================================================
