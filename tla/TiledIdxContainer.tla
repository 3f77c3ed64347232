-------------------------- MODULE TiledIdxContainer --------------------------
(***************************************************************************)
(* Traversal of an index range dimension by dimension                       *)
(* (mem/TiledIdxContainer.hpp).  An iterator holds a multidimensional       *)
(* position; ++ moves the fastest selected dimension and carries into the   *)
(* next slower one.  Only the slowest selected dimension is compared with   *)
(* end(), so it alone never wraps.                                         *)
(***************************************************************************)
EXTENDS IndexSpace

(***************************************************************************)
(* const_iterator: first, extent and stride are full vectors; the worker    *)
(* starts at offset + first and a position is valid below offset + extent.  *)
(* A worker that starts outside the range in a faster dimension is sent to  *)
(* the end at once.                                                        *)
(***************************************************************************)
Iterator(offset, first, extent, stride, sel, end) ==
    LET start  == Plus(offset, first)
        limit  == Select(Plus(extent, offset), sel)
        valid  == \A k \in 2..Len(sel) : start[sel[k]] < limit[k]
    IN  [sel     |-> sel,
         first   |-> Select(start, sel),
         extent  |-> limit,
         stride  |-> Select(stride, sel),
         current |-> IF valid THEN start ELSE [start EXCEPT ![sel[1]] = limit[1]],
         end     |-> end]

Strided(range, space, sel) ==
    LET mapped == MapTo(space, sel)
    IN  Iterator(range.begin, Times(mapped.idx, range.stride), Distance(range),
                 Times(mapped.count, range.stride), sel,
                 Plus(range.begin, Distance(range))[sel[1]])

\* A chunk per worker and dimension, cropped to the end of the range.
Contiguous(range, space, sel) ==
    LET mapped   == MapTo(space, sel)
        chunk(i) == [d \in DOMAIN range.begin |->
                        ChunkBegin(Positions(range)[d], mapped.count[d], mapped.idx[d] + i)]
        first    == Times(chunk(0), range.stride)
        end      == [d \in DOMAIN first |->
                        LET e == chunk(1)[d] * range.stride[d]
                        IN  IF e < Distance(range)[d] THEN e ELSE Distance(range)[d]]
    IN  Iterator(range.begin, first, end, range.stride, sel,
                 Plus(range.begin, end)[sel[1]])

AtEnd(it) == it.current[it.sel[1]] >= it.end

Deref(it) == it.current

(***************************************************************************)
(* ++ from the fastest selected dimension: a dimension that reaches its     *)
(* extent goes back to its first position and the next slower one moves.   *)
(***************************************************************************)
Advance(it) ==
    LET next(k)  == it.current[it.sel[k]] + it.stride[k]
        wraps(k) == k >= 2 /\ next(k) >= it.extent[k]
        moves(k) == \A j \in k + 1 .. Len(it.sel) : wraps(j)
        value(k) == IF ~moves(k) THEN it.current[it.sel[k]]
                    ELSE IF wraps(k) THEN it.first[k]
                    ELSE next(k)
    IN  [it EXCEPT !.current = Assign(@, it.sel, [k \in DOMAIN it.sel |-> value(k)])]
=============================================================================
