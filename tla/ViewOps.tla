------------------------------ MODULE ViewOps ------------------------------
(***************************************************************************)
(* What the library does with views in a queue: onHost::memcpy and          *)
(* onHost::memset of the three families of back-ends (Memcpy::Op and        *)
(* Memset::Op in api/host, api/unifiedCudaHip and api/oneApi Queue.hpp),    *)
(* and the walk over the boundaries of a view.                             *)
(*                                                                         *)
(* Enqueuing decides on a list of native calls, one, two or three           *)
(* dimensional, that the queue executes one after the other.  Memory is a   *)
(* map from the bytes of the destination to the source bytes they hold.     *)
(***************************************************************************)
EXTENDS DataLayout

CONSTANTS Jobs, Nothing
(***************************************************************************)
(* A copy is a record [op |-> "memcpy", api, dst, src, extents] with views   *)
(* of allocations or of parts of them and the extents to copy; "memset" has *)
(* no source.  "global" copies one object to or from a global of the        *)
(* device.  A walk is [op |-> "walk", dst, lower, upper].                   *)
(***************************************************************************)
CopyFits(j) == \A d \in DOMAIN j.extents :
                  /\ j.extents[d] <= j.dst.extents[d]
                  /\ j.op # "memset" => j.extents[d] <= j.src.extents[d]
HalosFit(j) == \A d \in DOMAIN j.lower : j.lower[d] + j.upper[d] <= j.dst.extents[d]
Legal(j) == IF j.op = "walk" THEN HalosFit(j) ELSE CopyFits(j)

VARIABLES job,      \* what is done
          calls,    \* native calls not yet executed, Nothing before the job is enqueued
          written,  \* <<destination byte, source byte>> in the order of execution
          event,    \* SYCL: calls that are left when the event the queue keeps is complete
          dir,      \* walk: the boundary direction
          iter      \* walk: the iterator over the view of that direction
vars == <<job, calls, written, event, dir, iter>>

----------------------------------------------------------------------------
(***************************************************************************)
(* The native calls.  Only the bytes they move are of interest; height is   *)
(* how many rows lie between two slices.                                   *)
(***************************************************************************)
Copy1D(dst, src, width) == [b \in 1..width |-> <<dst + b - 1, src + b - 1>>]

Copy2D(dst, dstRow, src, srcRow, width, rows) ==
    [k \in 1 .. width * rows |->
        LET y == (k - 1) \div width   x == (k - 1) % width
        IN  <<dst + y * dstRow + x, src + y * srcRow + x>>]

Copy3D(dst, dstRow, dstHeight, src, srcRow, srcHeight, width, rows, slices) ==
    [k \in 1 .. width * rows * slices |->
        LET z == (k - 1) \div (width * rows)
            y == ((k - 1) \div width) % rows
            x == (k - 1) % width
        IN  <<dst + (z * dstHeight + y) * dstRow + x, src + (z * srcHeight + y) * srcRow + x>>]

----------------------------------------------------------------------------
\* y and z component of a vector, x being the last.
Y(v) == v[Len(v) - 1]
Z(v) == v[Len(v) - 2]
Back(v) == v[Len(v)]

\* sum of idx * pitches
Jump(idx, pitches) == Sum(Times(idx, pitches))

\* Memcpy::Op of the host queue: one copy per row.
HostCopies(j) ==
    LET n       == Len(j.extents)
        rows    == NdLoop(EraseBack(j.extents))
        RowCall(idx) == Copy1D(j.dst.ptr + Jump(idx, EraseBack(j.dst.pitches)),
                               j.src.ptr + Jump(idx, EraseBack(j.src.pitches)),
                               Back(j.extents) * j.dst.size)
    IN  IF n = 1 THEN <<Copy1D(j.dst.ptr, j.src.ptr, j.extents[1] * j.dst.size)>>
        ELSE [k \in DOMAIN rows |-> RowCall(rows[k])]

\* Mutant: only the destination is looked at.
IsContiguousDst(j, fixed) ==
    \A d \in 2 .. Len(j.extents) - fixed + 1 :
        j.extents[d] * j.dst.pitches[d] = j.dst.pitches[d - 1]

\* No padding above the dimensions that one native call handles: the blocks
\* of a dimension follow each other without a gap.
IsContiguous(j, fixed) ==
    \A d \in 2 .. Len(j.extents) - fixed + 1 :
        /\ j.extents[d] * j.dst.pitches[d] = j.dst.pitches[d - 1]
        /\ j.extents[d] * j.src.pitches[d] = j.src.pitches[d - 1]

\* memcopy3D: the three fast dimensions, for every index of the others.
MemCopy3D(repetitions, dstJump, srcJump, extents, j, dstPitches, srcPitches) ==
    LET loop == NdLoop(repetitions)
    IN  [k \in DOMAIN loop |->
            Copy3D(j.dst.ptr + Jump(loop[k], dstJump), Y(dstPitches), Z(dstPitches) \div Y(dstPitches),
                   j.src.ptr + Jump(loop[k], srcJump), Y(srcPitches), Z(srcPitches) \div Y(srcPitches),
                   Back(extents) * j.dst.size, Y(extents), Z(extents))]

\* Four and more dimensions without padding: all above y, x become the z of one call.
CudaFused(j) == LET e == j.extents IN <<Product(RShrinkAt(e, Len(e) - 2, Len(e) - 2)), Y(e), Back(e)>>

\* Memcpy::Op of the CUDA/HIP queue.
CudaCopies(j) ==
    LET e == j.extents
        n == Len(e)
        one == <<1, 1, 1>>
        zero == <<0, 0, 0>>
        outer == RShrinkAt(e, n - 3, n - 3)
    IN  CASE n = 1 -> <<Copy1D(j.dst.ptr, j.src.ptr, e[1] * j.dst.size)>>
          [] n = 2 -> <<Copy2D(j.dst.ptr, Y(j.dst.pitches), j.src.ptr, Y(j.src.pitches),
                               Back(e) * j.dst.size, Y(e))>>
          [] n = 3 -> MemCopy3D(one, zero, zero, e, j, j.dst.pitches, j.src.pitches)
          [] n >= 4 /\ IsContiguous(j, 3) ->
                MemCopy3D(one, zero, zero, CudaFused(j), j,
                          RShrink(j.dst.pitches, 3), RShrink(j.src.pitches, 3))
          [] n >= 4 /\ ~IsContiguous(j, 3) ->
                MemCopy3D(outer, RShrinkAt(j.dst.pitches, n - 3, n - 3),
                          RShrinkAt(j.src.pitches, n - 3, n - 3), e, j, j.dst.pitches, j.src.pitches)

\* memcopy2D of the SYCL queue.
MemCopy2D(repetitions, dstJump, srcJump, extents, j) ==
    LET loop == NdLoop(repetitions)
    IN  [k \in DOMAIN loop |->
            Copy2D(j.dst.ptr + Jump(loop[k], dstJump), Y(j.dst.pitches),
                   j.src.ptr + Jump(loop[k], srcJump), Y(j.src.pitches),
                   Back(extents) * j.dst.size, Y(extents))]

\* Memcpy::Op of the SYCL queue.
SyclCopies(j) ==
    LET e == j.extents
        n == Len(e)
        outer == RShrinkAt(e, n - 2, n - 2)
    IN  CASE n = 1 -> <<Copy1D(j.dst.ptr, j.src.ptr, e[1] * j.dst.size)>>
          [] n = 2 -> MemCopy2D(<<1, 1>>, <<0, 0>>, <<0, 0>>, e, j)
          [] n >= 3 /\ IsContiguous(j, 2) ->
                MemCopy2D(<<1, 1>>, <<0, 0>>, <<0, 0>>, <<Product(EraseBack(e)), Back(e)>>, j)
          [] n >= 3 /\ ~IsContiguous(j, 2) ->
                MemCopy2D(outer, RShrinkAt(j.dst.pitches, n - 2, n - 2),
                          RShrinkAt(j.src.pitches, n - 2, n - 2), e, j)

\* Memset::Op writes where a copy of the destination onto itself would: the
\* same native calls with one view.
OntoItself(j) == [j EXCEPT !.src = j.dst]
HostSets(j) == HostCopies(OntoItself(j))
CudaSets(j) == CudaCopies(OntoItself(j))
SyclSets(j) == SyclCopies(OntoItself(j))

\* MemcpyDeviceGlobal::Op: the bytes of one object, wherever the global lies.
GlobalCopies(j) == <<Copy1D(j.dst.ptr, j.src.ptr, j.dst.size)>>

Copies(j) == CASE j.api = "host" -> HostCopies(j)
               [] j.api = "cuda" -> CudaCopies(j)
               [] j.api = "sycl" -> SyclCopies(j)
Sets(j)   == CASE j.api = "host" -> HostSets(j)
               [] j.api = "cuda" -> CudaSets(j)
               [] j.api = "sycl" -> SyclSets(j)
CallsOf(j) == CASE j.op = "memcpy" -> Copies(j)
                [] j.op = "memset" -> Sets(j)
                [] j.op = "global" -> GlobalCopies(j)

----------------------------------------------------------------------------
Init == /\ job \in Jobs
        /\ calls = Nothing
        /\ written = <<>>
        /\ event = Nothing
        /\ dir = IF job.op = "walk" THEN DirBegin(Len(job.dst.extents)) ELSE Nothing
        /\ iter = Nothing

\* Which of its native calls the SYCL queue asks for an event: the one whose
\* index is the last of the repetitions.
EventCall(j) ==
    LET e    == j.extents
        both == IF j.op = "memset" THEN OntoItself(j) ELSE j
        reps == IF Len(e) >= 3 /\ ~IsContiguous(both, 2) THEN RShrinkAt(e, Len(e) - 2, Len(e) - 2) ELSE <<1>>
    IN  CHOOSE k \in 1..Product(reps) : NdLoop(reps)[k] = Minus(reps, Fill(reps, 1))

\* A copy is enqueued.  Nothing is to be done when an extent is zero; only the
\* one dimensional copy of a SYCL queue does not look.
Returns(j) == Product(j.extents) = 0 /\ ~(j.api = "sycl" /\ Len(j.extents) = 1)
Enqueue == /\ job.op # "walk"
           /\ calls = Nothing
           /\ calls' = IF Returns(job) THEN <<>> ELSE CallsOf(job)
           /\ event' = IF job.api = "sycl" /\ ~Returns(job)
                       THEN Len(calls') - EventCall(job) ELSE Nothing
           /\ UNCHANGED <<job, written, dir, iter>>

\* The queue executes the next native call.
NativeCall == /\ calls \notin {Nothing, <<>>}
              /\ written' = written \o Head(calls)
              /\ calls' = Tail(calls)
              /\ UNCHANGED <<job, event, dir, iter>>

Part == BoundaryView(job.dst, dir, job.lower, job.upper)

\* The walk enters the view of the direction.
EnterBoundary == /\ job.op = "walk"
                 /\ dir # DirEnd(Len(dir))
                 /\ iter = Nothing
                 /\ iter' = IterBegin(Part)
                 /\ UNCHANGED <<job, calls, written, event, dir>>

\* The next element of it.
VisitElement == /\ job.op = "walk"
                /\ iter # Nothing
                /\ ~IterAtEnd(Part, iter)
                /\ written' = Append(written, <<Ptr(Part, iter), dir>>)
                /\ iter' = IterNext(Part, iter)
                /\ UNCHANGED <<job, calls, event, dir>>

\* On to the next direction.
LeaveBoundary == /\ job.op = "walk"
                 /\ iter # Nothing
                 /\ IterAtEnd(Part, iter)
                 /\ dir' = DirNext(dir)
                 /\ iter' = Nothing
                 /\ UNCHANGED <<job, calls, written, event>>

Next == Enqueue \/ NativeCall \/ EnterBoundary \/ VisitElement \/ LeaveBoundary

Spec == Init /\ [][Next]_vars

----------------------------------------------------------------------------
\* All indices of a space.
Indices(extents) == {idx \in [DOMAIN extents -> 0 .. Max({0} \union Range(extents))] :
                        \A d \in DOMAIN extents : idx[d] < extents[d]}

\* The bytes of every element that is copied, wherever the two views lie.
Source == IF job.op = "memset" THEN job.dst ELSE job.src
Wanted == {<<Ptr(job.dst, idx) + b, Ptr(Source, idx) + b>> :
              idx \in Indices(job.extents), b \in 0 .. job.dst.size - 1}

Done == IF job.op = "walk" THEN dir = DirEnd(Len(dir)) ELSE calls = <<>>

\* memcpy and memset write exactly the elements of the extents, each byte once
\* and from its own source byte: no padding, nothing outside a sub-view, and
\* nothing is forgotten, however the dimensions are mapped to native calls.
\* The event that a SYCL queue keeps, for wait and isQueueEmpty, is complete
\* only when everything is written.
CopyIsExact ==
    job.op # "walk" =>
        /\ \A k \in DOMAIN written : written[k] \in Wanted
        /\ Cardinality(Range(written)) = Len(written)
        /\ Done => Range(written) = Wanted
        /\ event # Nothing /\ calls # Nothing =>
              (Len(calls) <= event => Range(written) = Wanted)

\* Lower halos, core and upper halos of all directions partition the view:
\* walking all directions visits each element exactly once, each in the
\* direction whose halos it lies in.
BoundariesPartition ==
    job.op = "walk" =>
        /\ \A k, l \in DOMAIN written : k # l => written[k][1] # written[l][1]
        /\ \A k \in DOMAIN written : \E idx \in Indices(job.dst.extents) :
            /\ written[k][1] = Ptr(job.dst, idx)
            /\ \A d \in DOMAIN idx :
                CASE written[k][2][d] = "LOWER"  -> idx[d] < job.lower[d]
                  [] written[k][2][d] = "UPPER"  -> idx[d] >= job.dst.extents[d] - job.upper[d]
                  [] written[k][2][d] = "MIDDLE" -> /\ idx[d] >= job.lower[d]
                                                    /\ idx[d] < job.dst.extents[d] - job.upper[d]
        /\ Done => Len(written) = Product(job.dst.extents)

\* Every allocation has room for its elements: distinct elements share no
\* byte, none lies outside, and rows begin at multiples of the alignment.
LayoutIsSound(a) ==
    LET view == MakeView(0, a.extents, AlignedMemDescription(a.align, a.extents, a.size).pitches, a.size)
        all  == Indices(a.extents)
    IN  /\ Cardinality({Ptr(view, i) : i \in all}) = Product(a.extents)
        /\ \A i \in all : /\ Ptr(view, i) % a.size = 0
                          /\ Ptr(view, i) + a.size <= AlignedMemDescription(a.align, a.extents, a.size).bytes
                          /\ Back(i) = 0 /\ Len(i) > 1 => Ptr(view, i) % a.align = 0
AllocationsAreSound ==
    job.op = "walk" => LayoutIsSound([extents |-> job.dst.extents, align |-> 4, size |-> job.dst.size])

=============================================================================
