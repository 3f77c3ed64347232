------------------------------ MODULE MCData --------------------------------
(***************************************************************************)
(* Data: operations on views (ViewOps), or operations on packs of lanes     *)
(* (LaneOps). One of the two runs, the variables of the other are idle.     *)
(* Copies of one to five dimensions between an aligned allocation and a     *)
(* packed one, of all of it or of a part; extents of zero, one and two.     *)
(***************************************************************************)
EXTENDS DataLayout

CONSTANTS ViewJobs,                                         \* of ViewOps
          PackJobs, Ones, AndBits(_, _), OrBits(_, _), XorBits(_, _),
          MaxSelected, MaxPackOps,                          \* of LaneOps
          Nothing

VARIABLES viewJob, copies, written, event, dir, iter,
          packJob, pack, mask, cells, scalar, out, fault, packOps

viewVars == <<viewJob, copies, written, event, dir, iter>>
packVars == <<packJob, pack, mask, cells, scalar, out, fault, packOps>>

Views == INSTANCE ViewOps WITH Jobs <- ViewJobs, job <- viewJob, calls <- copies
Packs == INSTANCE LaneOps WITH Jobs <- PackJobs, MaxOps <- MaxPackOps,
                              job <- packJob, memory <- cells, ops <- packOps

ASSUME ViewJobsAssumption == \A j \in ViewJobs : Views!Legal(j)
ASSUME PackJobsAssumption == \A j \in PackJobs : Packs!Legal(j)
ASSUME WordsAssumption == Packs!WordsAreBinary
ASSUME SelectionsAssumption == MaxSelected \in Nat

----------------------------------------------------------------------------

Packed(ptr, extents, size)  == MakeView(ptr, extents, PitchesFromExtents(extents, size), size)
Aligned(ptr, extents, size) == MakeView(ptr, extents, AlignedMemDescription(4, extents, size).pitches, size)

Vectors(n, values) == [1..n -> values]

\* Allocations that have slack behind the extents, seen through a sub-view.
AllocatedFor(extents, slack) == Plus(extents, slack)
Sub(view, extents, shift) ==
    IF shift THEN GetSubView(view, Minus(view.extents, extents), extents)
             ELSE GetSubView(view, Fill(extents, 0), extents)

CopiesOf(n, values, sizes, shifts) ==
    UNION {LET alloc == AllocatedFor(e, slack)
               here  == {Sub(Aligned(0, alloc, size), e, shift), Packed(0, e, size)}
               there == Packed(0, alloc, size)
           IN  {[op |-> "memcpy", api |-> api, dst |-> d, src |-> Sub(there, e, ~shift), extents |-> e] :
                   d \in here, api \in {"host", "cuda", "sycl"}}
               \union
               {[op |-> "memset", api |-> api, dst |-> d, src |-> Nothing, extents |-> e] :
                   d \in here, api \in {"host", "cuda", "sycl"}} :
           e \in Vectors(n, values), slack \in Vectors(n, {0, 1}), size \in sizes, shift \in shifts}

CopiesAndSets == CopiesOf(1, 0..3, {1, 2}, BOOLEAN) \union CopiesOf(2, 0..2, {1, 2}, BOOLEAN)
          \union CopiesOf(3, 0..2, {2}, BOOLEAN) \union CopiesOf(4, 1..2, {1}, {TRUE})
          \union {j \in CopiesOf(5, 1..2, {1}, {TRUE}) :
                    \E d \in 1..5 : /\ j.extents[d] = 2 /\ \A e \in d + 2 .. 5 : j.extents[e] = j.extents[d]
                                    /\ j.op = "memcpy"}

WalksOf(n, values) ==
    {w \in [op : {"walk"}, dst : {Aligned(0, e, 2) : e \in Vectors(n, values)},
            lower : Vectors(n, 0..1), upper : Vectors(n, 0..2)] :
        \A d \in 1..n : w.lower[d] + w.upper[d] <= w.dst.extents[d]}
Walks == WalksOf(1, 0..4) \union WalksOf(2, 0..3) \union WalksOf(3, 1..2)

Globals == {[op |-> "global", api |-> api, dst |-> Packed(0, <<1>>, 3), src |-> Packed(5, <<1>>, 3),
             extents |-> <<1>>] : api \in {"host", "cuda", "sycl"}}

CheckedViews == CopiesAndSets \union Walks \union Globals

----------------------------------------------------------------------------
\* Programs of three operations on packs of up to four lanes.
CheckedPacks ==
    {j \in [storage : {"emu", "std", "vec"}, wordMask : BOOLEAN, sycl : BOOLEAN, width : 1 .. 4,
            align : {1, 4}, memory : {<<1, 3, 0, 2, 2>>}] :
        /\ j.storage = "std" => j.width # 3 /\ ~j.sycl
        /\ j.storage = "vec" => ~j.wordMask /\ j.align = 1}

\* Words of two bits.
CheckedAnd(x, y) == 2 * ((x \div 2) * (y \div 2)) + (x % 2) * (y % 2)
CheckedOr(x, y)  == x + y - CheckedAnd(x, y)
CheckedXor(x, y) == CheckedOr(x, y) - CheckedAnd(x, y)

----------------------------------------------------------------------------
ViewsIdle == /\ viewJob = Nothing /\ copies = Nothing /\ written = Nothing /\ event = Nothing
             /\ dir = Nothing /\ iter = Nothing
PacksIdle == /\ packJob = Nothing /\ pack = Nothing /\ mask = Nothing /\ cells = Nothing
             /\ scalar = Nothing /\ out = Nothing /\ fault = Nothing /\ packOps = Nothing

ViewsRun == viewJob # Nothing
PacksRun == packJob # Nothing

DataInit == \/ Views!Init /\ PacksIdle
            \/ ViewsIdle /\ Packs!Init

DataNext == \/ ViewsRun /\ Views!Next /\ UNCHANGED packVars
            \/ PacksRun /\ Packs!Next /\ UNCHANGED viewVars

DataSpec == DataInit /\ [][DataNext]_<<viewVars, packVars>>

----------------------------------------------------------------------------
\* memcpy and memset move exactly the bytes of the extents, each once, and the
\* event that a SYCL queue keeps is complete when they have.
CopiesAreExact == ViewsRun => Views!CopyIsExact

\* The directions of a view visit each of its elements once, in the halo it lies
\* in; the elements of its aligned allocation lie apart, inside it, rows aligned.
BoundariesAreExact == ViewsRun => Views!BoundariesPartition /\ Views!AllocationsAreSound

\* The packs of every storage do lane by lane what scalars would, in every form of
\* their masks, and use aligned accesses only where their elements are aligned.
PacksAreLanewise == PacksRun => Packs!PacksAreLanewise
=============================================================================
