------------------------------ MODULE Handles -------------------------------
(***************************************************************************)
(* Handles to memory: a shared buffer owns it together with its copies      *)
(* (onHost/mem/SharedBuffer.hpp), views and spans only point to it          *)
(* (mem/View.hpp, mem/MdSpan.hpp), an array span has its extents in its     *)
(* type (mem/MdSpanArray.hpp), iterators point through a span               *)
(* (mem/MdForwardIter.hpp), and containers of the standard library take     *)
(* part as well (onHost/mem/stdContainer.hpp). A program derives handles    *)
(* from handles.                                                            *)
(*                                                                         *)
(* Every operation exists for a constant and a mutable object: outer says   *)
(* that the object is used as a constant one, inner that its elements are.  *)
(***************************************************************************)
EXTENDS DataLayout

CONSTANTS Slots,     \* places for handles, the first one is 1
          Roots,     \* the objects a program begins with
          MaxOps,    \* bound on its operations
          Nothing

VARIABLES root,      \* [kind, inner, extents, align, size, view]: that object
          handles,   \* slot -> handle or Nothing
          actions,   \* actions registered with the deleter, then those it has executed
          freed,     \* is the memory of a buffer deallocated?
          ops
vars == <<root, handles, actions, freed, ops>>

(***************************************************************************)
(* A handle: kind, inner, its view, the alignment its type claims (Auto: of *)
(* an element), whether it holds the deleter. What the operations before it *)
(* were is kept to state the properties: at is where its first element lies *)
(* in the root, sealed whether an object it came from was read only.        *)
(***************************************************************************)
Auto == 0

HandleKinds == {"buffer", "view", "span", "array", "iter", "std"}

\* Alignment::get: alignof(T) unless a number of bytes is given.
AlignmentOf(h) == IF h.align = Auto THEN h.view.size ELSE h.align

\* InnerTypeAllowedCast: elements may become constant, never mutable.
InnerTypeAllowedCast(to, from) == ~(from /\ ~to)

----------------------------------------------------------------------------
\* The bounds of the C array that CArrayType builds: from the last component of
\* the extents on, [e2][e1] and so on; with three components the second bound
\* is the first component again.
CArrayType(extents) ==
    LET n == Len(extents)
        Bound(dim) == IF dim = n - 1 THEN 1 ELSE n - 2 * dim
    IN  [d \in 1..n |-> extents[Bound(n - d)]]

\* ResolveArrayAccess: arrays of arrays without gaps.
ArrayView(ptr, extents, size) ==
    LET bounds == CArrayType(extents) IN MakeView(ptr, bounds, PitchesFromExtents(bounds, size), size)

\* A container has one dimension, the pitch is that of an element.
StdView(ptr, extents, size) == MakeView(ptr, extents, <<size>>, size)

\* What a program begins with: elements as wide as they are aligned; memory whose
\* alignment is a multiple of theirs; arrays have the bounds of their extents.
LegalRoot(r) ==
    /\ r.kind \in {"buffer", "view", "span", "array", "std"} /\ r.inner \in BOOLEAN
    /\ Len(r.extents) \in Nat \ {0} /\ r.extents \in [1 .. Len(r.extents) -> Nat \ {0}]
    /\ r.size \in Nat \ {0}
    /\ r.align # Auto => r.align \in Nat \ {0} /\ r.align % r.size = 0
    /\ r.kind \in {"buffer", "view", "span"} => r.align # Auto
    /\ r.kind = "std" => Len(r.extents) = 1
    /\ r.kind = "array" => CArrayType(r.extents) = r.extents

RootView(r) == CASE r.kind = "array" -> ArrayView(0, r.extents, r.size)
                 [] r.kind = "std"   -> StdView(0, r.extents, r.size)
                 [] OTHER -> MakeView(0, r.extents, AlignedMemDescription(r.align, r.extents, r.size).pitches, r.size)

RootHandle(r) == [kind |-> r.kind, inner |-> r.inner, view |-> RootView(r), align |-> r.align,
                  owns |-> r.kind = "buffer", at |-> Fill(r.extents, 0), sealed |-> r.inner]

----------------------------------------------------------------------------
(***************************************************************************)
(* What the member functions return. A constant object yields handles to   *)
(* constant elements.                                                      *)
(***************************************************************************)
Becomes(h, kind, outer) == [h EXCEPT !.kind = kind, !.inner = @ \/ outer, !.sealed = @ \/ outer,
                                     !.owns = @ /\ kind = "buffer"]

\* makeMdSpan(any): its pointer, extents, pitches and alignment.
MakeMdSpan(h, outer) == Becomes(h, "span", outer)
\* makeView(any): the API of the object in addition.
MakeViewOf(h, outer) == Becomes(h, "view", outer)
\* MdSpan, MdSpanArray::getConstMdSpan.
GetConstMdSpan(h) == Becomes(h, IF h.kind = "array" THEN "array" ELSE "span", TRUE)
GetMdSpan(h, outer) == IF outer THEN GetConstMdSpan(h) ELSE Becomes(h, "span", FALSE)
GetConstView(h) == Becomes(h, "view", TRUE)
GetView(h, outer) == IF outer THEN GetConstView(h) ELSE Becomes(h, "view", FALSE)
GetConstSharedBuffer(h) == Becomes(h, "buffer", TRUE)

\* begin, cbegin of a span or an array: the iterator keeps a span.
Begin(h, outer)      == Becomes(IF outer THEN GetConstMdSpan(h) ELSE h, "iter", outer)
ArrayBegin(h, outer) == Becomes(IF outer THEN GetConstMdSpan(h) ELSE h, "iter", outer)

\* A part from the origin on has its alignment.
Shrunk(h, extents) == [h EXCEPT !.view.extents = extents]
SubByExtents(h, outer, extents) == Shrunk(Becomes(h, "view", outer), extents)
SubBufferByExtents(h, outer, extents) == Shrunk(Becomes(h, "buffer", outer), extents)

\* A part that begins elsewhere is aligned as its elements are.
Shifted(h, offset, extents) ==
    [h EXCEPT !.view = GetSubView(@, offset, extents), !.at = Plus(@, offset), !.align = Auto]
\* Mutant: it keeps the alignment of the whole.
ShiftedKeepsAlignment(h, outer, offset, extents) ==
    [Shifted(Becomes(h, "buffer", outer), offset, extents) EXCEPT !.align = h.align]
SubByOffset(h, outer, offset, extents) == Shifted(Becomes(h, "view", outer), offset, extents)
SubBufferByOffset(h, outer, offset, extents) == Shifted(Becomes(h, "buffer", outer), offset, extents)

\* The part in a direction of halos of one element; only for constant views.
SubByDirection(h, dir) ==
    LET one  == Fill(h.view.extents, 1)
        part == BoundaryView(h.view, dir, one, one)
        at   == [d \in DOMAIN dir |-> CASE dir[d] = "LOWER"  -> 0
                                        [] dir[d] = "MIDDLE" -> 1
                                        [] dir[d] = "UPPER"  -> h.view.extents[d] - 1]
    IN  [Becomes(h, "view", TRUE) EXCEPT !.view = part, !.at = Plus(@, at), !.align = Auto]

----------------------------------------------------------------------------
Init == /\ root \in Roots
        /\ handles = [s \in Slots |-> IF s = 1 THEN RootHandle(root) ELSE Nothing]
        /\ actions = [added |-> <<>>, run |-> <<>>]
        /\ freed = FALSE
        /\ ops = 0

Live(s) == handles[s] # Nothing
IsA(s, kinds) == Live(s) /\ handles[s].kind \in kinds

Owners(hs) == {s \in DOMAIN hs : hs[s] # Nothing /\ hs[s].owns}

\* ~ManagedDealloc, when the last copy lets go: the actions in the order they
\* were added, then the memory.
Released(hs) ==
    IF root.kind = "buffer" /\ Owners(hs) = {} /\ ~freed
    THEN freed' = TRUE /\ actions' = [actions EXCEPT !.run = actions.added]
    ELSE UNCHANGED <<freed, actions>>

Step(hs) == /\ ops < MaxOps
            /\ ops' = ops + 1
            /\ handles' = hs
            /\ Released(hs)
            /\ UNCHANGED root

New(t, h) == ~Live(t) /\ Step([handles EXCEPT ![t] = h])

\* Copy construction, also to constant elements. The type of the copy says
\* nothing of a constant object.
CopyHandle(s, t, inner) ==
    /\ IsA(s, HandleKinds \ {"std"})
    /\ InnerTypeAllowedCast(inner, handles[s].inner)
    /\ handles[s].kind = "iter" => inner = handles[s].inner
    /\ New(t, [handles[s] EXCEPT !.inner = inner, !.sealed = @ \/ inner])

\* Move construction: only a buffer is left empty.
MoveHandle(s, t, inner) ==
    /\ IsA(s, {"buffer", "view", "span", "array"})
    /\ InnerTypeAllowedCast(inner, handles[s].inner)
    /\ ~Live(t)
    /\ Step([handles EXCEPT ![t] = [handles[s] EXCEPT !.inner = inner, !.sealed = @ \/ inner],
                            ![s].owns = FALSE])

\* Objects of the same type up to constant elements.
SameType(a, b) == a.kind = b.kind /\ a.align = b.align
Assigned(a, b) == [a EXCEPT !.inner = b.inner, !.sealed = @ \/ b.inner]

AssignHandle(s, t) ==
    /\ s # t /\ IsA(s, {"buffer", "view", "span"}) /\ Live(t)
    /\ SameType(handles[s], handles[t])
    /\ InnerTypeAllowedCast(handles[t].inner, handles[s].inner)
    /\ Step([handles EXCEPT ![t] = Assigned(handles[s], handles[t])])

MoveAssign(s, t) ==
    /\ s # t /\ IsA(s, {"buffer"}) /\ Live(t)
    /\ SameType(handles[s], handles[t])
    /\ InnerTypeAllowedCast(handles[t].inner, handles[s].inner)
    /\ Step([handles EXCEPT ![t] = Assigned(handles[s], handles[t]), ![s].owns = FALSE])

\* An array of mutable elements is not assigned from a constant object.
AssignArray(s, t, outer) ==
    /\ s # t /\ IsA(s, {"array"}) /\ Live(t)
    /\ SameType(handles[s], handles[t])
    /\ InnerTypeAllowedCast(handles[t].inner, handles[s].inner \/ outer)
    /\ Step([handles EXCEPT ![t] = Assigned(handles[s], handles[t])])

Dimensioned == {"buffer", "view"}
Spans       == Dimensioned \cup {"span"}

MakeSpan(s, t, outer) == IsA(s, HandleKinds \ {"iter"}) /\ New(t, MakeMdSpan(handles[s], outer))
MakeAView(s, t, outer) == IsA(s, Dimensioned \cup {"std"}) /\ New(t, MakeViewOf(handles[s], outer))
TakeConstSpan(s, t) == IsA(s, Spans \cup {"array"}) /\ New(t, GetConstMdSpan(handles[s]))
TakeSpan(s, t, outer) == IsA(s, Dimensioned) /\ New(t, GetMdSpan(handles[s], outer))
TakeConstView(s, t) == IsA(s, Dimensioned) /\ New(t, GetConstView(handles[s]))
TakeView(s, t, outer) == IsA(s, {"buffer"}) /\ New(t, GetView(handles[s], outer))
TakeConstBuffer(s, t) == IsA(s, {"buffer"}) /\ New(t, GetConstSharedBuffer(handles[s]))
TakeIterator(s, t, outer) == IsA(s, Spans) /\ New(t, Begin(handles[s], outer))
TakeArrayIterator(s, t, outer) == IsA(s, {"array"}) /\ New(t, ArrayBegin(handles[s], outer))

\* Extents and offsets of parts: all of it or one element less, from the origin
\* or the second element on, where that many are left.
Parts(h) == {p \in {Fill(h.view.extents, 0), Fill(h.view.extents, 1)}
                   \X {h.view.extents, Minus(h.view.extents, Fill(h.view.extents, 1))} :
                \A d \in DOMAIN p[1] : /\ h.view.extents[d] >= 1
                                       /\ p[1][d] + p[2][d] <= h.view.extents[d]}
Origins(h) == {p \in Parts(h) : p[1] = Fill(h.view.extents, 0)}

TakePartOfOrigin(s, t, outer) ==
    IsA(s, Dimensioned) /\ \E p \in Origins(handles[s]) : New(t, SubByExtents(handles[s], outer, p[2]))
TakePart(s, t, outer) ==
    IsA(s, Dimensioned) /\ \E p \in Parts(handles[s]) : New(t, SubByOffset(handles[s], outer, p[1], p[2]))
TakeBoundary(s, t) ==
    /\ IsA(s, Dimensioned)
    /\ \A d \in DOMAIN handles[s].view.extents : handles[s].view.extents[d] >= 2
    /\ \E dir \in [DOMAIN handles[s].view.extents -> {"LOWER", "MIDDLE", "UPPER"}] :
           New(t, SubByDirection(handles[s], dir))
TakeBufferOfOrigin(s, t, outer) ==
    IsA(s, {"buffer"}) /\ \E p \in Origins(handles[s]) : New(t, SubBufferByExtents(handles[s], outer, p[2]))
TakeBufferOfPart(s, t, outer) ==
    IsA(s, {"buffer"}) /\ \E p \in Parts(handles[s]) : New(t, SubBufferByOffset(handles[s], outer, p[1], p[2]))

\* addDestructorAction; the deleter of a moved buffer is null.
AddDestructorAction(s) ==
    /\ IsA(s, {"buffer"}) /\ handles[s].owns
    /\ ops < MaxOps /\ ops' = ops + 1
    /\ actions' = [actions EXCEPT !.added = Append(@, Len(@) + 1)]
    /\ UNCHANGED <<root, handles, freed>>

Destroy(s) == Live(s) /\ Step([handles EXCEPT ![s] = Nothing])

Next ==
    \/ \E s \in Slots : AddDestructorAction(s) \/ Destroy(s)
    \/ \E s, t \in Slots :
        \/ AssignHandle(s, t) \/ MoveAssign(s, t)
        \/ TakeConstSpan(s, t) \/ TakeConstView(s, t) \/ TakeConstBuffer(s, t) \/ TakeBoundary(s, t)
        \/ \E c \in BOOLEAN :
            \/ CopyHandle(s, t, c) \/ MoveHandle(s, t, c) \/ AssignArray(s, t, c)
            \/ MakeSpan(s, t, c) \/ MakeAView(s, t, c) \/ TakeSpan(s, t, c) \/ TakeView(s, t, c)
            \/ TakeIterator(s, t, c) \/ TakeArrayIterator(s, t, c)
            \/ TakePartOfOrigin(s, t, c) \/ TakePart(s, t, c)
            \/ TakeBufferOfOrigin(s, t, c) \/ TakeBufferOfPart(s, t, c)

----------------------------------------------------------------------------
\* getUseCount and operator bool: a buffer is valid while it holds the deleter,
\* the others always say they are.
UseCount == Cardinality(Owners(handles))
IsValid(h) == h.kind = "buffer" => h.owns

IndicesOf(extents) == {idx \in [DOMAIN extents -> 0 .. Sum(extents)] :
                          \A d \in DOMAIN extents : idx[d] < extents[d]}

\* Whatever a handle was derived through, its elements are those of its root from
\* where it begins on, with the extents that were asked for; its origin has the
\* alignment its type claims, by which vector loads are chosen.
ElementsAreInPlace ==
    \A s \in Slots : Live(s) =>
        LET h == handles[s]
            whole == RootView(root)
        IN  /\ \A idx \in IndicesOf(h.view.extents) :
                   Ptr(h.view, idx) = Ptr(whole, Plus(h.at, idx))
            /\ \A d \in DOMAIN h.at : h.at[d] + h.view.extents[d] <= root.extents[d]
            /\ h.view.ptr % AlignmentOf(h) = 0
            /\ h.view.pitches = whole.pitches

\* No chain of operations makes elements writable that were read only on the way.
ReadOnlyStaysReadOnly == \A s \in Slots : Live(s) => (handles[s].sealed => handles[s].inner)

\* Memory lives exactly as long as a buffer that says it is valid, and is given
\* back after all actions, in the order they were added.
OwnersKeepMemory ==
    root.kind = "buffer" =>
        /\ freed <=> UseCount = 0
        /\ \A s \in Slots : IsA(s, {"buffer"}) /\ IsValid(handles[s]) => ~freed
        /\ freed => actions.run = [k \in 1 .. Len(actions.added) |-> k]

HandlesAreSound == ElementsAreInPlace /\ ReadOnlyStaysReadOnly /\ OwnersKeepMemory
=============================================================================
