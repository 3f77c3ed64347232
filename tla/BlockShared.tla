----------------------------- MODULE BlockShared -----------------------------
(***************************************************************************)
(* Memory shared by the threads of a block, as declared with                *)
(* declareSharedVar and getDynSharedMem (onAcc/internal/interface.hpp).      *)
(*                                                                         *)
(* On the host a block owns a byte array (SharedStorage) that holds, for     *)
(* every declaration, a header and then the variable.  On SYCL the compiler  *)
(* places the variables and the block owns a table from identifiers to       *)
(* pointers (PtrLookupTable).  A declaration is a record                    *)
(*   [kind |-> "var" or "dynamic", id, size, align, bytes]                  *)
(* size and align are those of T, bytes what the variable takes: size for a  *)
(* variable, dynSharedMemBytes for dynamic memory.                          *)
(***************************************************************************)
EXTENDS Integers, Sequences, FiniteSets, Functions

CONSTANTS HeaderSize, MinAlign,   \* sizeof(MetaData), TMinDataAlignBytes
          Null,                   \* nullptr
          Garbage                 \* what uninitialised local memory holds
ASSUME StorageAssumption ==
    /\ MinAlign \in Nat \ {0}
    /\ HeaderSize \in Nat \ {0}
    /\ HeaderSize % MinAlign = 0
ASSUME PointerAssumption == Null \notin Int /\ Garbage \notin Int

MaxOf(a, b) == IF a < b THEN b ELSE a

----------------------------------------------------------------------------
(* SharedStorage: base is the address of the array, end is m_allocdBytes,    *)
(* header the headers written so far, by their offset.                      *)
EmptyStorage(base) == [base |-> base, end |-> 0, header |-> << >>]

\* Mutant: the chunk is not moved to an aligned address.
ChunkEndUnaligned(base, offset, align, bytes) == offset + bytes

\* varChunkEnd
ChunkEnd(base, offset, align, bytes) ==
    LET a == MaxOf(MinAlign, align)
    IN  ((base + offset + a - 1) \div a) * a + bytes - base

HeaderAt(s, offset) == ChunkEnd(s.base, offset, 1, HeaderSize) - HeaderSize

\* Where chunks end and the next header may begin.
ChunkEnds(s) == {0} \union {s.header[a].offset : a \in DOMAIN s.header}

\* getVarPtr: the walk over the headers; Null if no header has the id.
GetVarPtr(s, d) ==
    LET from[offset \in ChunkEnds(s)] ==
            IF offset >= s.end THEN Null
            ELSE LET h == s.header[HeaderAt(s, offset)]
                 IN  IF h.id = d.id THEN h.offset - d.size ELSE from[h.offset]
    IN  from[0]

\* alloc and allocDynamic: a header, then the chunk.
Alloc(s, d) ==
    LET at  == HeaderAt(s, s.end)
        end == ChunkEnd(s.base, at + HeaderSize, d.align, d.bytes)
        new == [id |-> d.id, offset |-> end]
    IN  [s EXCEPT !.end = end,
                  !.header = [a \in DOMAIN s.header \union {at} |->
                                  IF a = at THEN new ELSE s.header[a]]]

\* getLatestVarPtr
GetLatestVarPtr(s, d) == s.end - d.size

----------------------------------------------------------------------------
(* PtrLookupTable: entry[i] is shared by the block, count[t] is the thread's *)
(* own m_numEntries.  at(id) is where the compiler placed the variable.      *)
FreshTable(threads, capacity, content) ==
    [entry |-> [i \in 1..capacity |-> [ptr |-> content, id |-> Garbage]],
     count |-> [t \in threads |-> 0]]

FoundBy(table, t, d) == {i \in 1..table.count[t] : table.entry[i].id = d.id}

\* PtrLookupTable::getVarPtr: the first entry with the id.
LookUp(table, t, d) ==
    LET found == FoundBy(table, t, d)
        first == CHOOSE i \in found : \A j \in found : i <= j
    IN  IF found = {} THEN Null ELSE table.entry[first].ptr

\* PtrLookupTable::alloc: every thread writes the id, the leader the pointer.
Enter(table, t, leader, d, at) ==
    LET i == table.count[t] + 1
    IN  [table EXCEPT !.count[t] = i,
                      !.entry[i] = [id  |-> d.id,
                                    ptr |-> IF t = leader THEN at ELSE @.ptr]]
=============================================================================
