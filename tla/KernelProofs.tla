----------------------------- MODULE KernelProofs -----------------------------
(***************************************************************************)
(* What kernels rely upon, for all sizes: memory fences order the accesses  *)
(* of two threads (MemFence), an engine hands out consecutive numbers, each *)
(* of them to one deviate, and uniform reals are inside their interval      *)
(* (RandomNumbers), the functions of a warp do what is documented (Warp),   *)
(* launches and shared variables are sound among the other parts of         *)
(* MCKernels (LaunchProofs), and the barriers of a scan and of a reduction  *)
(* suffice (GridAlgorithms).                                                *)
(***************************************************************************)
EXTENDS MCKernels, LaunchProofs, FunctionTheorems, SequenceTheorems

(***************************************************************************)
(* memFence, for every pair of fences and every back end, if the programs   *)
(* pass a message or buffer stores (Legal). Every location is written at    *)
(* most once, so positions are 1 and 2, and 2 is the value that was stored. *)
(***************************************************************************)
View == [Fences!Location -> {1, 2}]

StoreType == [value : {0, 1}, views : [Fences!Scope -> View], by : {0, 1, 2}]

Types == /\ fences \in FenceJobs
         /\ at \in [{1, 2} -> 1 .. 4]
         /\ stores \in [Fences!Location -> Seq(StoreType)]
         /\ view \in [{1, 2} -> View]
         /\ released \in [{1, 2} -> [Fences!Scope -> View]]
         /\ seen \in [{1, 2} -> [Fences!Scope -> View]]
         /\ strict \in [0 .. 2 -> View]
         /\ loaded \in [{1, 2} -> [Fences!Location -> {0, 1}]]

\* The thread that stores to a location, and the line of its program.
Writer(x) == IF x = "flag" /\ Fences!StoreBuffering(fences.program) THEN 2 ELSE 1
Line(x) == IF x = "flag" /\ Fences!MessagePassing(fences.program) THEN 3 ELSE 1

\* A location has a second value once its writer has come past that line.
StoredOnce ==
    \A x \in Fences!Location :
        /\ Len(stores[x]) = IF at[Writer(x)] > Line(x) THEN 2 ELSE 1
        /\ stores[x][1].value = 0
        /\ Len(stores[x]) = 2 => stores[x][2].value = 1 /\ stores[x][2].by = Writer(x)

\* The scope in which the threads see each other, and the fences with which a
\* strict fence of both is ordered.
Channel == IF fences.block[1] = fences.block[2] THEN "Block" ELSE "Device"
Order == IF fences.block[1] = fences.block[2] THEN fences.block[1] ELSE 0

\* The payload travels with the flag: it is in the view that the fence of the
\* writer publishes, which the flag carries, which its reader remembers, and which
\* the fence of the reader accepts.
Travels ==
    /\ Fences!MessagePassing(fences.program)
    /\ Fences!ScopesMeet
    /\ Fences!Given(1).order \in {"Release", "AcqRel", "SeqCst"}
    /\ Fences!Given(2).order \in {"Acquire", "AcqRel", "SeqCst"}
    =>
    /\ at[1] >= 2 => view[1]["payload"] = 2
    /\ at[1] >= 3 => released[1][Channel]["payload"] = 2
    /\ at[1] >= 4 => stores["flag"][2].views[Channel]["payload"] = 2
    /\ loaded[2]["flag"] = 1 =>
          /\ at[2] >= 2 /\ seen[2][Channel]["payload"] = 2
          /\ at[2] >= 3 => view[2]["payload"] = 2
          /\ at[2] >= 4 => loaded[2]["payload"] = 1

\* The later of two strict fences knows the store before the other one.
Totals ==
    /\ Fences!StoreBuffering(fences.program)
    /\ Fences!ScopesMeet
    /\ \A t \in {1, 2} : Fences!Given(t).order = "SeqCst"
    =>
    /\ at[1] >= 2 => view[1]["payload"] = 2
    /\ at[2] >= 2 => view[2]["flag"] = 2
    /\ at[1] >= 3 => strict[Order]["payload"] = 2
    /\ at[2] >= 3 => strict[Order]["flag"] = 2
    /\ at[1] >= 3 /\ at[2] >= 3 =>
          \/ view[1]["flag"] = 2 /\ (at[1] = 4 => loaded[1]["flag"] = 1)
          \/ view[2]["payload"] = 2 /\ (at[2] = 4 => loaded[2]["payload"] = 1)

LegalJobs == \A j \in FenceJobs : Fences!Legal(j)

FenceInv == Types /\ StoredOnce /\ Travels /\ Totals

\* The largest of some of the positions 1 and 2.
LEMMA MaxOfPositions ==
    ASSUME NEW S, S \subseteq {1, 2}, S # {}
    PROVE  Fences!Max(S) \in {1, 2} /\ (Fences!Max(S) = 2 <=> 2 \in S)
<1>1. CASE 2 \in S
  <2>1. \A y \in S : 2 >= y
    OBVIOUS
  <2>2. \A m \in S : (\A y \in S : m >= y) => m = 2
    BY <1>1
  <2> QED
    BY <1>1, <2>1, <2>2 DEF Fences!Max
<1>2. CASE 2 \notin S
  <2>1. S = {1}
    BY <1>2
  <2>2. \A y \in S : 1 >= y
    BY <2>1
  <2> QED
    BY <2>1, <2>2 DEF Fences!Max
<1> QED
  BY <1>1, <1>2

\* A joined view knows what one of the views knows.
LEMMA JoinOfViews ==
    ASSUME NEW views, views \subseteq View, views # {}
    PROVE  /\ Fences!Join(views) \in View
           /\ \A x \in Fences!Location : Fences!Join(views)[x] = 2 <=> \E v \in views : v[x] = 2
<1>1. \A x \in Fences!Location : /\ {v[x] : v \in views} \subseteq {1, 2}
                                 /\ {v[x] : v \in views} # {}
  BY DEF View
<1>2. \A x \in Fences!Location : /\ Fences!Max({v[x] : v \in views}) \in {1, 2}
                                 /\ Fences!Max({v[x] : v \in views}) = 2 <=> 2 \in {v[x] : v \in views}
  BY <1>1, MaxOfPositions
<1>3. Fences!Join(views) \in View
  BY <1>2 DEF Fences!Join, View
<1>4. \A x \in Fences!Location : Fences!Join(views)[x] = Fences!Max({v[x] : v \in views})
  BY DEF Fences!Join
<1> QED
  BY <1>2, <1>3, <1>4

\* The instructions of a legal job.
LEMMA Programs ==
    ASSUME LegalJobs, fences \in FenceJobs
    PROVE  /\ Fences!Thread = {1, 2}
           /\ \A t \in {1, 2} : /\ Len(fences.program[t]) = 3
                                /\ fences.program[t][2].op = "fence"
                                /\ fences.block[t] \in {1, 2}
           /\ \A t \in {1, 2}, k \in {1, 3} :
                /\ fences.program[t][k].at \in Fences!Location
                /\ fences.program[t][k].op = "store" =>
                      /\ Writer(fences.program[t][k].at) = t
                      /\ Line(fences.program[t][k].at) = k
                /\ fences.program[t][k].op \in {"store", "load", "await"}
           /\ \A x \in Fences!Location : /\ Writer(x) \in {1, 2} /\ Line(x) \in {1, 3}
                                         /\ fences.program[Writer(x)][Line(x)].op = "store"
                                         /\ fences.program[Writer(x)][Line(x)].at = x
<1>1. Fences!Legal(fences)
  BY DEF LegalJobs
<1>2. /\ Fences!Thread = {1, 2}
      /\ \A t \in {1, 2} : /\ Len(fences.program[t]) = 3
                           /\ fences.program[t][2].op = "fence"
                           /\ fences.block[t] \in {1, 2}
  BY <1>1 DEF Fences!Legal, Fences!Thread
<1>3. CASE Fences!MessagePassing(fences.program)
  <2>1. ~Fences!StoreBuffering(fences.program)
    BY <1>3 DEF Fences!MessagePassing, Fences!StoreBuffering
  <2>2. Writer("flag") = 1 /\ Line("flag") = 3 /\ Writer("payload") = 1 /\ Line("payload") = 1
    BY <1>3, <2>1 DEF Writer, Line
  <2>3. \A t \in {1, 2}, k \in {1, 3} :
                /\ fences.program[t][k].at \in Fences!Location
                /\ fences.program[t][k].op = "store" =>
                      /\ Writer(fences.program[t][k].at) = t
                      /\ Line(fences.program[t][k].at) = k
                /\ fences.program[t][k].op \in {"store", "load", "await"}
    BY <1>3, <2>2 DEF Fences!MessagePassing, Fences!Location
  <2>4. \A x \in Fences!Location : /\ Writer(x) \in {1, 2} /\ Line(x) \in {1, 3}
                                   /\ fences.program[Writer(x)][Line(x)].op = "store"
                                   /\ fences.program[Writer(x)][Line(x)].at = x
    BY <1>3, <2>2 DEF Fences!MessagePassing, Fences!Location
  <2> QED
    BY <1>2, <2>3, <2>4
<1>4. CASE Fences!StoreBuffering(fences.program)
  <2>1. ~Fences!MessagePassing(fences.program)
    BY <1>4 DEF Fences!MessagePassing, Fences!StoreBuffering
  <2>2. Writer("flag") = 2 /\ Line("flag") = 1 /\ Writer("payload") = 1 /\ Line("payload") = 1
    BY <1>4, <2>1 DEF Writer, Line
  <2>3. \A t \in {1, 2}, k \in {1, 3} :
                /\ fences.program[t][k].at \in Fences!Location
                /\ fences.program[t][k].op = "store" =>
                      /\ Writer(fences.program[t][k].at) = t
                      /\ Line(fences.program[t][k].at) = k
                /\ fences.program[t][k].op \in {"store", "load", "await"}
    BY <1>4, <2>2 DEF Fences!StoreBuffering, Fences!Location
  <2>4. \A x \in Fences!Location : /\ Writer(x) \in {1, 2} /\ Line(x) \in {1, 3}
                                   /\ fences.program[Writer(x)][Line(x)].op = "store"
                                   /\ fences.program[Writer(x)][Line(x)].at = x
    BY <1>4, <2>2 DEF Fences!StoreBuffering, Fences!Location
  <2> QED
    BY <1>2, <2>3, <2>4
<1> QED
  BY <1>1, <1>3, <1>4 DEF Fences!Legal

\* Whatever the back end issues for a fence is at least as strong, and reaches the
\* other thread if the fences were asked for in scopes that do.
LEMMA IssuedIsStrong ==
    ASSUME LegalJobs, fences \in FenceJobs, Fences!ScopesMeet, NEW t \in {1, 2},
           NEW f, f = Fences!Issued(Fences!Given(t).scope, Fences!Given(t).order)
    PROVE  /\ Fences!Given(t).order \in {"Release", "AcqRel", "SeqCst"} => Fences!Releases(f)
           /\ Fences!Given(t).order \in {"Acquire", "AcqRel", "SeqCst"} => Fences!Acquires(f)
           /\ Fences!Given(t).order = "SeqCst" => f.order = "SeqCst"
           /\ Channel \in Fences!Within(f.scope)
           /\ Order \in Fences!StrictWith(t, f.scope) \cap 0 .. 2
<1>1. Fences!Legal(fences) /\ Fences!Thread = {1, 2} /\ \A u \in {1, 2} : fences.block[u] \in {1, 2}
  BY Programs DEF LegalJobs
<1>2. fences.api \in Fences!Apis /\ Fences!Given(t).order \in Fences!Orders /\ Fences!Given(t).scope \in Fences!Scope
  BY <1>1 DEF Fences!Legal, Fences!Given
<1>3. CASE fences.block[1] = fences.block[2]
  <2>1. fences.api # "host"
    BY <1>1, <1>3 DEF Fences!Legal
  <2>2. f.scope = Fences!Given(t).scope
    BY <1>2, <2>1 DEF Fences!Issued, Fences!CudaFence, Fences!Fence, Fences!Apis
  <2>3. Channel \in Fences!Within(f.scope) /\ Order \in Fences!StrictWith(t, f.scope) \cap 0 .. 2
    BY <1>1, <1>2, <1>3, <2>2 DEF Channel, Order, Fences!Within, Fences!StrictWith, Fences!Scope
  <2> QED
    BY <1>2, <2>1, <2>3 DEF Fences!Issued, Fences!CudaFence, Fences!PtxOrder, Fences!Fence, Fences!Apis, Fences!Orders, Fences!Releases, Fences!Acquires
<1>4. CASE fences.block[1] # fences.block[2]
  <2>1. Fences!Given(t).scope = "Device"
    BY <1>1, <1>4 DEF Fences!ScopesMeet
  <2>2. f.scope = "Device"
    BY <1>2, <2>1 DEF Fences!Issued, Fences!HostFence, Fences!CudaFence, Fences!Fence, Fences!Apis
  <2>3. Channel \in Fences!Within(f.scope) /\ Order \in Fences!StrictWith(t, f.scope) \cap 0 .. 2
    BY <1>4, <2>2 DEF Channel, Order, Fences!Within, Fences!StrictWith, Fences!Scope
  <2> QED
    BY <1>2, <2>1, <2>3
       DEF Fences!Issued, Fences!HostFence, Fences!CudaFence, Fences!PtxOrder, Fences!Fence, Fences!Apis, Fences!Orders, Fences!Releases, Fences!Acquires
<1> QED
  BY <1>3, <1>4

\* The invariant holds in the beginning.
LEMMA FenceInit ==
    ASSUME LegalJobs, Fences!Init
    PROVE  FenceInv
<1>1. fences \in FenceJobs /\ Fences!Thread = {1, 2}
  BY Programs DEF Fences!Init
<1>2. Fences!Cardinality(Fences!Thread) = 2
  <2>3. Fences!Cardinality(Fences!Thread) = Cardinality(Fences!Thread)
    BY Zenon DEF Fences!Cardinality, Cardinality
  <2>1. IsFiniteSet({1}) /\ Cardinality({1}) = 1
    BY FS_Singleton
  <2>2. Cardinality({1} \cup {2}) = 1 + 1 /\ {1} \cup {2} = {1, 2}
    BY <2>1, FS_AddElement
  <2> QED
    BY <1>1, <2>2, <2>3
<1>3. Fences!Bottom \in View /\ [s \in Fences!Scope |-> Fences!Bottom] \in [Fences!Scope -> View]
  BY DEF Fences!Bottom, View
<1>4. /\ at = [t \in {1, 2} |-> 1]
      /\ stores = [x \in Fences!Location |->
                     <<[value |-> 0, views |-> [s \in Fences!Scope |-> Fences!Bottom], by |-> 0]>>]
      /\ view = [t \in {1, 2} |-> Fences!Bottom]
      /\ released = [t \in {1, 2} |-> [s \in Fences!Scope |-> Fences!Bottom]]
      /\ seen = [t \in {1, 2} |-> [s \in Fences!Scope |-> Fences!Bottom]]
      /\ strict = [b \in 0 .. 2 |-> Fences!Bottom]
      /\ loaded = [t \in {1, 2} |-> [x \in Fences!Location |-> 0]]
  BY <1>1, <1>2 DEF Fences!Init
<1>5. PICK s : s = [value |-> 0, views |-> [c \in Fences!Scope |-> Fences!Bottom], by |-> 0]
  OBVIOUS
<1>6. s \in StoreType /\ s.value = 0
  BY <1>3, <1>5 DEF StoreType
<1>7. \A x \in Fences!Location : stores[x] = <<s>>
  BY <1>4, <1>5
<1>8. stores \in [Fences!Location -> Seq(StoreType)]
  BY <1>4, <1>5, <1>6
<1>9. Types
  BY <1>1, <1>3, <1>4, <1>8 DEF Types
<1>10. StoredOnce
  <2>1. \A x \in Fences!Location : Writer(x) \in {1, 2} /\ Line(x) \in {1, 3}
    BY DEF Writer, Line
  <2>2. \A x \in Fences!Location : at[Writer(x)] = 1 /\ Len(stores[x]) = 1 /\ stores[x][1].value = 0
    BY <1>4, <1>6, <1>7, <2>1
  <2>3. \A x \in Fences!Location : ~(at[Writer(x)] > Line(x)) /\ Len(stores[x]) # 2
    BY <2>1, <2>2
  <2> QED
    BY <2>2, <2>3 DEF StoredOnce
<1>11. Travels /\ Totals
  <2>1. at[1] = 1 /\ at[2] = 1 /\ loaded[2]["flag"] = 0
    BY <1>4 DEF Fences!Location
  <2> QED
    BY <2>1 DEF Travels, Totals
<1> QED
  BY <1>9, <1>10, <1>11 DEF FenceInv

\* What a step does to the position of a thread.
LEMMA Position ==
    ASSUME LegalJobs, Types, NEW t \in Fences!Thread, NEW op, Fences!Does(t, op)
    PROVE  /\ t \in {1, 2} /\ at[t] \in {1, 2, 3}
           /\ Fences!Instruction(t) = fences.program[t][at[t]] /\ Fences!Instruction(t).op = op
           /\ op = "fence" => at[t] = 2
           /\ op # "fence" => at[t] \in {1, 3} /\ Fences!Instruction(t).at \in Fences!Location
<1>1. fences \in FenceJobs /\ at \in [{1, 2} -> 1 .. 4]
  BY DEF Types
<1>2. t \in {1, 2} /\ Len(fences.program[t]) = 3 /\ fences.program[t][2].op = "fence"
  BY <1>1, Programs
<1>3. at[t] \in {1, 2, 3} /\ Fences!Instruction(t) = fences.program[t][at[t]] /\ Fences!Instruction(t).op = op
  BY <1>1, <1>2 DEF Fences!Does, Fences!Instruction
<1>4. CASE at[t] = 2
  BY <1>2, <1>3, <1>4
<1>5. CASE at[t] \in {1, 3}
  BY <1>1, <1>2, <1>3, <1>5, Programs
<1> QED
  BY <1>2, <1>3, <1>4, <1>5

\* Who advances without a store does not come past the line of a writer.
LEMMA NothingStored ==
    ASSUME LegalJobs, Types, StoredOnce, NEW t \in Fences!Thread, NEW op, Fences!Does(t, op), op # "store",
           at' = [at EXCEPT ![t] = @ + 1] \/ UNCHANGED at, UNCHANGED <<fences, stores>>
    PROVE  StoredOnce'
<1>1. t \in {1, 2} /\ at[t] \in {1, 2, 3} /\ fences.program[t][at[t]].op = op
  BY Position
<1>2. at \in [{1, 2} -> 1 .. 4] /\ fences \in FenceJobs
  BY DEF Types
<1>3. \A x \in Fences!Location : /\ Writer(x)' = Writer(x) /\ Line(x)' = Line(x)
                                 /\ Writer(x) \in {1, 2} /\ Line(x) \in {1, 3}
                                 /\ fences.program[Writer(x)][Line(x)].op = "store"
  BY <1>2, Programs DEF Writer, Line
<1>4. \A x \in Fences!Location : at'[Writer(x)] > Line(x) <=> at[Writer(x)] > Line(x)
  <2> SUFFICES ASSUME NEW x \in Fences!Location
               PROVE  at'[Writer(x)] > Line(x) <=> at[Writer(x)] > Line(x)
    OBVIOUS
  <2>1. Writer(x) = t => Line(x) # at[t]
    BY <1>1, <1>3
  <2>2. at'[Writer(x)] = at[Writer(x)] \/ (Writer(x) = t /\ at'[t] = at[t] + 1)
    BY <1>1, <1>2, <1>3
  <2> QED
    BY <1>1, <1>2, <1>3, <2>1, <2>2
<1> QED
  BY <1>3, <1>4 DEF StoredOnce

\* A store keeps the invariant.
LEMMA StoreStep ==
    ASSUME LegalJobs, FenceInv, NEW t \in Fences!Thread, Fences!Store(t)
    PROVE  FenceInv'
<1> DEFINE x == Fences!Instruction(t).at
           new == [value |-> 1, views |-> released[t], by |-> t]
<1>1. /\ t \in {1, 2} /\ at[t] \in {1, 3} /\ x \in Fences!Location
      /\ fences.program[t][at[t]].op = "store" /\ fences.program[t][at[t]].at = x
  BY Position DEF Fences!Store, FenceInv
<1>2. /\ fences \in FenceJobs
      /\ at \in [{1, 2} -> 1 .. 4]
      /\ stores \in [Fences!Location -> Seq(StoreType)]
      /\ view \in [{1, 2} -> View]
      /\ released \in [{1, 2} -> [Fences!Scope -> View]]
  BY DEF FenceInv, Types
<1>3. Writer(x) = t /\ Line(x) = at[t] /\ Fences!Thread = {1, 2}
  BY <1>1, <1>2, Programs
<1>4. Len(stores[x]) = 1 /\ stores[x] \in Seq(StoreType)
  BY <1>1, <1>2, <1>3 DEF FenceInv, StoredOnce
<1>5. /\ stores' = [stores EXCEPT ![x] = Append(stores[x], new)]
      /\ view' = [view EXCEPT ![t][x] = 2]
      /\ at' = [at EXCEPT ![t] = @ + 1]
      /\ UNCHANGED <<fences, released, seen, strict, loaded>>
  BY <1>4 DEF Fences!Store, Fences!Advance
<1>6. new \in StoreType /\ new.value = 1 /\ new.by = t /\ new.views = released[t]
  BY <1>1, <1>2 DEF StoreType
<1> HIDE DEF new, x
<1>7. /\ stores'[x] \in Seq(StoreType) /\ Len(stores'[x]) = 2
      /\ stores'[x][1] = stores[x][1] /\ stores'[x][2] = new
      /\ \A y \in Fences!Location : y # x => stores'[y] = stores[y]
      /\ stores' \in [Fences!Location -> Seq(StoreType)]
  <2>1. PICK s : s = Append(stores[x], new)
    OBVIOUS
  <2>2. s \in Seq(StoreType) /\ Len(s) = 2 /\ s[1] = stores[x][1] /\ s[2] = new
    BY <1>4, <1>6, <2>1
  <2>3. stores' = [stores EXCEPT ![x] = s]
    BY <1>5, <2>1
  <2> QED
    BY <1>1, <1>2, <2>2, <2>3
<1>8. /\ view'[t][x] = 2
      /\ \A u \in {1, 2}, y \in Fences!Location : view[u][y] = 2 => view'[u][y] = 2
      /\ view' \in [{1, 2} -> View]
  BY <1>1, <1>2, <1>5 DEF View
<1>9. /\ at'[t] = at[t] + 1 /\ \A u \in {1, 2} : u # t => at'[u] = at[u]
      /\ at' \in [{1, 2} -> 1 .. 4]
  BY <1>1, <1>2, <1>5
<1>10. Types'
  <2>1. UNCHANGED <<fences, released>> /\ UNCHANGED <<seen, strict, loaded>>
    BY <1>5
  <2> QED
    BY <1>7, <1>8, <1>9, <2>1 DEF FenceInv, Types
<1>11. StoredOnce'
  <2>1. \A y \in Fences!Location : Writer(y)' = Writer(y) /\ Line(y)' = Line(y)
                                   /\ Writer(y) \in {1, 2} /\ Line(y) \in {1, 3}
    BY <1>5, <1>2, Programs DEF Writer, Line
  <2>2. ASSUME NEW y \in Fences!Location
        PROVE  /\ Len(stores'[y]) = IF at'[Writer(y)] > Line(y) THEN 2 ELSE 1
               /\ stores'[y][1].value = 0
               /\ Len(stores'[y]) = 2 => stores'[y][2].value = 1 /\ stores'[y][2].by = Writer(y)
    <3>1. CASE y = x
      BY <1>1, <1>3, <1>6, <1>7, <1>9, <3>1 DEF FenceInv, StoredOnce
    <3>2. CASE y # x
      <4>1. at'[Writer(y)] > Line(y) <=> at[Writer(y)] > Line(y)
        <5>1. Writer(y) = t => Line(y) # at[t]
          BY <1>1, <1>2, <2>1, <3>2, Programs
        <5> QED
          BY <1>1, <1>2, <1>9, <2>1, <5>1
      <4> QED
        BY <1>7, <3>2, <4>1 DEF FenceInv, StoredOnce
    <3> QED
      BY <3>1, <3>2
  <2> QED
    BY <2>1, <2>2 DEF StoredOnce
<1>12. /\ Fences!ScopesMeet' = Fences!ScopesMeet /\ Channel' = Channel /\ Order' = Order
       /\ \A u \in {1, 2} : Fences!Given(u)' = Fences!Given(u)
  BY <1>5 DEF Fences!ScopesMeet, Channel, Order, Fences!Given, Fences!Thread
<1>13. Travels'
  <2> SUFFICES ASSUME Fences!MessagePassing(fences.program), Fences!ScopesMeet,
                      Fences!Given(1).order \in {"Release", "AcqRel", "SeqCst"},
                      Fences!Given(2).order \in {"Acquire", "AcqRel", "SeqCst"}
               PROVE  /\ at'[1] >= 2 => view'[1]["payload"] = 2
                      /\ at'[1] >= 3 => released[1][Channel]["payload"] = 2
                      /\ at'[1] >= 4 => stores'["flag"][2].views[Channel]["payload"] = 2
                      /\ loaded[2]["flag"] = 1 =>
                            /\ at'[2] >= 2 /\ seen[2][Channel]["payload"] = 2
                            /\ at'[2] >= 3 => view'[2]["payload"] = 2
                            /\ at'[2] >= 4 => loaded[2]["payload"] = 1
    BY <1>5, <1>12 DEF Travels
  <2>1. t = 1 /\ x = (IF at[1] = 1 THEN "payload" ELSE "flag")
    BY <1>1 DEF Fences!MessagePassing
  <2>2. /\ at[1] >= 2 => view[1]["payload"] = 2
        /\ at[1] >= 3 => released[1][Channel]["payload"] = 2
        /\ loaded[2]["flag"] = 1 =>
              /\ at[2] >= 2 /\ seen[2][Channel]["payload"] = 2
              /\ at[2] >= 3 => view[2]["payload"] = 2
              /\ at[2] >= 4 => loaded[2]["payload"] = 1
    BY DEF FenceInv, Travels
  <2>3. at'[1] >= 4 => stores'["flag"][2].views[Channel]["payload"] = 2
    BY <1>1, <1>6, <1>7, <1>9, <2>1, <2>2
  <2>4. at'[1] >= 2 => view'[1]["payload"] = 2
    BY <1>1, <1>8, <1>9, <2>1, <2>2 DEF Fences!Location
  <2>5. at'[1] >= 3 => at[1] = 3
    BY <1>1, <1>9, <2>1
  <2>6. at'[2] = at[2] /\ (view[2]["payload"] = 2 => view'[2]["payload"] = 2)
    BY <1>8, <1>9, <2>1 DEF Fences!Location
  <2> QED
    BY <2>2, <2>3, <2>4, <2>5, <2>6
<1>14. Totals'
  <2> SUFFICES ASSUME Fences!StoreBuffering(fences.program), Fences!ScopesMeet,
                      \A u \in {1, 2} : Fences!Given(u).order = "SeqCst"
               PROVE  /\ at'[1] >= 2 => view'[1]["payload"] = 2
                      /\ at'[2] >= 2 => view'[2]["flag"] = 2
                      /\ at'[1] >= 3 => strict[Order]["payload"] = 2
                      /\ at'[2] >= 3 => strict[Order]["flag"] = 2
                      /\ at'[1] >= 3 /\ at'[2] >= 3 =>
                            \/ view'[1]["flag"] = 2 /\ (at'[1] = 4 => loaded[1]["flag"] = 1)
                            \/ view'[2]["payload"] = 2 /\ (at'[2] = 4 => loaded[2]["payload"] = 1)
    BY <1>5, <1>12 DEF Totals
  <2>1. at[t] = 1 /\ x = (IF t = 1 THEN "payload" ELSE "flag")
    BY <1>1 DEF Fences!StoreBuffering
  <2>2. /\ at[1] >= 2 => view[1]["payload"] = 2
        /\ at[2] >= 2 => view[2]["flag"] = 2
        /\ at[1] >= 3 => strict[Order]["payload"] = 2
        /\ at[2] >= 3 => strict[Order]["flag"] = 2
    BY DEF FenceInv, Totals
  <2>3. at'[t] = 2 /\ \A u \in {1, 2} : u # t => at'[u] = at[u]
    BY <1>9, <2>1
  <2>4. /\ view[1]["payload"] = 2 => view'[1]["payload"] = 2
        /\ view[2]["flag"] = 2 => view'[2]["flag"] = 2
        /\ t = 1 => view'[1]["payload"] = 2
        /\ t = 2 => view'[2]["flag"] = 2
    BY <1>8, <2>1 DEF Fences!Location
  <2> QED
    BY <1>1, <1>2, <2>2, <2>3, <2>4
<1> QED
  BY <1>10, <1>11, <1>13, <1>14 DEF FenceInv

\* A load keeps the invariant.
LEMMA LoadStep ==
    ASSUME LegalJobs, FenceInv, NEW t \in Fences!Thread, Fences!Load(t)
    PROVE  FenceInv'
<1> DEFINE x == Fences!Instruction(t).at
<1>1. /\ t \in {1, 2} /\ at[t] \in {1, 3} /\ x \in Fences!Location
      /\ fences.program[t][at[t]].op \in {"load", "await"} /\ fences.program[t][at[t]].at = x
  <2>1. PICK op \in {"load", "await"} : Fences!Does(t, op)
    BY DEF Fences!Load
  <2> QED
    BY <2>1, Position DEF FenceInv
<1>2. /\ fences \in FenceJobs
      /\ at \in [{1, 2} -> 1 .. 4]
      /\ stores \in [Fences!Location -> Seq(StoreType)]
      /\ view \in [{1, 2} -> View]
      /\ seen \in [{1, 2} -> [Fences!Scope -> View]]
      /\ loaded \in [{1, 2} -> [Fences!Location -> {0, 1}]]
  BY DEF FenceInv, Types
<1>3. Fences!Thread = {1, 2} /\ Writer(x) \in {1, 2}
  BY <1>1, <1>2, Programs
<1>4. PICK i \in DOMAIN stores[x] :
         /\ i >= view[t][x]
         /\ view' = [view EXCEPT ![t][x] = i]
         /\ loaded' = [loaded EXCEPT ![t][x] = stores[x][i].value]
         /\ seen' = [seen EXCEPT ![t] =
                [c \in Fences!Scope |-> IF c \in Fences!Reaches(stores[x][i], t)
                                 THEN Fences!Join({@[c], stores[x][i].views[c]}) ELSE @[c]]]
         /\ IF Fences!Does(t, "load") \/ stores[x][i].value = 1 THEN Fences!Advance(t) ELSE UNCHANGED at
  BY DEF Fences!Load
<1>5. UNCHANGED <<fences, stores, released, strict>>
  BY DEF Fences!Load
<1>6. PICK s \in StoreType : s = stores[x][i]
  BY <1>1, <1>2
<1> HIDE DEF x
<1>7. /\ i \in {1, 2} /\ (i = 1 => s.value = 0)
      /\ i = 2 => Len(stores[x]) = 2 /\ s.value = 1 /\ s.by = Writer(x)
  <2>1. stores[x] \in Seq(StoreType) /\ Len(stores[x]) \in {1, 2}
    BY <1>1, <1>2 DEF FenceInv, StoredOnce
  <2>2. i \in {1, 2} /\ (i = 2 => Len(stores[x]) = 2)
    BY <2>1
  <2> QED
    BY <1>1, <1>6, <2>2 DEF FenceInv, StoredOnce
<1>8. /\ view'[t][x] = i
      /\ \A u \in {1, 2}, y \in Fences!Location : view[u][y] = 2 => view'[u][y] = 2
      /\ \A u \in {1, 2}, y \in Fences!Location : u # t \/ y # x => view'[u][y] = view[u][y]
      /\ view' \in [{1, 2} -> View]
  BY <1>1, <1>2, <1>4, <1>7 DEF View
<1>9. /\ loaded'[t][x] = s.value
      /\ \A u \in {1, 2}, y \in Fences!Location : u # t \/ y # x => loaded'[u][y] = loaded[u][y]
      /\ loaded' \in [{1, 2} -> [Fences!Location -> {0, 1}]]
  <2>1. loaded' = [loaded EXCEPT ![t][x] = s.value] /\ s.value \in {0, 1}
    BY <1>4, <1>6 DEF StoreType
  <2> QED
    BY <1>1, <1>2, <2>1
<1>10. /\ at' = [at EXCEPT ![t] = @ + 1] \/ at' = at
       /\ fences.program[t][at[t]].op = "load" \/ s.value = 1 => at' = [at EXCEPT ![t] = @ + 1]
  BY <1>1, <1>2, <1>3, <1>4, <1>6, Programs DEF Fences!Advance, Fences!Does, Fences!Instruction
<1>11. /\ at' \in [{1, 2} -> 1 .. 4]
       /\ at'[t] \in {at[t], at[t] + 1} /\ \A u \in {1, 2} : u # t => at'[u] = at[u]
       /\ fences.program[t][at[t]].op = "load" \/ s.value = 1 => at'[t] = at[t] + 1
  BY <1>1, <1>2, <1>10
<1>12. /\ seen' \in [{1, 2} -> [Fences!Scope -> View]]
       /\ \A u \in {1, 2}, c \in Fences!Scope, y \in Fences!Location : seen[u][c][y] = 2 => seen'[u][c][y] = 2
       /\ \A c \in Fences!Reaches(s, t) \cap Fences!Scope, y \in Fences!Location : s.views[c][y] = 2 => seen'[t][c][y] = 2
  <2> DEFINE own == [c \in Fences!Scope |-> IF c \in Fences!Reaches(s, t)
                                     THEN Fences!Join({seen[t][c], s.views[c]}) ELSE seen[t][c]]
  <2>1. seen' = [seen EXCEPT ![t] = own]
    BY <1>1, <1>2, <1>4, <1>6
  <2>2. \A c \in Fences!Scope : seen[t][c] \in View /\ s.views[c] \in View
    BY <1>1, <1>2, <1>6 DEF StoreType
  <2>3. ASSUME NEW c \in Fences!Scope
        PROVE  LET j == Fences!Join({seen[t][c], s.views[c]})
               IN  /\ j \in View
                   /\ \A y \in Fences!Location : seen[t][c][y] = 2 \/ s.views[c][y] = 2 => j[y] = 2
    BY <2>2, JoinOfViews
  <2>4. \A c \in Fences!Scope : own[c] = IF c \in Fences!Reaches(s, t)
                                  THEN Fences!Join({seen[t][c], s.views[c]}) ELSE seen[t][c]
    OBVIOUS
  <2>5. own \in [Fences!Scope -> View]
    BY <2>2, <2>3
  <2>6. /\ \A c \in Fences!Scope, y \in Fences!Location : seen[t][c][y] = 2 => own[c][y] = 2
        /\ \A c \in Fences!Reaches(s, t) \cap Fences!Scope, y \in Fences!Location : s.views[c][y] = 2 => own[c][y] = 2
    BY <2>3, <2>4
  <2> HIDE DEF own
  <2>7. seen'[t] = own /\ \A u \in {1, 2} : u # t => seen'[u] = seen[u]
    BY <1>1, <1>2, <2>1
  <2> QED
    BY <1>1, <1>2, <2>1, <2>5, <2>6, <2>7
<1>13. Types'
  <2>1. UNCHANGED <<fences, stores>> /\ UNCHANGED <<released, strict>>
    BY <1>5
  <2> QED
    BY <1>8, <1>9, <1>11, <1>12, <2>1 DEF FenceInv, Types
<1>14. StoredOnce'
  <2>1. PICK op \in {"load", "await"} : Fences!Does(t, op)
    BY DEF Fences!Load
  <2> QED
    BY <1>5, <1>10, <2>1, NothingStored DEF FenceInv
<1>15. /\ Fences!ScopesMeet' = Fences!ScopesMeet /\ Channel' = Channel /\ Order' = Order
       /\ \A u \in {1, 2} : Fences!Given(u)' = Fences!Given(u)
  BY <1>5 DEF Fences!ScopesMeet, Channel, Order, Fences!Given, Fences!Thread
<1>16. Travels'
  <2> SUFFICES ASSUME Fences!MessagePassing(fences.program), Fences!ScopesMeet,
                      Fences!Given(1).order \in {"Release", "AcqRel", "SeqCst"},
                      Fences!Given(2).order \in {"Acquire", "AcqRel", "SeqCst"}
               PROVE  /\ at'[1] >= 2 => view'[1]["payload"] = 2
                      /\ at'[1] >= 3 => released[1][Channel]["payload"] = 2
                      /\ at'[1] >= 4 => stores["flag"][2].views[Channel]["payload"] = 2
                      /\ loaded'[2]["flag"] = 1 =>
                            /\ at'[2] >= 2 /\ seen'[2][Channel]["payload"] = 2
                            /\ at'[2] >= 3 => view'[2]["payload"] = 2
                            /\ at'[2] >= 4 => loaded'[2]["payload"] = 1
    BY <1>5, <1>15 DEF Travels
  <2>1. t = 2 /\ x = (IF at[2] = 1 THEN "flag" ELSE "payload")
    BY <1>1 DEF Fences!MessagePassing
  <2>2. /\ at[1] >= 2 => view[1]["payload"] = 2
        /\ at[1] >= 3 => released[1][Channel]["payload"] = 2
        /\ at[1] >= 4 => stores["flag"][2].views[Channel]["payload"] = 2
    BY DEF FenceInv, Travels
  <2>3. loaded[2]["flag"] = 1 =>
           /\ at[2] >= 2 /\ seen[2][Channel]["payload"] = 2
           /\ at[2] >= 3 => view[2]["payload"] = 2
    BY DEF FenceInv, Travels
  <2>4. at'[1] = at[1] /\ view'[1]["payload"] = view[1]["payload"] /\ Channel \in Fences!Scope
    BY <1>8, <1>11, <2>1 DEF Fences!Location, Channel, Fences!Scope
  <2>5. CASE at[2] = 1
    <3>1. x = "flag" /\ at'[2] \in {1, 2}
      BY <1>11, <2>1, <2>5
    <3>2. loaded'[2]["flag"] = s.value
      BY <1>9, <2>1, <3>1
    <3>3. SUFFICES ASSUME s.value = 1
                   PROVE  at'[2] >= 2 /\ seen'[2][Channel]["payload"] = 2
      BY <2>2, <2>4, <3>1, <3>2
    <3>4. i = 2 /\ Len(stores["flag"]) = 2 /\ s.by = Writer("flag")
      BY <1>7, <3>1, <3>3
    <3>5. Writer("flag") = 1 /\ Line("flag") = 3
      BY DEF Writer, Line, Fences!MessagePassing, Fences!StoreBuffering
    <3>6. at[1] >= 4
      BY <1>2, <3>4, <3>5 DEF FenceInv, StoredOnce, Fences!Location
    <3>7. s.views[Channel]["payload"] = 2
      BY <1>6, <2>2, <3>1, <3>4, <3>6
    <3>8. Channel \in Fences!Reaches(s, 2)
      BY <3>4, <3>5 DEF Channel, Fences!Reaches, Fences!Scope
    <3> QED
      BY <1>11, <1>12, <2>1, <2>4, <2>5, <3>3, <3>7, <3>8 DEF Fences!Location
  <2>6. CASE at[2] = 3
    <3>1. x = "payload" /\ fences.program[2][3].op = "load"
      BY <2>1, <2>6 DEF Fences!MessagePassing
    <3>2. loaded'[2]["flag"] = loaded[2]["flag"]
      BY <1>9, <2>1, <3>1 DEF Fences!Location
    <3>3. SUFFICES ASSUME loaded[2]["flag"] = 1
                   PROVE  /\ at'[2] >= 2 /\ seen'[2][Channel]["payload"] = 2
                          /\ view'[2]["payload"] = 2
                          /\ loaded'[2]["payload"] = 1
      BY <2>2, <2>4, <3>2
    <3>4. view[2]["payload"] = 2 /\ seen[2][Channel]["payload"] = 2
      BY <2>3, <2>6, <3>3
    <3>5. i = 2
      BY <1>4, <1>7, <2>1, <3>1, <3>4
    <3> QED
      BY <1>7, <1>8, <1>9, <1>11, <1>12, <2>1, <2>4, <2>6, <3>1, <3>4, <3>5 DEF Fences!Location
  <2> QED
    BY <1>1, <2>1, <2>5, <2>6
<1>17. Totals'
  <2> SUFFICES ASSUME Fences!StoreBuffering(fences.program), Fences!ScopesMeet,
                      \A u \in {1, 2} : Fences!Given(u).order = "SeqCst"
               PROVE  /\ at'[1] >= 2 => view'[1]["payload"] = 2
                      /\ at'[2] >= 2 => view'[2]["flag"] = 2
                      /\ at'[1] >= 3 => strict[Order]["payload"] = 2
                      /\ at'[2] >= 3 => strict[Order]["flag"] = 2
                      /\ at'[1] >= 3 /\ at'[2] >= 3 =>
                            \/ view'[1]["flag"] = 2 /\ (at'[1] = 4 => loaded'[1]["flag"] = 1)
                            \/ view'[2]["payload"] = 2 /\ (at'[2] = 4 => loaded'[2]["payload"] = 1)
    BY <1>5, <1>15 DEF Totals
  <2>1. at[t] = 3 /\ x = (IF t = 1 THEN "flag" ELSE "payload")
    BY <1>1 DEF Fences!StoreBuffering
  <2>2. /\ at[1] >= 2 => view[1]["payload"] = 2
        /\ at[2] >= 2 => view[2]["flag"] = 2
        /\ at[1] >= 3 => strict[Order]["payload"] = 2
        /\ at[2] >= 3 => strict[Order]["flag"] = 2
        /\ at[1] >= 3 /\ at[2] >= 3 =>
              \/ view[1]["flag"] = 2 /\ (at[1] = 4 => loaded[1]["flag"] = 1)
              \/ view[2]["payload"] = 2 /\ (at[2] = 4 => loaded[2]["payload"] = 1)
    BY DEF FenceInv, Totals
  <2>3. \A u \in {1, 2} : (at'[u] >= 2 <=> at[u] >= 2) /\ (at'[u] >= 3 <=> at[u] >= 3)
    BY <1>1, <1>2, <1>11, <2>1
  <2>4. view[t][x] = 2 => loaded'[t][x] = 1 /\ view'[t][x] = 2
    BY <1>4, <1>7, <1>8, <1>9
  <2>5. \A y \in Fences!Location : view[1][y] = 2 => view'[1][y] = 2
    BY <1>8
  <2>6. \A y \in Fences!Location : view[2][y] = 2 => view'[2][y] = 2
    BY <1>8
  <2>7. CASE t = 1
    <3>1. x = "flag" /\ at'[2] = at[2] /\ loaded'[2]["payload"] = loaded[2]["payload"]
      BY <1>9, <1>11, <2>1, <2>7 DEF Fences!Location
    <3> QED
      BY <2>2, <2>3, <2>4, <2>5, <2>6, <2>7, <3>1 DEF Fences!Location
  <2>8. CASE t = 2
    <3>1. x = "payload" /\ at'[1] = at[1] /\ loaded'[1]["flag"] = loaded[1]["flag"]
      BY <1>9, <1>11, <2>1, <2>8 DEF Fences!Location
    <3> QED
      BY <2>2, <2>3, <2>4, <2>5, <2>6, <2>8, <3>1 DEF Fences!Location
  <2> QED
    BY <1>1, <2>7, <2>8
<1> QED
  BY <1>13, <1>14, <1>16, <1>17 DEF FenceInv

\* A fence keeps the invariant.
LEMMA MemFenceStep ==
    ASSUME LegalJobs, FenceInv, NEW t \in Fences!Thread, Fences!MemFence(t)
    PROVE  FenceInv'
<1>1. /\ t \in {1, 2} /\ at[t] = 2 /\ Fences!Instruction(t) = Fences!Given(t) /\ Fences!Thread = {1, 2}
      /\ fences.block[t] \in {1, 2}
  BY Position, Programs DEF Fences!MemFence, FenceInv, Types, Fences!Given
<1>2. PICK f : f = Fences!Issued(Fences!Given(t).scope, Fences!Given(t).order)
  OBVIOUS
<1> DEFINE views == {view[t]} \cup {seen[t][s] : s \in IF Fences!Acquires(f) THEN Fences!Within(f.scope) ELSE {}}
                              \cup {strict[b] : b \in IF f.order = "SeqCst"
                                                      THEN Fences!StrictWith(t, f.scope) ELSE {}}
<1>3. PICK v : v = Fences!Join(views)
  OBVIOUS
<1>4. /\ view' = [view EXCEPT ![t] = v]
      /\ strict' = [b \in DOMAIN strict |->
             IF f.order = "SeqCst" /\ b \in Fences!StrictWith(t, f.scope) THEN v ELSE strict[b]]
      /\ released' = [released EXCEPT ![t] =
             [s \in Fences!Scope |-> IF Fences!Releases(f) /\ s \in Fences!Within(f.scope) THEN v ELSE @[s]]]
      /\ at' = [at EXCEPT ![t] = @ + 1]
      /\ UNCHANGED <<fences, stores, seen, loaded>>
  BY <1>1, <1>2, <1>3 DEF Fences!MemFence, Fences!Advance
<1>5. /\ fences \in FenceJobs
      /\ at \in [{1, 2} -> 1 .. 4]
      /\ view \in [{1, 2} -> View]
      /\ released \in [{1, 2} -> [Fences!Scope -> View]]
      /\ seen \in [{1, 2} -> [Fences!Scope -> View]]
      /\ strict \in [0 .. 2 -> View]
  BY DEF FenceInv, Types
<1>6. Fences!Within(f.scope) \subseteq Fences!Scope /\ Fences!StrictWith(t, f.scope) \subseteq 0 .. 2
  BY <1>1 DEF Fences!Within, Fences!Scope, Fences!StrictWith
<1>7. views \subseteq View /\ views # {}
  BY <1>1, <1>5, <1>6
<1>8. v \in View /\ \A x \in Fences!Location : v[x] = 2 <=> \E w \in views : w[x] = 2
  BY <1>3, <1>7, JoinOfViews
<1>9. \A x \in Fences!Location :
         /\ view[t][x] = 2 => v[x] = 2
         /\ \A s \in Fences!Within(f.scope) : Fences!Acquires(f) /\ seen[t][s][x] = 2 => v[x] = 2
         /\ \A b \in Fences!StrictWith(t, f.scope) : f.order = "SeqCst" /\ strict[b][x] = 2 => v[x] = 2
  BY <1>8
<1> HIDE DEF views
<1>10. /\ view'[t] = v /\ \A u \in {1, 2} : u # t => view'[u] = view[u]
       /\ view' \in [{1, 2} -> View]
  BY <1>1, <1>4, <1>5, <1>8
<1>11. /\ strict' \in [0 .. 2 -> View]
       /\ \A b \in 0 .. 2 : strict'[b] = IF f.order = "SeqCst" /\ b \in Fences!StrictWith(t, f.scope)
                                         THEN v ELSE strict[b]
  BY <1>4, <1>5, <1>8
<1>12. /\ released' \in [{1, 2} -> [Fences!Scope -> View]]
       /\ \A u \in {1, 2} : u # t => released'[u] = released[u]
       /\ \A s \in Fences!Scope : Fences!Releases(f) /\ s \in Fences!Within(f.scope) => released'[t][s] = v
  <2> DEFINE own == [s \in Fences!Scope |-> IF Fences!Releases(f) /\ s \in Fences!Within(f.scope) THEN v ELSE released[t][s]]
  <2>1. released' = [released EXCEPT ![t] = own]
    BY <1>1, <1>4, <1>5
  <2>2. own \in [Fences!Scope -> View]
    BY <1>1, <1>5, <1>8
  <2>3. \A s \in Fences!Scope : Fences!Releases(f) /\ s \in Fences!Within(f.scope) => own[s] = v
    OBVIOUS
  <2> HIDE DEF own
  <2> QED
    BY <1>1, <1>5, <2>1, <2>2, <2>3
<1>13. /\ at'[t] = 3 /\ \A u \in {1, 2} : u # t => at'[u] = at[u]
       /\ at' \in [{1, 2} -> 1 .. 4]
  BY <1>1, <1>4, <1>5
<1>14. Types'
  <2>1. UNCHANGED <<fences, stores>> /\ UNCHANGED <<seen, loaded>>
    BY <1>4
  <2> QED
    BY <1>10, <1>11, <1>12, <1>13, <2>1 DEF FenceInv, Types
<1>15. StoredOnce'
  BY <1>4, NothingStored DEF FenceInv, Fences!MemFence
<1>16. /\ Fences!ScopesMeet' = Fences!ScopesMeet /\ Channel' = Channel /\ Order' = Order
       /\ \A u \in {1, 2} : Fences!Given(u)' = Fences!Given(u)
  BY <1>4 DEF Fences!ScopesMeet, Channel, Order, Fences!Given, Fences!Thread
<1>17. \A u \in {1, 2}, x \in Fences!Location : view[u][x] = 2 => view'[u][x] = 2
  BY <1>9, <1>10
<1>18. Travels'
  <2> SUFFICES ASSUME Fences!MessagePassing(fences.program), Fences!ScopesMeet,
                      Fences!Given(1).order \in {"Release", "AcqRel", "SeqCst"},
                      Fences!Given(2).order \in {"Acquire", "AcqRel", "SeqCst"}
               PROVE  /\ at'[1] >= 2 => view'[1]["payload"] = 2
                      /\ at'[1] >= 3 => released'[1][Channel]["payload"] = 2
                      /\ at'[1] >= 4 => stores["flag"][2].views[Channel]["payload"] = 2
                      /\ loaded[2]["flag"] = 1 =>
                            /\ at'[2] >= 2 /\ seen[2][Channel]["payload"] = 2
                            /\ at'[2] >= 3 => view'[2]["payload"] = 2
                            /\ at'[2] >= 4 => loaded[2]["payload"] = 1
    BY <1>4, <1>16 DEF Travels
  <2>1. /\ at[1] >= 2 => view[1]["payload"] = 2
        /\ at[1] >= 3 => released[1][Channel]["payload"] = 2
        /\ at[1] >= 4 => stores["flag"][2].views[Channel]["payload"] = 2
        /\ loaded[2]["flag"] = 1 =>
              /\ at[2] >= 2 /\ seen[2][Channel]["payload"] = 2
              /\ at[2] >= 3 => view[2]["payload"] = 2
              /\ at[2] >= 4 => loaded[2]["payload"] = 1
    BY DEF FenceInv, Travels
  <2>2. Channel \in Fences!Within(f.scope) /\ Channel \in Fences!Scope
    BY <1>1, <1>2, <1>5, <1>6, IssuedIsStrong
  <2>3. CASE t = 1
    <3>1. Fences!Releases(f)
      BY <1>1, <1>2, <1>5, <2>3, IssuedIsStrong
    <3>2. v["payload"] = 2
      BY <1>1, <1>9, <2>1, <2>3 DEF Fences!Location
    <3>3. released'[1][Channel]["payload"] = 2 /\ view'[1]["payload"] = 2
      BY <1>10, <1>12, <2>2, <2>3, <3>1, <3>2
    <3>4. at'[1] = 3 /\ at'[2] = at[2] /\ view'[2] = view[2]
      BY <1>10, <1>13, <2>3
    <3> QED
      BY <2>1, <3>3, <3>4
  <2>4. CASE t = 2
    <3>1. Fences!Acquires(f)
      BY <1>1, <1>2, <1>5, <2>4, IssuedIsStrong
    <3>2. loaded[2]["flag"] = 1 => v["payload"] = 2
      BY <1>9, <2>1, <2>2, <2>4, <3>1 DEF Fences!Location
    <3>3. at'[2] = 3 /\ at'[1] = at[1] /\ view'[1] = view[1] /\ view'[2] = v /\ released'[1] = released[1]
      BY <1>10, <1>12, <1>13, <2>4
    <3> QED
      BY <2>1, <3>2, <3>3
  <2> QED
    BY <1>1, <2>3, <2>4
<1>19. Totals'
  <2> SUFFICES ASSUME Fences!StoreBuffering(fences.program), Fences!ScopesMeet,
                      \A u \in {1, 2} : Fences!Given(u).order = "SeqCst"
               PROVE  /\ at'[1] >= 2 => view'[1]["payload"] = 2
                      /\ at'[2] >= 2 => view'[2]["flag"] = 2
                      /\ at'[1] >= 3 => strict'[Order]["payload"] = 2
                      /\ at'[2] >= 3 => strict'[Order]["flag"] = 2
                      /\ at'[1] >= 3 /\ at'[2] >= 3 =>
                            \/ view'[1]["flag"] = 2 /\ (at'[1] = 4 => loaded[1]["flag"] = 1)
                            \/ view'[2]["payload"] = 2 /\ (at'[2] = 4 => loaded[2]["payload"] = 1)
    BY <1>4, <1>16 DEF Totals
  <2>1. /\ at[1] >= 2 => view[1]["payload"] = 2
        /\ at[2] >= 2 => view[2]["flag"] = 2
        /\ at[1] >= 3 => strict[Order]["payload"] = 2
        /\ at[2] >= 3 => strict[Order]["flag"] = 2
    BY DEF FenceInv, Totals
  <2>2. f.order = "SeqCst" /\ Order \in Fences!StrictWith(t, f.scope) /\ Order \in 0 .. 2
    BY <1>1, <1>2, <1>5, IssuedIsStrong
  <2>3. strict'[Order] = v /\ \A x \in Fences!Location : strict[Order][x] = 2 => v[x] = 2
    BY <1>9, <1>11, <2>2
  <2>4. CASE t = 1
    <3>1. v["payload"] = 2
      BY <1>1, <1>9, <2>1, <2>4 DEF Fences!Location
    <3>2. at'[1] = 3 /\ at'[2] = at[2] /\ view'[1] = v /\ view'[2] = view[2]
      BY <1>10, <1>13, <2>4
    <3> QED
      BY <2>1, <2>3, <3>1, <3>2 DEF Fences!Location
  <2>5. CASE t = 2
    <3>1. v["flag"] = 2
      BY <1>1, <1>9, <2>1, <2>5 DEF Fences!Location
    <3>2. at'[2] = 3 /\ at'[1] = at[1] /\ view'[2] = v /\ view'[1] = view[1]
      BY <1>10, <1>13, <2>5
    <3> QED
      BY <2>1, <2>3, <3>1, <3>2 DEF Fences!Location
  <2> QED
    BY <1>1, <2>4, <2>5
<1> QED
  BY <1>14, <1>15, <1>18, <1>19 DEF FenceInv

\* What is stored, published, remembered and ordered stays as described.
LEMMA FenceStep ==
    ASSUME LegalJobs, FenceInv, [Fences!Next]_(fenceVars)
    PROVE  FenceInv'
<1>1. ASSUME NEW t \in Fences!Thread, Fences!Store(t) PROVE FenceInv'
  BY <1>1, StoreStep
<1>2. ASSUME NEW t \in Fences!Thread, Fences!Load(t) PROVE FenceInv'
  BY <1>2, LoadStep
<1>3. ASSUME NEW t \in Fences!Thread, Fences!MemFence(t) PROVE FenceInv'
  BY <1>3, MemFenceStep
<1>4. CASE UNCHANGED fenceVars
  <2>1. /\ UNCHANGED <<fences, at, stores, view>>
        /\ UNCHANGED <<released, seen, strict, loaded>>
    BY <1>4 DEF fenceVars
  <2>2. Types'
    BY <2>1 DEF FenceInv, Types
  <2>3. StoredOnce'
    BY <2>1 DEF FenceInv, StoredOnce, Writer, Line
  <2>4. Travels'
    BY <2>1 DEF FenceInv, Travels, Fences!Given, Fences!ScopesMeet, Fences!Thread, Channel
  <2>5. Totals'
    BY <2>1 DEF FenceInv, Totals, Fences!Given, Fences!ScopesMeet, Fences!Thread, Order
  <2> QED
    BY <2>2, <2>3, <2>4, <2>5 DEF FenceInv
<1> QED
  BY <1>1, <1>2, <1>3, <1>4 DEF Fences!Next

\* Fences either rest, with the variables of another part in motion, or keep order.
LEMMA FencesKeepOrder ==
    MCSpec => [](FenceRuns => FenceInv)
<1> DEFINE Inv == FenceRuns => FenceInv
<1>1. LegalJobs
  BY FenceJobsAssumption DEF LegalJobs
<1>2. MCInit => Inv
  <2>1. Fences!Init => FenceInv
    BY <1>1, FenceInit
  <2>2. FenceIdle => ~FenceRuns
    BY DEF FenceIdle, FenceRuns
  <2> QED
    BY <2>1, <2>2 DEF MCInit
<1>3. Inv /\ [MCNext]_mcVars => Inv'
  <2> SUFFICES ASSUME Inv, [MCNext]_mcVars PROVE Inv'
    OBVIOUS
  <2>1. CASE FenceRuns /\ Fences!Next
    BY <1>1, <2>1, FenceStep
  <2>2. CASE UNCHANGED fenceVars
    <3>1. FenceRuns' => FenceRuns
      BY <2>2 DEF fenceVars, FenceRuns
    <3> QED
      BY <1>1, <2>2, <3>1, FenceStep
  <2> QED
    BY <2>1, <2>2 DEF MCNext, mcVars
<1> QED
  BY <1>2, <1>3, PTL DEF MCSpec

\* Who observes the flag behind an acquire fence observes the payload that was
\* written before a release fence (docs/source/tutorial/memFence.rst), on every
\* back end, for all pairs of orders that release and acquire, if the scopes of
\* both fences reach the other thread.
LEMMA MessagesArrive ==
    ASSUME LegalJobs, FenceInv
    PROVE  Fences!PayloadIsVisible
<1> SUFFICES ASSUME FenceInv,
                    Fences!Finished,
                    Fences!Publishes(1), Fences!Given(1).order \in {"Release", "AcqRel", "SeqCst"},
                    Fences!Consumes(2), Fences!Given(2).order \in {"Acquire", "AcqRel", "SeqCst"},
                    Fences!ScopesMeet,
                    loaded[2]["flag"] = 1
             PROVE  loaded[2]["payload"] = 1
  BY DEF Fences!PayloadIsVisible
<1>1. Fences!Legal(fences) /\ Fences!Thread = {1, 2} /\ Len(fences.program[2]) = 3
  BY Programs DEF FenceInv, Types, LegalJobs
<1>2. Fences!MessagePassing(fences.program)
  BY <1>1 DEF Fences!Legal, Fences!StoreBuffering, Fences!Publishes
<1>3. at[2] >= 4
  <2>1. at[2] > Len(fences.program[2]) /\ at[2] \in 1 .. 4
    BY <1>1 DEF Fences!Finished, FenceInv, Types
  <2> QED
    BY <1>1, <2>1
<1> QED
  BY <1>2, <1>3 DEF FenceInv, Travels

\* "a single global order for all sequentially consistent operations"
\* (onAcc/memoryOrder.hpp:37): of two threads that each store, fence and load what
\* the other one stores, one sees the store of the other, on every back end.
LEMMA StrictFencesAreTotal ==
    ASSUME LegalJobs, FenceInv
    PROVE  Fences!SeqCstIsTotal
<1> SUFFICES ASSUME FenceInv,
                    Fences!Finished,
                    ~Fences!Publishes(1), ~Fences!Consumes(2),
                    \A t \in Fences!Thread : Fences!Given(t).order = "SeqCst",
                    Fences!ScopesMeet
             PROVE  loaded[1]["flag"] = 1 \/ loaded[2]["payload"] = 1
  BY DEF Fences!SeqCstIsTotal
<1>1. /\ Fences!Legal(fences) /\ Fences!Thread = {1, 2}
      /\ Len(fences.program[1]) = 3 /\ Len(fences.program[2]) = 3
  BY Programs DEF FenceInv, Types, LegalJobs
<1>2. Fences!StoreBuffering(fences.program)
  BY <1>1 DEF Fences!Legal, Fences!MessagePassing, Fences!Publishes
<1>3. at[1] = 4 /\ at[2] = 4
  <2>1. /\ at[1] > Len(fences.program[1]) /\ at[1] \in 1 .. 4
        /\ at[2] > Len(fences.program[2]) /\ at[2] \in 1 .. 4
    BY <1>1 DEF Fences!Finished, FenceInv, Types
  <2> QED
    BY <1>1, <2>1
<1> QED
  BY <1>1, <1>2, <1>3 DEF FenceInv, Totals

\* For every set of legal jobs, whatever their fences, back ends and blocks:
\* messages arrive and sequentially consistent fences have one order.
THEOREM FencesOrder ==
    MCSpec => []FencesOrderMemory
<1>1. (FenceRuns => FenceInv) => FencesOrderMemory
  BY FenceJobsAssumption, MessagesArrive, StrictFencesAreTotal
  DEF LegalJobs, FencesOrderMemory, Fences!FencesOrderMemory
<1> QED
  BY <1>1, FencesKeepOrder, PTL

-----------------------------------------------------------------------------
(***************************************************************************)
(* RandomNumbers.                                                           *)
(***************************************************************************)

\* A carry of zero or one goes into the next digit only if the digit wraps.
LEMMA CarryOver ==
    ASSUME NEW w \in Nat, w > 1, NEW n \in Nat, NEW c \in {0, 1}
    PROVE  /\ (n + c) % w = ((n % w) + c) % w
           /\ (n + c) \div w = (n \div w) + (IF c = 1 /\ (n + c) % w = 0 THEN 1 ELSE 0)
<1> DEFINE q == n \div w
           r == n % w
<1>1. q \in Nat /\ r \in Nat /\ r < w /\ n = w * q + r
  BY Division
<1> HIDE DEF q, r
<1>2. CASE r + c < w
  <2>1. n + c = w * q + (r + c) /\ r + c \in Nat
    BY <1>1
  <2>2. (n + c) \div w = q /\ (n + c) % w = r + c
    BY <1>1, <1>2, <2>1, Quotient
  <2>3. (r + c) % w = r + c
    BY <1>1, <1>2, Quotient, 0 \in Nat, w * 0 = 0, 0 + (r + c) = r + c
  <2> QED
    BY <1>1, <2>1, <2>2, <2>3 DEF q, r
<1>3. CASE r + c = w
  <2>1. n + c = w * (q + 1) + 0 /\ q + 1 \in Nat /\ c = 1
    BY <1>1, <1>3
  <2>2. (n + c) \div w = q + 1 /\ (n + c) % w = 0
    BY <2>1, Quotient
  <2>3. w % w = 0
    BY Quotient, w = w * 1 + 0
  <2> QED
    BY <1>3, <2>1, <2>2, <2>3 DEF q, r
<1> QED
  BY <1>1, <1>2, <1>3

\* Counting through the carries is counting.
LEMMA AdvanceCounts ==
    ASSUME Radix \in Nat, Radix > 1, NEW v \in Nat
    PROVE  Engine!AdvanceCounter(Engine!Word4(v)) = Engine!Word4(v + 1)
<1> DEFINE w2 == v \div Radix
           w3 == w2 \div Radix
           w4 == w3 \div Radix
           d1 == (v + 1) % Radix
           k1 == IF d1 = 0 THEN 1 ELSE 0
           d2 == (w2 + k1) % Radix
           k2 == IF d1 = 0 /\ d2 = 0 THEN 1 ELSE 0
           d3 == (w3 + k2) % Radix
           k3 == IF d1 = 0 /\ d2 = 0 /\ d3 = 0 THEN 1 ELSE 0
           d4 == (w4 + k3) % Radix
<1>1. w2 \in Nat /\ w3 \in Nat /\ w4 \in Nat
  BY Division
<1>2. (v + 1) \div Radix = w2 + k1 /\ d1 = ((v % Radix) + 1) % Radix
  BY CarryOver
<1>3. k1 \in {0, 1} /\ k2 \in {0, 1} /\ k3 \in {0, 1}
  OBVIOUS
<1>4. (w2 + k1) \div Radix = w3 + k2 /\ d2 = ((w2 % Radix) + k1) % Radix
  <2> HIDE DEF k1
  <2>1. /\ (w2 + k1) % Radix = ((w2 % Radix) + k1) % Radix
        /\ (w2 + k1) \div Radix = w3 + (IF k1 = 1 /\ (w2 + k1) % Radix = 0 THEN 1 ELSE 0)
    BY <1>1, <1>3, CarryOver
  <2> QED
    BY <2>1 DEF k1
<1>5. (w3 + k2) \div Radix = w4 + k3 /\ d3 = ((w3 % Radix) + k2) % Radix
  <2> HIDE DEF k2
  <2>1. /\ (w3 + k2) % Radix = ((w3 % Radix) + k2) % Radix
        /\ (w3 + k2) \div Radix = w4 + (IF k2 = 1 /\ (w3 + k2) % Radix = 0 THEN 1 ELSE 0)
    BY <1>1, <1>3, CarryOver
  <2> QED
    BY <2>1 DEF k2
<1>6. d4 = ((w4 % Radix) + k3) % Radix
  <2> HIDE DEF k3
  <2> QED
    BY <1>1, <1>3, CarryOver
<1>7. Engine!Word4(v + 1) = <<d1, d2, d3, d4>>
  BY <1>2, <1>4, <1>5 DEF Engine!Word4
<1>8. Engine!AdvanceCounter(Engine!Word4(v)) = <<d1, d2, d3, d4>>
  <2>1. Engine!Word4(v) = <<v % Radix, w2 % Radix, w3 % Radix, w4 % Radix>>
    BY DEF Engine!Word4
  <2>2. /\ d1 = ((v % Radix) + 1) % Radix
        /\ d2 = ((w2 % Radix) + k1) % Radix
        /\ d3 = ((w3 % Radix) + k2) % Radix
        /\ d4 = ((w4 % Radix) + k3) % Radix
    BY <1>2, <1>4, <1>5, <1>6
  <2> HIDE DEF w2, w3, w4, d1, d2, d3, d4
  <2> QED
    BY <2>1, <2>2 DEF Engine!AdvanceCounter, Engine!Low
<1> QED
  BY <1>7, <1>8

\* A counter is the words of its value.
LEMMA ValueOfCounter ==
    ASSUME Radix \in Nat, Radix > 1, NEW c \in Engine!Counter
    PROVE  Engine!Value(c) \in Nat /\ Engine!Word4(Engine!Value(c)) = c
<1>1. /\ c[1] \in Nat /\ c[1] < Radix
      /\ c[2] \in Nat /\ c[2] < Radix
      /\ c[3] \in Nat /\ c[3] < Radix
      /\ c[4] \in Nat /\ c[4] < Radix
      /\ c = <<c[1], c[2], c[3], c[4]>>
  BY DEF Engine!Counter, Engine!Word
<1>2. Engine!Value(c) = c[1] + Radix * (c[2] + Radix * (c[3] + Radix * c[4]))
  BY DEF Engine!Value
<1>3. PICK w \in Nat : w = c[1]
  BY <1>1
<1>4. PICK x \in Nat : x = c[2]
  BY <1>1
<1>5. PICK y \in Nat : y = c[3]
  BY <1>1
<1>6. PICK z \in Nat : z = c[4]
  BY <1>1
<1> DEFINE v == Engine!Value(c)
           v3 == y + Radix * z
           v2 == x + Radix * v3
<1>7. v = w + Radix * (x + Radix * (y + Radix * z))
  BY <1>2, <1>3, <1>4, <1>5, <1>6
<1>8. w < Radix /\ x < Radix /\ y < Radix /\ z < Radix
  BY <1>1, <1>3, <1>4, <1>5, <1>6
<1> HIDE DEF v
<1>9. v3 \in Nat /\ v3 \div Radix = z /\ v3 % Radix = y
  BY <1>8, Digit
<1>10. v = w + Radix * v2
  BY <1>7
<1> HIDE DEF v3
<1>11. v2 \in Nat /\ v2 \div Radix = v3 /\ v2 % Radix = x
  BY <1>8, <1>9, Digit
<1> HIDE DEF v2
<1>12. v \in Nat /\ v \div Radix = v2 /\ v % Radix = w
  BY <1>8, <1>10, <1>11, Digit
<1>13. z % Radix = z
  <2>1. z = z + Radix * 0
    OBVIOUS
  <2> QED
    BY <1>8, <2>1, Digit
<1>14. Engine!Word4(v) = <<w, x, y, z>>
  BY <1>9, <1>11, <1>12, <1>13 DEF Engine!Word4
<1> QED
  BY <1>1, <1>3, <1>4, <1>5, <1>6, <1>12, <1>14 DEF v

----------------------------------------------------------------------------
\* Words are digits.
LEMMA Words ==
    ASSUME Engine!LegalEngine
    PROVE  /\ Radix \in Nat /\ Radix \in Nat \ {0} /\ Radix > 1
           /\ Engine!Word = 0 .. Radix - 1 /\ 0 \in Engine!Word
<1>1. Radix \in Nat /\ Radix > 1
  BY DEF Engine!LegalEngine
<1> QED
  BY <1>1 DEF Engine!Word

\* Low and High are words.
LEMMA LowIsWord ==
    ASSUME Engine!LegalEngine, NEW n \in Nat
    PROVE  Engine!Low(n) \in Engine!Word /\ Engine!High(n) \in Engine!Word
<1>1. n % Radix \in 0 .. Radix - 1 /\ n \div Radix \in Nat
  BY Words, Division
<1>2. (n \div Radix) % Radix \in 0 .. Radix - 1
  BY <1>1, Words, Division
<1> QED
  BY <1>1, <1>2 DEF Engine!Low, Engine!High, Engine!Word

\* One round of the shuffle makes a counter of a counter.
LEMMA RoundIsTyped ==
    ASSUME Engine!LegalEngine, NEW c \in Engine!Counter, NEW k \in Engine!Key
    PROVE  Engine!SingleRound(c, k) \in Engine!Counter /\ Engine!BumpKey(k) \in Engine!Key
<1>1. Engine!Word \subseteq Nat
  BY DEF Engine!Word, Engine!LegalEngine
<1>2. c[1] \in Engine!Word /\ c[2] \in Engine!Word /\ c[3] \in Engine!Word /\ c[4] \in Engine!Word
  BY DEF Engine!Counter
<1>3. k[1] \in Engine!Word /\ k[2] \in Engine!Word
  BY DEF Engine!Key
<1>4. Multipliers[1] \in Nat /\ Multipliers[2] \in Nat /\ Weyl[1] \in Nat /\ Weyl[2] \in Nat
  BY DEF Engine!LegalEngine
<1>5. c[1] * Multipliers[1] \in Nat /\ c[3] * Multipliers[2] \in Nat
  <2>1. c[1] \in Nat /\ c[3] \in Nat
    BY <1>1, <1>2
  <2> QED
    BY <1>4, <2>1
<1>6. Engine!SingleRound(c, k) \in Engine!Counter
  <2> DEFINE p0 == c[1] * Multipliers[1]
             p1 == c[3] * Multipliers[2]
  <2>1. /\ Engine!Low(p0) \in Engine!Word /\ Engine!High(p0) \in Engine!Word
        /\ Engine!Low(p1) \in Engine!Word /\ Engine!High(p1) \in Engine!Word
    BY <1>5, LowIsWord
  <2>2. Engine!SingleRound(c, k) =
          <<XorWords(XorWords(Engine!High(p1), c[2]), k[1]), Engine!Low(p1),
            XorWords(XorWords(Engine!High(p0), c[4]), k[2]), Engine!Low(p0)>>
    BY DEF Engine!SingleRound
  <2> HIDE DEF p0, p1
  <2>3. /\ XorWords(XorWords(Engine!High(p1), c[2]), k[1]) \in Engine!Word
        /\ XorWords(XorWords(Engine!High(p0), c[4]), k[2]) \in Engine!Word
    BY <1>2, <1>3, <2>1 DEF Engine!LegalEngine
  <2> QED
    BY <2>1, <2>2, <2>3 DEF Engine!Counter
<1>7. Engine!BumpKey(k) \in Engine!Key
  <2>1. k[1] + Weyl[1] \in Nat /\ k[2] + Weyl[2] \in Nat
    <3>1. k[1] \in Nat /\ k[2] \in Nat
      BY <1>1, <1>3
    <3> QED
      BY <1>4, <3>1
  <2>2. \A i \in 1 .. 2 : Engine!Low(k[i] + Weyl[i]) \in Engine!Word
    BY <2>1, LowIsWord
  <2> QED
    BY <2>2 DEF Engine!BumpKey, Engine!Key
<1> QED
  BY <1>6, <1>7

\* The rounds one after the other: the recursive function of NRounds exists.
LEMMA RoundsAreDefined ==
    ASSUME Engine!LegalEngine, NEW c \in Engine!Counter, NEW key \in Engine!Key
    PROVE  \E f : /\ \A n \in 0 .. Rounds : f[n].counter \in Engine!Counter /\ f[n].key \in Engine!Key
                  /\ f[0].counter = Engine!SingleRound(c, key) /\ f[0].key = key
                  /\ \A n \in Nat : n + 1 <= Rounds =>
                        /\ f[n + 1].key = Engine!BumpKey(f[n].key)
                        /\ f[n + 1].counter = Engine!SingleRound(f[n].counter, f[n + 1].key)
                  /\ Engine!NRounds(c, key) = f[Rounds].counter
<1> DEFINE State == [counter : Engine!Counter, key : Engine!Key]
           First == [counter |-> Engine!SingleRound(c, key), key |-> key]
           Further(s) == [counter |-> Engine!SingleRound(s.counter, Engine!BumpKey(s.key)),
                          key |-> Engine!BumpKey(s.key)]
           Prefixes == {m \in Nat : \E f \in [0 .. m -> State] : \A n \in 0 .. m :
                            f[n] = IF n = 0 THEN First ELSE Further(f[n - 1])}
<1>1. First \in State /\ \A s \in State : Further(s) \in State
  BY RoundIsTyped
<1> HIDE DEF First, Further, State
<1>2. Nat \subseteq Prefixes
  <2>1. 0 \in Prefixes
    <3> DEFINE f == [n \in 0 .. 0 |-> First]
    <3>1. f \in [0 .. 0 -> State] /\ \A n \in 0 .. 0 : f[n] = First /\ n = 0
      BY <1>1
    <3> QED
      BY <3>1
  <2>2. ASSUME NEW m \in Nat, m \in Prefixes PROVE m + 1 \in Prefixes
    <3>1. PICK f \in [0 .. m -> State] : \A n \in 0 .. m :
             f[n] = IF n = 0 THEN First ELSE Further(f[n - 1])
      BY <2>2
    <3> DEFINE g == [n \in 0 .. m + 1 |-> IF n <= m THEN f[n] ELSE Further(f[m])]
    <3>2. g \in [0 .. m + 1 -> State]
      BY <1>1
    <3>3. \A n \in 0 .. m + 1 : g[n] = IF n = 0 THEN First ELSE Further(g[n - 1])
      <4> SUFFICES ASSUME NEW n \in 0 .. m + 1
                   PROVE  g[n] = IF n = 0 THEN First ELSE Further(g[n - 1])
        OBVIOUS
      <4>1. CASE n <= m
        <5>1. g[n] = f[n] /\ n \in 0 .. m
          BY <4>1
        <5>2. n # 0 => g[n - 1] = f[n - 1]
          BY <4>1
        <5> QED
          BY <3>1, <5>1, <5>2
      <4>2. CASE n = m + 1
        <5>1. g[n] = Further(f[m]) /\ g[n - 1] = f[m] /\ n # 0
          BY <4>2
        <5> QED
          BY <5>1
      <4> QED
        BY <4>1, <4>2
    <3> HIDE DEF g
    <3>4. m + 1 \in Nat /\ \E h \in [0 .. m + 1 -> State] : \A n \in 0 .. m + 1 :
             h[n] = IF n = 0 THEN First ELSE Further(h[n - 1])
      BY <3>2, <3>3
    <3> QED
      BY <3>4
  <2> HIDE DEF Prefixes
  <2> QED
    BY <2>1, <2>2, SetInduction
<1>3. \E f : f = [n \in 0 .. Rounds |-> IF n = 0 THEN First ELSE Further(f[n - 1])]
  <2>1. Rounds \in Prefixes
    BY <1>2 DEF Engine!LegalEngine
  <2>2. PICK f \in [0 .. Rounds -> State] : \A n \in 0 .. Rounds :
             f[n] = IF n = 0 THEN First ELSE Further(f[n - 1])
    BY <2>1
  <2>3. f = [n \in 0 .. Rounds |-> IF n = 0 THEN First ELSE Further(f[n - 1])]
    BY <2>2
  <2> QED
    BY <2>3
<1> DEFINE after == CHOOSE f : f = [n \in 0 .. Rounds |-> IF n = 0 THEN First ELSE Further(f[n - 1])]
<1>4. after = [n \in 0 .. Rounds |-> IF n = 0 THEN First ELSE Further(after[n - 1])]
  BY <1>3
<1>5. Engine!NRounds(c, key) = after[Rounds].counter
  BY DEF Engine!NRounds, First, Further
<1> HIDE DEF after
<1>6. Nat \subseteq {n \in Nat : n <= Rounds => after[n] \in State}
  <2> DEFINE Typed == {n \in Nat : n <= Rounds => after[n] \in State}
  <2>1. 0 \in Typed
    BY <1>1, <1>4 DEF Engine!LegalEngine
  <2>2. ASSUME NEW n \in Nat, n \in Typed PROVE n + 1 \in Typed
    <3>1. CASE n + 1 <= Rounds
      <4>1. after[n + 1] = Further(after[n]) /\ after[n] \in State
        BY <1>4, <2>2, <3>1 DEF Engine!LegalEngine
      <4> QED
        BY <1>1, <4>1
    <3> QED
      BY <3>1
  <2> HIDE DEF Typed
  <2>3. Nat \subseteq Typed
    BY <2>1, <2>2, SetInduction
  <2> QED
    BY <2>3 DEF Typed
<1>7. \A n \in 0 .. Rounds : after[n] \in State
  BY <1>6 DEF Engine!LegalEngine
<1>8. /\ after[0] = First
      /\ \A n \in Nat : n + 1 <= Rounds => after[n + 1] = Further(after[n])
  BY <1>4 DEF Engine!LegalEngine
<1>9. /\ \A n \in 0 .. Rounds : after[n].counter \in Engine!Counter /\ after[n].key \in Engine!Key
      /\ after[0].counter = Engine!SingleRound(c, key) /\ after[0].key = key
  BY <1>7, <1>8 DEF State, First, Engine!LegalEngine
<1>10. ASSUME NEW n \in Nat, n + 1 <= Rounds
       PROVE  /\ after[n + 1].key = Engine!BumpKey(after[n].key)
              /\ after[n + 1].counter = Engine!SingleRound(after[n].counter, after[n + 1].key)
  <2>1. PICK s, t : s = after[n] /\ t = after[n + 1]
    OBVIOUS
  <2>2. t = [counter |-> Engine!SingleRound(s.counter, Engine!BumpKey(s.key)), key |-> Engine!BumpKey(s.key)]
    BY <1>8, <1>10, <2>1 DEF Further
  <2>3. t.key = Engine!BumpKey(s.key) /\ t.counter = Engine!SingleRound(s.counter, t.key)
    BY <2>2
  <2> QED
    BY <2>1, <2>3
<1> QED
  BY <1>5, <1>9, <1>10

\* A block is four words.
LEMMA BlockIsFourWords ==
    ASSUME Engine!LegalEngine, NEW c \in Engine!Counter, NEW key \in Engine!Key
    PROVE  Engine!NRounds(c, key) \in Engine!Counter
<1>1. Rounds \in 0 .. Rounds
  BY DEF Engine!LegalEngine
<1> QED
  BY <1>1, RoundsAreDefined

\* Multiplication with a number that has an inverse loses nothing.
LEMMA InverseCancels ==
    ASSUME NEW r \in Nat, r > 1, NEW m \in Nat, NEW n \in Nat, (n * m) % r = 1,
           NEW x \in 0 .. r - 1, NEW y \in 0 .. r - 1, (x * m) % r = (y * m) % r
    PROVE  x = y
<1> DEFINE q == (n * m) \div r
           a == (x * m) \div r
           b == (y * m) \div r
           s == (x * m) % r
<1>1. x \in Nat /\ y \in Nat /\ r \in Nat \ {0}
  OBVIOUS
<1>2. n * m \in Nat /\ x * m \in Nat /\ y * m \in Nat
  BY <1>1
<1>3. /\ q \in Nat /\ n * m = r * q + 1
      /\ a \in Nat /\ s \in Nat /\ x * m = r * a + s
      /\ b \in Nat /\ y * m = r * b + s
  BY <1>1, <1>2, Division
<1> HIDE DEF q, a, b, s
<1>4. /\ (x * m) * n = x * (n * m)
      /\ (y * m) * n = y * (n * m)
  BY <1>1
<1>5. /\ (r * a + s) * n = x * (r * q + 1)
      /\ (r * b + s) * n = y * (r * q + 1)
  BY <1>3, <1>4
<1>6. PICK xq \in Int, yq \in Int, an \in Int, bn \in Int, sn \in Int :
        xq = x * q /\ yq = y * q /\ an = a * n /\ bn = b * n /\ sn = s * n
  BY <1>1, <1>3
<1>7. /\ (r * a + s) * n = r * an + sn /\ x * (r * q + 1) = r * xq + x
      /\ (r * b + s) * n = r * bn + sn /\ y * (r * q + 1) = r * yq + y
  BY <1>1, <1>3, <1>6
<1>8. x - y = r * ((an - xq) - (bn - yq))
  <2>1. r * an + sn = r * xq + x /\ r * bn + sn = r * yq + y
    BY <1>5, <1>7
  <2>2. r * ((an - xq) - (bn - yq)) = (r * an - r * xq) - (r * bn - r * yq)
    BY <1>6
  <2>3. PICK i \in Int, j \in Int, k \in Int, l \in Int : i = r * an /\ j = r * xq /\ k = r * bn /\ l = r * yq
    BY <1>6
  <2>4. i + sn = j + x /\ k + sn = l + y
    BY <2>1, <2>3
  <2>5. x - y = (i - j) - (k - l)
    BY <1>1, <1>6, <2>4
  <2> QED
    BY <2>2, <2>3, <2>5
<1>9. PICK k \in Int : k = (an - xq) - (bn - yq)
  BY <1>6
<1>10. x - y = r * k /\ x - y < r /\ y - x < r
  BY <1>8, <1>9
<1>11. k < 1
  BY <1>10
<1>12. k > -1
  BY <1>10
<1> QED
  BY <1>1, <1>10, <1>11, <1>12

\* One round of the shuffle loses nothing.
LEMMA RoundIsInjective ==
    ASSUME Engine!LegalEngine, NEW c \in Engine!Counter, NEW d \in Engine!Counter, NEW k \in Engine!Key,
           Engine!SingleRound(c, k) = Engine!SingleRound(d, k)
    PROVE  c = d
<1> DEFINE p0(e) == e[1] * Multipliers[1]
           p1(e) == e[3] * Multipliers[2]
<1>1. Engine!Word \subseteq Nat /\ Engine!Word = 0 .. Radix - 1 /\ Radix \in Nat /\ Radix > 1
  BY DEF Engine!Word, Engine!LegalEngine
<1>2. \A e \in Engine!Counter :
        e[1] \in Engine!Word /\ e[2] \in Engine!Word /\ e[3] \in Engine!Word /\ e[4] \in Engine!Word
  BY DEF Engine!Counter
<1>3. Multipliers[1] \in Nat /\ Multipliers[2] \in Nat
  BY DEF Engine!LegalEngine
<1>4. \A e \in Engine!Counter : p0(e) \in Nat /\ p1(e) \in Nat
  <2> SUFFICES ASSUME NEW e \in Engine!Counter PROVE p0(e) \in Nat /\ p1(e) \in Nat
    OBVIOUS
  <2>1. e[1] \in Nat /\ e[3] \in Nat
    BY <1>1, <1>2
  <2> QED
    BY <1>3, <2>1
<1>5. \A e \in Engine!Counter :
        Engine!SingleRound(e, k) =
          <<XorWords(XorWords(Engine!High(p1(e)), e[2]), k[1]), Engine!Low(p1(e)),
            XorWords(XorWords(Engine!High(p0(e)), e[4]), k[2]), Engine!Low(p0(e))>>
  BY DEF Engine!SingleRound
<1> HIDE DEF p0, p1
<1>6. /\ XorWords(XorWords(Engine!High(p1(c)), c[2]), k[1]) = XorWords(XorWords(Engine!High(p1(d)), d[2]), k[1])
      /\ Engine!Low(p1(c)) = Engine!Low(p1(d))
      /\ XorWords(XorWords(Engine!High(p0(c)), c[4]), k[2]) = XorWords(XorWords(Engine!High(p0(d)), d[4]), k[2])
      /\ Engine!Low(p0(c)) = Engine!Low(p0(d))
  <2>1. PICK t, u : t = Engine!SingleRound(c, k) /\ u = Engine!SingleRound(d, k)
    OBVIOUS
  <2>2. t = u
    BY <2>1
  <2>3. /\ t[1] = XorWords(XorWords(Engine!High(p1(c)), c[2]), k[1]) /\ t[2] = Engine!Low(p1(c))
        /\ t[3] = XorWords(XorWords(Engine!High(p0(c)), c[4]), k[2]) /\ t[4] = Engine!Low(p0(c))
    BY <1>5, <2>1
  <2>4. /\ u[1] = XorWords(XorWords(Engine!High(p1(d)), d[2]), k[1]) /\ u[2] = Engine!Low(p1(d))
        /\ u[3] = XorWords(XorWords(Engine!High(p0(d)), d[4]), k[2]) /\ u[4] = Engine!Low(p0(d))
    BY <1>5, <2>1
  <2> QED
    BY <2>2, <2>3, <2>4
<1>7. c[1] = d[1]
  <2>1. PICK n \in Engine!Word : (n * Multipliers[1]) % Radix = 1
    BY DEF Engine!LegalEngine
  <2>2. (c[1] * Multipliers[1]) % Radix = (d[1] * Multipliers[1]) % Radix
    BY <1>6 DEF p0, Engine!Low
  <2>3. PICK x \in 0 .. Radix - 1, y \in 0 .. Radix - 1 : x = c[1] /\ y = d[1]
    BY <1>1, <1>2
  <2>4. PICK m \in Nat, i \in Nat : m = Multipliers[1] /\ i = n
    BY <1>1, <1>3
  <2>5. (i * m) % Radix = 1 /\ (x * m) % Radix = (y * m) % Radix
    BY <2>1, <2>2, <2>3, <2>4
  <2> QED
    BY <1>1, <2>3, <2>5, InverseCancels
<1>8. c[3] = d[3]
  <2>1. PICK n \in Engine!Word : (n * Multipliers[2]) % Radix = 1
    BY DEF Engine!LegalEngine
  <2>2. (c[3] * Multipliers[2]) % Radix = (d[3] * Multipliers[2]) % Radix
    BY <1>6 DEF p1, Engine!Low
  <2>3. PICK x \in 0 .. Radix - 1, y \in 0 .. Radix - 1 : x = c[3] /\ y = d[3]
    BY <1>1, <1>2
  <2>4. PICK m \in Nat, i \in Nat : m = Multipliers[2] /\ i = n
    BY <1>1, <1>3
  <2>5. (i * m) % Radix = 1 /\ (x * m) % Radix = (y * m) % Radix
    BY <2>1, <2>2, <2>3, <2>4
  <2> QED
    BY <1>1, <2>3, <2>5, InverseCancels
<1>9. p0(c) = p0(d) /\ p1(c) = p1(d)
  BY <1>7, <1>8 DEF p0, p1
<1>10. \A h, w, v, z \in Engine!Word : XorWords(XorWords(h, w), z) = XorWords(XorWords(h, v), z) => w = v
  <2> SUFFICES ASSUME NEW h \in Engine!Word, NEW w \in Engine!Word, NEW v \in Engine!Word, NEW z \in Engine!Word,
                      XorWords(XorWords(h, w), z) = XorWords(XorWords(h, v), z)
               PROVE  w = v
    OBVIOUS
  <2>1. \A x, y \in Engine!Word : XorWords(x, y) \in Engine!Word
    BY DEF Engine!LegalEngine
  <2>2. \A x, y, u \in Engine!Word : /\ XorWords(x, y) = XorWords(x, u) => y = u
                                     /\ XorWords(y, x) = XorWords(u, x) => y = u
    BY DEF Engine!LegalEngine
  <2>3. PICK s \in Engine!Word, t \in Engine!Word : s = XorWords(h, w) /\ t = XorWords(h, v)
    BY <2>1
  <2>4. XorWords(s, z) = XorWords(t, z)
    BY <2>3
  <2>5. s = t
    BY <2>2, <2>4
  <2> QED
    BY <2>2, <2>3, <2>5
<1>11. c[2] = d[2] /\ c[4] = d[4]
  <2>1. k[1] \in Engine!Word /\ k[2] \in Engine!Word
    BY DEF Engine!Key
  <2>2. Engine!High(p1(c)) \in Engine!Word /\ Engine!High(p0(c)) \in Engine!Word
    BY <1>4, LowIsWord
  <2> QED
    BY <1>2, <1>6, <1>9, <1>10, <2>1, <2>2
<1> QED
  BY <1>7, <1>8, <1>11 DEF Engine!Counter

\* Different counters give different blocks.
LEMMA BlocksDiffer ==
    ASSUME Engine!LegalEngine, NEW c \in Engine!Counter, NEW d \in Engine!Counter, NEW key \in Engine!Key,
           Engine!NRounds(c, key) = Engine!NRounds(d, key)
    PROVE  c = d
<1>1. PICK f : /\ \A n \in 0 .. Rounds : f[n].counter \in Engine!Counter /\ f[n].key \in Engine!Key
               /\ f[0].counter = Engine!SingleRound(c, key) /\ f[0].key = key
               /\ \A n \in Nat : n + 1 <= Rounds =>
                     /\ f[n + 1].key = Engine!BumpKey(f[n].key)
                     /\ f[n + 1].counter = Engine!SingleRound(f[n].counter, f[n + 1].key)
               /\ Engine!NRounds(c, key) = f[Rounds].counter
  BY RoundsAreDefined
<1>2. PICK g : /\ \A n \in 0 .. Rounds : g[n].counter \in Engine!Counter /\ g[n].key \in Engine!Key
               /\ g[0].counter = Engine!SingleRound(d, key) /\ g[0].key = key
               /\ \A n \in Nat : n + 1 <= Rounds =>
                     /\ g[n + 1].key = Engine!BumpKey(g[n].key)
                     /\ g[n + 1].counter = Engine!SingleRound(g[n].counter, g[n + 1].key)
               /\ Engine!NRounds(d, key) = g[Rounds].counter
  BY RoundsAreDefined
<1> DEFINE Same == {n \in Nat : n <= Rounds => /\ f[n].key = g[n].key
                                               /\ f[n].counter = g[n].counter => c = d}
<1>3. 0 \in Same
  <2>1. ASSUME f[0].counter = g[0].counter PROVE c = d
    <3>1. Engine!SingleRound(c, key) = Engine!SingleRound(d, key)
      BY <1>1, <1>2, <2>1
    <3> QED
      BY <3>1, RoundIsInjective
  <2> QED
    BY <1>1, <1>2, <2>1
<1>4. ASSUME NEW n \in Nat, n \in Same PROVE n + 1 \in Same
  <2> SUFFICES ASSUME n + 1 <= Rounds
               PROVE  /\ f[n + 1].key = g[n + 1].key
                      /\ f[n + 1].counter = g[n + 1].counter => c = d
    OBVIOUS
  <2>1. n <= Rounds /\ n \in 0 .. Rounds /\ n + 1 \in 0 .. Rounds
    BY DEF Engine!LegalEngine
  <2>2. f[n].key = g[n].key /\ (f[n].counter = g[n].counter => c = d)
    BY <1>4, <2>1
  <2>3. f[n + 1].key = g[n + 1].key /\ f[n + 1].key \in Engine!Key
    BY <1>1, <1>2, <2>1, <2>2
  <2>4. ASSUME f[n + 1].counter = g[n + 1].counter PROVE f[n].counter = g[n].counter
    <3>1. PICK x \in Engine!Counter, y \in Engine!Counter, k \in Engine!Key :
            x = f[n].counter /\ y = g[n].counter /\ k = f[n + 1].key
      BY <1>1, <1>2, <2>1, <2>3
    <3>2. Engine!SingleRound(x, k) = Engine!SingleRound(y, k)
      BY <1>1, <1>2, <2>1, <2>3, <2>4, <3>1
    <3> QED
      BY <3>1, <3>2, RoundIsInjective
  <2> QED
    BY <2>2, <2>3, <2>4
<1> HIDE DEF Same
<1>5. Nat \subseteq Same
  BY <1>3, <1>4, SetInduction
<1>6. Rounds \in Same /\ Rounds <= Rounds
  BY <1>5 DEF Engine!LegalEngine
<1> QED
  BY <1>1, <1>2, <1>6 DEF Same

\* There are finitely many counters.
LEMMA CountersAreFinite ==
    ASSUME Engine!LegalEngine
    PROVE  IsFiniteSet(Engine!Counter)
<1> DEFINE P == (Engine!Word \X Engine!Word) \X (Engine!Word \X Engine!Word)
           f == [c \in Engine!Counter |-> <<<<c[1], c[2]>>, <<c[3], c[4]>>>>]
<1>1. IsFiniteSet(Engine!Word)
  BY FS_Interval DEF Engine!Word, Engine!LegalEngine
<1>2. IsFiniteSet(Engine!Word \X Engine!Word)
  BY <1>1, FS_Product
<1>3. IsFiniteSet(P)
  BY <1>2, FS_Product
<1>4. f \in [Engine!Counter -> P]
  BY DEF Engine!Counter
<1>5. ASSUME NEW c \in Engine!Counter, NEW d \in Engine!Counter, f[c] = f[d] PROVE c = d
  <2>1. c[1] = d[1] /\ c[2] = d[2] /\ c[3] = d[3] /\ c[4] = d[4]
    BY <1>5
  <2> QED
    BY <2>1 DEF Engine!Counter
<1> HIDE DEF f, P
<1>6. f \in Injection(Engine!Counter, P)
  BY <1>4, <1>5, Fun_IsInj
<1> QED
  BY <1>3, <1>6, FS_Injection

\* There are as many blocks as counters.
LEMMA BlocksAreCounted ==
    ASSUME Engine!LegalEngine, NEW key \in Engine!Key
    PROVE  Cardinality({Engine!NRounds(c, key) : c \in Engine!Counter}) = Cardinality(Engine!Counter)
<1> DEFINE T == {Engine!NRounds(c, key) : c \in Engine!Counter}
           f == [c \in Engine!Counter |-> Engine!NRounds(c, key)]
<1>1. f \in [Engine!Counter -> T] /\ \A t \in T : \E c \in Engine!Counter : f[c] = t
  OBVIOUS
<1>2. ASSUME NEW c \in Engine!Counter, NEW d \in Engine!Counter, f[c] = f[d] PROVE c = d
  BY <1>2, BlocksDiffer
<1> HIDE DEF f, T
<1>3. f \in Bijection(Engine!Counter, T)
  BY <1>1, <1>2, Fun_IsBij
<1>4. ExistsBijection(Engine!Counter, T)
  BY <1>3 DEF ExistsBijection
<1>5. Cardinality(T) = Cardinality(Engine!Counter)
  BY <1>4, CountersAreFinite, FS_Bijection
<1> QED
  BY <1>5 DEF T
\* The words of a value are a counter.
LEMMA WordsAreTyped ==
    ASSUME Engine!LegalEngine, NEW v \in Nat
    PROVE  Engine!Word4(v) \in Engine!Counter
<1> DEFINE w2 == v \div Radix
           w3 == w2 \div Radix
           w4 == w3 \div Radix
<1>1. w2 \in Nat /\ w3 \in Nat /\ w4 \in Nat
  BY Words, Division
<1>2. /\ v % Radix \in 0 .. Radix - 1 /\ w2 % Radix \in 0 .. Radix - 1
      /\ w3 % Radix \in 0 .. Radix - 1 /\ w4 % Radix \in 0 .. Radix - 1
  <2> HIDE DEF w2, w3, w4
  <2> QED
    BY <1>1, Words, Division
<1>3. Engine!Word4(v) = <<v % Radix, w2 % Radix, w3 % Radix, w4 % Radix>>
  BY DEF Engine!Word4
<1> HIDE DEF w2, w3, w4
<1> QED
  BY <1>2, <1>3 DEF Engine!Counter, Engine!Word

\* The k-th number behind the counter value v.
Number(key, v, k) == Engine!NRounds(Engine!Word4(v + ((k - 1) \div 4)), key)[((k - 1) % 4) + 1]

Start(variant, v) == IF variant = "single" THEN v ELSE v + 1

SingleEngine == [counter : Engine!Counter, key : Engine!Key, result : Engine!Counter, position : 0 .. 3]
VectorEngine == [counter : Engine!Counter, key : Engine!Key]

\* e has handed out n numbers since its counter had the value v.  The single
\* engine has the rest of its block in front.
Handed(e, v, n, variant) ==
    /\ e.counter = Engine!Word4(v + (n \div 4))
    /\ variant = "single" =>
          /\ e \in SingleEngine /\ e.position = n % 4
          /\ \A j \in 1 .. 4 - (n % 4) : e.result[j] = Engine!NRounds(e.counter, e.key)[(n % 4) + j]
    /\ variant = "vector" => e \in VectorEngine /\ n % 4 = 0

Variants == {"single", "vector"}

\* A call of either engine returns the numbers that come next, and has them handed out.
LEMMA CallHandsOutNext ==
    ASSUME Engine!LegalEngine, NEW variant \in Variants, NEW v \in Nat, NEW n \in Nat,
           NEW e, Handed(e, v, n, variant),
           NEW got, got = Engine!NextCall(variant, e)
    PROVE  /\ got.numbers \in Seq(Engine!Word)
           /\ Len(got.numbers) = IF variant = "single" THEN 1 ELSE 4
           /\ \A i \in 1 .. Len(got.numbers) :
                 got.numbers[i] = Number(e.key, Start(variant, v), n + i)
           /\ got.engine.key = e.key
           /\ Handed(got.engine, v, n + Len(got.numbers), variant)
<1> DEFINE c == Engine!AdvanceCounter(e.counter)
<1>1. v + (n \div 4) \in Nat /\ n % 4 \in 0 .. 3 /\ n \div 4 \in Nat
  OBVIOUS
<1>2. c = Engine!Word4(v + (n \div 4) + 1) /\ c \in Engine!Counter
  BY <1>1, AdvanceCounts, WordsAreTyped DEF Handed, Engine!LegalEngine
<1>3. CASE variant = "single"
  <2>1. /\ e \in SingleEngine /\ e.position = n % 4
        /\ \A j \in 1 .. 4 - (n % 4) : e.result[j] = Engine!NRounds(e.counter, e.key)[(n % 4) + j]
    BY <1>3 DEF Handed
  <2>2. got = Engine!NextNumber(e)
    BY <1>3 DEF Engine!NextCall
  <2>3. got.numbers = <<e.result[1]>> /\ e.result[1] \in Engine!Word
    BY <2>1, <2>2 DEF Engine!NextNumber, SingleEngine, Engine!Counter
  <2>7. /\ got.numbers \in Seq(Engine!Word) /\ Len(got.numbers) = 1
        /\ got.numbers[1] = e.result[1]
    BY <2>3
  <2>4. e.result[1] = Number(e.key, v, n + 1)
    <3>1. e.result[1] = Engine!NRounds(e.counter, e.key)[(n % 4) + 1]
      BY <1>1, <2>1
    <3>2. (n + 1) - 1 = n
      OBVIOUS
    <3> QED
      BY <3>1, <3>2 DEF Number, Handed
  <2>8. /\ Len(got.numbers) = IF variant = "single" THEN 1 ELSE 4
        /\ \A i \in 1 .. Len(got.numbers) :
              got.numbers[i] = Number(e.key, Start(variant, v), n + i)
    <3>1. Start(variant, v) = v
      BY <1>3 DEF Start
    <3>2. \A i \in 1 .. 1 : i = 1
      OBVIOUS
    <3> QED
      BY <1>3, <2>4, <2>7, <3>1, <3>2
  <2>5. CASE n % 4 = 3
    <3>1. (n + 1) \div 4 = (n \div 4) + 1 /\ (n + 1) % 4 = 0
      BY <2>5
    <3>2. got.engine = Engine!AdvanceState([e EXCEPT !.position = 4])
      BY <2>1, <2>2, <2>5 DEF Engine!NextNumber
    <3>3. got.engine = [e EXCEPT !.counter = c, !.result = Engine!NRounds(c, e.key), !.position = 0]
      BY <2>1, <3>2 DEF Engine!AdvanceState, SingleEngine
    <3>4. Engine!NRounds(c, e.key) \in Engine!Counter
      BY <1>2, <2>1, BlockIsFourWords DEF SingleEngine
    <3>5. /\ got.engine \in SingleEngine /\ got.engine.key = e.key /\ got.engine.counter = c
          /\ got.engine.position = 0 /\ got.engine.result = Engine!NRounds(c, e.key)
      <4>1. PICK r \in Engine!Counter : r = Engine!NRounds(c, e.key)
        BY <3>4
      <4>2. got.engine = [counter |-> c, key |-> e.key, result |-> r, position |-> 0]
        BY <2>1, <3>3, <4>1 DEF SingleEngine
      <4> HIDE DEF c
      <4>3. e.key \in Engine!Key
        BY <2>1 DEF SingleEngine
      <4> QED
        BY <1>2, <4>1, <4>2, <4>3 DEF SingleEngine
    <3>6. v + ((n + 1) \div 4) = v + (n \div 4) + 1
      BY <3>1
    <3>7. Handed(got.engine, v, n + 1, variant)
      BY <1>2, <1>3, <3>1, <3>5, <3>6 DEF Handed
    <3> QED
      BY <2>7, <2>8, <3>5, <3>7
  <2>6. CASE n % 4 # 3
    <3>1. (n + 1) \div 4 = n \div 4 /\ (n + 1) % 4 = (n % 4) + 1 /\ (n % 4) + 1 \in 1 .. 3
      BY <2>6
    <3>2. got.engine = [e EXCEPT !.position = (n % 4) + 1, !.result = Engine!Shifted(e.result)]
      BY <2>1, <2>2, <2>6, <3>1 DEF Engine!NextNumber, SingleEngine
    <3>3. /\ Engine!Shifted(e.result) \in Engine!Counter
          /\ \A j \in 1 .. 3 : Engine!Shifted(e.result)[j] = e.result[j + 1]
      BY <2>1 DEF Engine!Shifted, Engine!Counter, SingleEngine
    <3>4. /\ got.engine \in SingleEngine /\ got.engine.key = e.key /\ got.engine.counter = e.counter
          /\ got.engine.position = (n % 4) + 1 /\ got.engine.result = Engine!Shifted(e.result)
      <4>1. PICK r \in Engine!Counter : r = Engine!Shifted(e.result)
        BY <3>3
      <4>2. got.engine = [counter |-> e.counter, key |-> e.key, result |-> r, position |-> (n % 4) + 1]
        BY <2>1, <3>2, <4>1 DEF SingleEngine
      <4>3. e.key \in Engine!Key /\ e.counter \in Engine!Counter
        BY <2>1 DEF SingleEngine
      <4> QED
        BY <3>1, <4>1, <4>2, <4>3 DEF SingleEngine
    <3>5. \A j \in 1 .. 4 - ((n + 1) % 4) :
             got.engine.result[j] = Engine!NRounds(e.counter, e.key)[((n + 1) % 4) + j]
      <4> SUFFICES ASSUME NEW j \in 1 .. 4 - ((n + 1) % 4)
                   PROVE  got.engine.result[j] = Engine!NRounds(e.counter, e.key)[((n + 1) % 4) + j]
        OBVIOUS
      <4>1. j \in 1 .. 3 /\ j + 1 \in 1 .. 4 - (n % 4) /\ ((n + 1) % 4) + j = (n % 4) + (j + 1)
        BY <3>1
      <4>2. got.engine.result[j] = e.result[j + 1]
        BY <3>3, <3>4, <4>1
      <4> QED
        BY <2>1, <4>1, <4>2
    <3>6. Handed(got.engine, v, n + 1, variant)
      BY <1>3, <3>1, <3>4, <3>5 DEF Handed
    <3> QED
      BY <2>7, <2>8, <3>4, <3>6
  <2> QED
    BY <2>5, <2>6
<1>4. CASE variant = "vector"
  <2>1. e \in VectorEngine /\ n % 4 = 0
    BY <1>4 DEF Handed
  <2>2. got.numbers = Engine!NRounds(c, e.key) /\ got.engine = [e EXCEPT !.counter = c]
    BY <1>4 DEF Engine!NextCall, Engine!NextVector
  <2>3. got.numbers \in Engine!Counter
    BY <1>2, <2>1, <2>2, BlockIsFourWords DEF VectorEngine
  <2>4. got.numbers \in Seq(Engine!Word) /\ Len(got.numbers) = 4
    <3>1. got.numbers \in [1 .. 4 -> Engine!Word]
      BY <2>3 DEF Engine!Counter
    <3>2. got.numbers \in Seq(Engine!Word)
      BY <3>1, SeqDef
    <3> QED
      BY <3>1, <3>2, LenProperties
  <2>5. \A i \in 1 .. 4 : got.numbers[i] = Number(e.key, v + 1, n + i)
    <3> SUFFICES ASSUME NEW i \in 1 .. 4 PROVE got.numbers[i] = Number(e.key, v + 1, n + i)
      OBVIOUS
    <3>1. ((n + i) - 1) \div 4 = n \div 4 /\ ((n + i) - 1) % 4 = i - 1
      BY <2>1
    <3>2. (v + 1) + (((n + i) - 1) \div 4) = v + (n \div 4) + 1 /\ (((n + i) - 1) % 4) + 1 = i
      BY <3>1
    <3> QED
      BY <1>2, <2>2, <3>2 DEF Number
  <2>6. got.engine \in VectorEngine /\ got.engine.key = e.key /\ got.engine.counter = c
    BY <1>2, <2>1, <2>2 DEF VectorEngine
  <2>7. (n + 4) \div 4 = (n \div 4) + 1 /\ (n + 4) % 4 = 0 /\ v + ((n + 4) \div 4) = v + (n \div 4) + 1
    BY <2>1
  <2>8. Handed(got.engine, v, n + 4, variant)
    BY <1>2, <1>4, <2>6, <2>7 DEF Handed
  <2> QED
    BY <1>4, <2>4, <2>5, <2>6, <2>8 DEF Start
<1> QED
  BY <1>3, <1>4 DEF Variants

\* s is what the engine hands out behind n numbers.
NextNumbers(key, b, n, s) ==
    /\ s \in Seq(Engine!Word)
    /\ \A i \in 1 .. Len(s) : s[i] = Number(key, b, n + i)

\* The next numbers and those after them are the next numbers.
LEMMA NumbersConcat ==
    ASSUME NEW key, NEW b \in Nat, NEW n \in Nat, NEW s, NEW t,
           NextNumbers(key, b, n, s), NextNumbers(key, b, n + Len(s), t)
    PROVE  NextNumbers(key, b, n, s \o t) /\ Len(s \o t) = Len(s) + Len(t)
<1>1. /\ s \in Seq(Engine!Word) /\ t \in Seq(Engine!Word) /\ Len(s) \in Nat /\ Len(t) \in Nat
      /\ \A i \in 1 .. Len(s) : s[i] = Number(key, b, n + i)
      /\ \A i \in 1 .. Len(t) : t[i] = Number(key, b, (n + Len(s)) + i)
  BY DEF NextNumbers
<1>2. /\ s \o t \in Seq(Engine!Word) /\ Len(s \o t) = Len(s) + Len(t)
      /\ \A i \in 1 .. Len(s) + Len(t) : (s \o t)[i] = IF i <= Len(s) THEN s[i] ELSE t[i - Len(s)]
  BY <1>1, ConcatProperties
<1>3. ASSUME NEW i \in 1 .. Len(s \o t) PROVE (s \o t)[i] = Number(key, b, n + i)
  <2>1. CASE i <= Len(s)
    BY <1>1, <1>2, <1>3, <2>1
  <2>2. CASE i > Len(s)
    <3>1. i - Len(s) \in 1 .. Len(t) /\ (n + Len(s)) + (i - Len(s)) = n + i
      BY <1>1, <1>2, <1>3, <2>2
    <3>2. (s \o t)[i] = t[i - Len(s)]
      BY <1>1, <1>2, <1>3, <2>2
    <3>3. t[i - Len(s)] = Number(key, b, (n + Len(s)) + (i - Len(s)))
      BY <1>1, <3>1
    <3> QED
      BY <3>1, <3>2, <3>3
  <2> QED
    BY <1>1, <1>2, <1>3, <2>1, <2>2
<1> QED
  BY <1>2, <1>3 DEF NextNumbers

PlacesOf(from) == {from[p] : p \in DOMAIN from}

\* A concatenation has the places of both sequences.
LEMMA PlacesConcat ==
    ASSUME NEW s \in Seq(Nat), NEW t \in Seq(Nat)
    PROVE  s \o t \in Seq(Nat) /\ PlacesOf(s \o t) = PlacesOf(s) \cup PlacesOf(t)
<1>1. /\ s \o t \in Seq(Nat) /\ DOMAIN (s \o t) = 1 .. Len(s) + Len(t)
      /\ Len(s) \in Nat /\ Len(t) \in Nat /\ DOMAIN s = 1 .. Len(s) /\ DOMAIN t = 1 .. Len(t)
      /\ \A i \in 1 .. Len(s) + Len(t) : (s \o t)[i] = IF i <= Len(s) THEN s[i] ELSE t[i - Len(s)]
  BY ConcatProperties, LenProperties
<1>2. PlacesOf(s \o t) \subseteq PlacesOf(s) \cup PlacesOf(t)
  <2> SUFFICES ASSUME NEW i \in 1 .. Len(s) + Len(t)
               PROVE  (s \o t)[i] \in PlacesOf(s) \cup PlacesOf(t)
    BY <1>1 DEF PlacesOf
  <2>1. CASE i <= Len(s)
    BY <1>1, <2>1 DEF PlacesOf
  <2>2. CASE i > Len(s)
    <3>1. i - Len(s) \in DOMAIN t /\ (s \o t)[i] = t[i - Len(s)]
      BY <1>1, <2>2
    <3> QED
      BY <3>1 DEF PlacesOf
  <2> QED
    BY <1>1, <2>1, <2>2
<1>3. PlacesOf(s) \subseteq PlacesOf(s \o t)
  <2> SUFFICES ASSUME NEW i \in DOMAIN s PROVE s[i] \in PlacesOf(s \o t)
    BY DEF PlacesOf
  <2>1. i \in DOMAIN (s \o t) /\ (s \o t)[i] = s[i]
    BY <1>1
  <2> QED
    BY <2>1 DEF PlacesOf
<1>4. PlacesOf(t) \subseteq PlacesOf(s \o t)
  <2> SUFFICES ASSUME NEW i \in DOMAIN t PROVE t[i] \in PlacesOf(s \o t)
    BY DEF PlacesOf
  <2>1. i + Len(s) \in DOMAIN (s \o t) /\ (i + Len(s)) - Len(s) = i /\ ~ (i + Len(s) <= Len(s))
    BY <1>1
  <2>2. (s \o t)[i + Len(s)] = t[i]
    BY <1>1, <2>1
  <2> QED
    BY <2>1, <2>2 DEF PlacesOf
<1> QED
  BY <1>1, <1>2, <1>3, <1>4

\* The bits i are made of the n numbers' successors; the single engine's are all used.
AreNext(i, e, v, n, variant) ==
    /\ NextNumbers(e.key, Start(variant, v), n, i.numbers)
    /\ Len(i.numbers) \in Nat
    /\ i.engine.key = e.key
    /\ Handed(i.engine, v, n + Len(i.numbers), variant)
    /\ i.from \in Seq(Nat)
    /\ PlacesOf(i.from) \subseteq n + 1 .. n + Len(i.numbers)
    /\ variant = "single" => PlacesOf(i.from) = n + 1 .. n + Len(i.numbers)

\* The words behind a real, of one call or two in either order, are the next ones.
LEMMA BitsAreNext ==
    ASSUME Engine!LegalEngine, draw.variant \in Variants, draw.type \in {"float", "double"},
           NEW v \in Nat, NEW n \in Nat, NEW e, Handed(e, v, n, draw.variant),
           NEW i, i \in Engine!RandomBits(e, n)
    PROVE  AreNext(i, e, v, n, draw.variant)
<1> SUFFICES /\ NextNumbers(e.key, Start(draw.variant, v), n, i.numbers)
             /\ Len(i.numbers) \in Nat
             /\ i.engine.key = e.key
             /\ Handed(i.engine, v, n + Len(i.numbers), draw.variant)
             /\ i.from \in Seq(Nat)
             /\ PlacesOf(i.from) \subseteq n + 1 .. n + Len(i.numbers)
             /\ draw.variant = "single" => PlacesOf(i.from) = n + 1 .. n + Len(i.numbers)
  BY DEF AreNext
<1> DEFINE b == Start(draw.variant, v)
           one == Engine!NextCall(draw.variant, e)
           two == Engine!NextCall(draw.variant, one.engine)
           Joined(high, low, new) == IF draw.type = "float" THEN new[high] ELSE Radix * new[high] + new[low]
           Places(high, low) == IF draw.type = "float" THEN <<n + high>> ELSE <<n + high, n + low>>
<1>0. b \in Nat
  BY DEF Start
<1>5. Engine!RandomBits(e, n) =
        IF draw.type = "float" \/ draw.variant = "vector"
        THEN {[value |-> Joined(1, 2, one.numbers), from |-> Places(1, 2),
               numbers |-> one.numbers, engine |-> one.engine, calls |-> 1]}
        ELSE {[value |-> Joined(h, 3 - h, one.numbers \o two.numbers), from |-> Places(h, 3 - h),
               numbers |-> one.numbers \o two.numbers, engine |-> two.engine, calls |-> 2] : h \in 1 .. 2}
  BY DEF Engine!RandomBits
<1>6. ASSUME NEW m \in Nat, NEW f, Handed(f, v, m, draw.variant),
             NEW got, got = Engine!NextCall(draw.variant, f)
      PROVE  /\ NextNumbers(f.key, b, m, got.numbers)
             /\ Len(got.numbers) = IF draw.variant = "single" THEN 1 ELSE 4
             /\ got.engine.key = f.key
             /\ Handed(got.engine, v, m + Len(got.numbers), draw.variant)
  <2>1. /\ got.numbers \in Seq(Engine!Word)
        /\ Len(got.numbers) = IF draw.variant = "single" THEN 1 ELSE 4
        /\ \A k \in 1 .. Len(got.numbers) : got.numbers[k] = Number(f.key, b, m + k)
        /\ got.engine.key = f.key
        /\ Handed(got.engine, v, m + Len(got.numbers), draw.variant)
    <3>1. PICK t \in Variants : t = draw.variant
      OBVIOUS
    <3>2. Handed(f, v, m, t) /\ got = Engine!NextCall(t, f)
      BY <1>6, <3>1
    <3>3. /\ got.numbers \in Seq(Engine!Word)
          /\ Len(got.numbers) = IF t = "single" THEN 1 ELSE 4
          /\ \A k \in 1 .. Len(got.numbers) : got.numbers[k] = Number(f.key, Start(t, v), m + k)
          /\ got.engine.key = f.key
          /\ Handed(got.engine, v, m + Len(got.numbers), t)
      BY <3>2, CallHandsOutNext
    <3> QED
      BY <3>1, <3>3
  <2> QED
    BY <2>1 DEF NextNumbers
<1>1. /\ NextNumbers(e.key, b, n, one.numbers)
      /\ Len(one.numbers) = IF draw.variant = "single" THEN 1 ELSE 4
      /\ one.engine.key = e.key
      /\ Handed(one.engine, v, n + Len(one.numbers), draw.variant)
  BY <1>6
<1>7. Handed(one.engine, v, n + 1, draw.variant) =>
        /\ NextNumbers(one.engine.key, b, n + 1, two.numbers)
        /\ Len(two.numbers) = IF draw.variant = "single" THEN 1 ELSE 4
        /\ two.engine.key = one.engine.key
        /\ Handed(two.engine, v, (n + 1) + Len(two.numbers), draw.variant)
  <2> SUFFICES ASSUME Handed(one.engine, v, n + 1, draw.variant)
               PROVE  /\ NextNumbers(one.engine.key, b, n + 1, two.numbers)
                      /\ Len(two.numbers) = IF draw.variant = "single" THEN 1 ELSE 4
                      /\ two.engine.key = one.engine.key
                      /\ Handed(two.engine, v, (n + 1) + Len(two.numbers), draw.variant)
    OBVIOUS
  <2>1. n + 1 \in Nat
    OBVIOUS
  <2> HIDE DEF one, b
  <2> QED
    BY <1>6, <2>1
<1>8. Start(draw.variant, v) = b
  OBVIOUS
<1> HIDE DEF one, two, b, Joined
<1>2. CASE draw.type = "float" \/ draw.variant = "vector"
  <2>1. /\ i.numbers = one.numbers /\ i.engine = one.engine
        /\ i.from = IF draw.type = "float" THEN <<n + 1>> ELSE <<n + 1, n + 2>>
    <3>1. i = [value |-> Joined(1, 2, one.numbers), from |-> Places(1, 2),
               numbers |-> one.numbers, engine |-> one.engine, calls |-> 1]
      BY <1>2, <1>5
    <3> QED
      BY <3>1
  <2>2. i.from \in Seq(Nat) /\ PlacesOf(i.from) = IF draw.type = "float" THEN {n + 1} ELSE {n + 1, n + 2}
    <3>1. <<n + 1>> \in Seq(Nat) /\ <<n + 1, n + 2>> \in Seq(Nat)
      OBVIOUS
    <3>2. PlacesOf(<<n + 1>>) = {n + 1} /\ PlacesOf(<<n + 1, n + 2>>) = {n + 1, n + 2}
      BY DEF PlacesOf
    <3> QED
      BY <2>1, <3>1, <3>2
  <2>3. PlacesOf(i.from) \subseteq n + 1 .. n + Len(one.numbers)
    BY <1>1, <2>2, n + 1 \in n + 1 .. n + 1, n + 1 \in n + 1 .. n + 4, n + 2 \in n + 1 .. n + 4, <1>2
  <2>4. draw.variant = "single" => PlacesOf(i.from) = n + 1 .. n + Len(one.numbers)
    <3>1. n + 1 .. n + 1 = {n + 1}
      OBVIOUS
    <3> QED
      BY <1>1, <1>2, <2>2, <3>1
  <2>5. Len(one.numbers) \in Nat
    BY <1>1
  <2> QED
    BY <1>1, <1>8, <2>1, <2>2, <2>3, <2>4, <2>5, Zenon
<1>3. CASE draw.type = "double" /\ draw.variant = "single"
  <2>1. Len(one.numbers) = 1 /\ n + 1 \in Nat
    BY <1>1, <1>3
  <2>2. /\ NextNumbers(e.key, b, n + 1, two.numbers) /\ Len(two.numbers) = 1
        /\ two.engine.key = e.key
        /\ Handed(two.engine, v, (n + 1) + 1, draw.variant)
    BY <1>1, <1>3, <1>7, <2>1
  <2>3. PICK h \in 1 .. 2 : /\ i.numbers = one.numbers \o two.numbers /\ i.engine = two.engine
                            /\ i.from = <<n + h, n + (3 - h)>>
    <3>1. ~ (draw.type = "float" \/ draw.variant = "vector")
      BY <1>3
    <3>2. PICK h \in 1 .. 2 :
            i = [value |-> Joined(h, 3 - h, one.numbers \o two.numbers), from |-> Places(h, 3 - h),
                 numbers |-> one.numbers \o two.numbers, engine |-> two.engine, calls |-> 2]
      BY <1>5, <3>1
    <3>3. i.from = <<n + h, n + (3 - h)>>
      BY <3>1, <3>2
    <3> QED
      BY <3>2, <3>3
  <2>4. NextNumbers(e.key, b, n, i.numbers) /\ Len(i.numbers) = 2
    <3>1. NextNumbers(e.key, b, n + Len(one.numbers), two.numbers)
      BY <2>1, <2>2
    <3>2. /\ NextNumbers(e.key, b, n, one.numbers \o two.numbers)
          /\ Len(one.numbers \o two.numbers) = Len(one.numbers) + Len(two.numbers)
      <4>1. b \in Nat
        BY <1>0
      <4>2. NextNumbers(e.key, b, n, one.numbers)
        BY <1>1
      <4>3. PICK s : s = one.numbers
        OBVIOUS
      <4>4. PICK t : t = two.numbers
        OBVIOUS
      <4>5. NextNumbers(e.key, b, n, s) /\ NextNumbers(e.key, b, n + Len(s), t)
        BY <3>1, <4>2, <4>3, <4>4
      <4>6. NextNumbers(e.key, b, n, s \o t) /\ Len(s \o t) = Len(s) + Len(t)
        BY <4>1, <4>5, NumbersConcat
      <4> QED
        BY <4>3, <4>4, <4>6
    <3> QED
      BY <2>1, <2>2, <2>3, <3>2
  <2>5. i.from \in Seq(Nat) /\ PlacesOf(i.from) = {n + 1, n + 2}
    <3>1. h = 1 \/ h = 2
      OBVIOUS
    <3>2. i.from = <<n + 1, n + 2>> \/ i.from = <<n + 2, n + 1>>
      BY <2>3, <3>1
    <3>3. <<n + 1, n + 2>> \in Seq(Nat) /\ <<n + 2, n + 1>> \in Seq(Nat)
      OBVIOUS
    <3>4. PlacesOf(<<n + 1, n + 2>>) = {n + 1, n + 2} /\ PlacesOf(<<n + 2, n + 1>>) = {n + 1, n + 2}
      BY DEF PlacesOf
    <3> QED
      BY <3>2, <3>3, <3>4
  <2>6. n + 1 .. n + 2 = {n + 1, n + 2} /\ (n + 1) + 1 = n + 2
    OBVIOUS
  <2> QED
    <3>1. n + 1 .. n + Len(i.numbers) = {n + 1, n + 2} /\ (n + 1) + 1 = n + Len(i.numbers)
      BY <2>4, <2>6
    <3>2. Handed(i.engine, v, n + Len(i.numbers), draw.variant) /\ i.engine.key = e.key
      BY <2>2, <2>3, <3>1
    <3>3. Len(i.numbers) \in Nat
      BY <2>4
    <3> QED
      BY <1>8, <2>4, <2>5, <3>1, <3>2, <3>3, Zenon
<1> QED
  BY <1>2, <1>3 DEF Variants

----------------------------------------------------------------------------
\* The engine's reals are those of FloatingPoint.
LEMMA EngineRounds ==
    \A q, x, y, a, b, c, f :
        /\ Engine!Ulp(q, x) = Ulp(q, x) /\ Engine!RoundTo(q, x) = RoundTo(q, x)
        /\ Engine!NextAfter(q, x, y) = NextAfter(q, x, y)
        /\ Engine!Mul(q, a, b) = Mul(q, a, b) /\ Engine!MulAdd(q, f, a, b, c) = MulAdd(q, f, a, b, c)
<1>1. \A x : Engine!Abs(x) = Abs(x)
  BY Zenon DEF Engine!Abs, Abs
<1>2. \A q : Engine!Spacing(q) = Spacing(q)
  BY Zenon DEF Engine!Spacing, Spacing
<1>3. \A q, x : Engine!Ulp(q, x) = Ulp(q, x)
  BY <1>2, Zenon DEF Engine!Ulp, Ulp
<1>4. \A q, x : Engine!RoundTo(q, x) = RoundTo(q, x)
  BY <1>1, <1>3, Zenon DEF Engine!RoundTo, RoundTo
<1>5. \A q, x, y : Engine!NextAfter(q, x, y) = NextAfter(q, x, y)
  <2> SUFFICES ASSUME NEW q, NEW x, NEW y PROVE Engine!NextAfter(q, x, y) = NextAfter(q, x, y)
    OBVIOUS
  <2>1. PICK a, u : a = Abs(x) /\ u = Ulp(q, a) /\ Engine!Abs(x) = a /\ Engine!Ulp(q, a) = u
    BY <1>1, <1>3
  <2>2. Engine!NextAfter(q, x, y)
          = LET away == x = 0 \/ (x < 0) = (y < x)
                w == IF ~away /\ u > 1 /\ 2 * a = q * u THEN u \div 2 ELSE u
            IN  IF y > x THEN x + w ELSE x - w
    BY <2>1, Zenon DEF Engine!NextAfter
  <2>3. NextAfter(q, x, y)
          = LET away == x = 0 \/ (x < 0) = (y < x)
                w == IF ~away /\ u > 1 /\ 2 * a = q * u THEN u \div 2 ELSE u
            IN  IF y > x THEN x + w ELSE x - w
    BY <2>1, Zenon DEF NextAfter
  <2> QED
    BY <2>2, <2>3
<1>6. \A q, a, b : Engine!Mul(q, a, b) = Mul(q, a, b)
  BY <1>4, Zenon DEF Engine!Mul, Mul
<1>7. \A q, f, a, b, c : Engine!MulAdd(q, f, a, b, c) = MulAdd(q, f, a, b, c)
  BY <1>4, Zenon DEF Engine!MulAdd, MulAdd
<1> QED
  BY <1>3, <1>4, <1>5, <1>6, <1>7

\* Scaling stays in the interval.
InInterval(type, interval, min, max, x) ==
    /\ IF interval \in {"oc", "oo"} THEN min < x ELSE min <= x
    /\ IF interval \in {"co", "oo"} THEN x < max ELSE x <= max
    /\ Engine!IsReal(type, x)

LEMMA HalfOfSignificands ==
    ASSUME Engine!LegalReals, NEW type \in {"float", "double"}
    PROVE  \E h \in Nat \ {0} : /\ Significands[type] = 2 * h /\ 2 * h < Engine!Values(type)
                                /\ \A x \in Int : Engine!IsReal(type, x) <=> Rounded(h, x)
<1>1. /\ Significands[type] \in Nat \ {0} /\ Significands[type] % 2 = 0
      /\ Significands[type] < Engine!Values(type)
  BY DEF Engine!LegalReals
<1>2. PICK n \in Nat \ {0} : n = Significands[type] /\ n % 2 = 0
  BY <1>1
<1>3. PICK h \in Nat : h = n \div 2 /\ n = 2 * h
  BY <1>2
<1>4. h \in Nat \ {0}
  BY <1>3
<1> QED
  BY <1>1, <1>2, <1>3, <1>4, EngineRounds DEF Engine!IsReal, Rounded

LEMMA ScalingStaysInInterval ==
    ASSUME Engine!LegalReals, NEW type \in {"float", "double"}, NEW interval \in {"co", "oc", "oo", "cc"},
           NEW fused \in BOOLEAN, NEW min \in Int, NEW max \in Int, min < max,
           Engine!IsReal(type, min), Engine!IsReal(type, max), Engine!IsReal(type, max - min),
           interval = "oo" => NextAfter(Significands[type], min, max) # max,
           NEW p \in 0 .. PerUnit
    PROVE  InInterval(type, interval, min, max, Engine!ScaleInterval(type, interval, fused, min, max, p))
<1>1. PICK h \in Nat \ {0} : /\ Significands[type] = 2 * h
                             /\ \A x \in Int : Engine!IsReal(type, x) <=> Rounded(h, x)
  BY HalfOfSignificands
<1>2. PICK d \in Nat : d = max - min
  <2>1. max - min \in Nat
    OBVIOUS
  <2> QED
    BY <2>1
<1>3. Rounded(h, min) /\ Rounded(h, max) /\ Rounded(h, d)
  BY <1>1, <1>2
<1>4. PowerOfTwo(PerUnit)
  BY EngineRounds DEF Engine!LegalReals, PowerOfTwo
<1>5. RoundTo(2 * h, max - min) = d
  BY <1>2, <1>3 DEF Rounded
<1>6. PICK res \in Int : /\ res = MulAdd(2 * h, fused, p, d, min)
                         /\ Rounded(h, res) /\ min <= res /\ res <= max
  BY <1>2, <1>3, <1>4, MulAddStays
<1>7. PICK up \in Int : up = NextAfter(2 * h, min, max) /\ Rounded(h, up) /\ min < up /\ up <= max
  <2>1. min # max /\ ~ (max < min)
    OBVIOUS
  <2> QED
    BY <1>3, <2>1, NextAfterIsNext
<1>8. PICK back \in Int : back = NextAfter(2 * h, max, min) /\ Rounded(h, back) /\ min <= back /\ back < max
                          /\ (up # max => up <= back)
  <2>1. PICK k \in Int : k = NextAfter(2 * h, max, min) /\ Rounded(h, k) /\ min <= k /\ k < max
    <3>1. min # max /\ ~ (max < min)
      OBVIOUS
    <3> QED
      BY <1>3, <3>1, NextAfterIsNext
  <2>2. up # max => up <= k
    <3>1. SUFFICES ASSUME up < max PROVE up <= k
      BY <1>7
    <3>2. NextAfter(2 * h, max, up) = k
      BY <1>7, <2>1, <3>1 DEF NextAfter
    <3>3. up <= NextAfter(2 * h, max, up)
      <4>1. up # max
        BY <3>1
      <4> QED
        BY <1>3, <1>7, <3>1, <4>1, NextAfterIsNext
    <3> QED
      BY <3>2, <3>3
  <2> QED
    BY <2>1, <2>2
<1>9. interval = "oo" => up # max
  BY <1>1, <1>7
<1>10. PICK raised \in Int : /\ raised = IF interval \in {"oc", "oo"} /\ res = min THEN up ELSE res
                             /\ Rounded(h, raised) /\ min <= raised /\ raised <= max
                             /\ (interval \in {"oc", "oo"} => min < raised)
  BY <1>6, <1>7
<1>11. PICK x \in Int : /\ x = IF interval \in {"co", "oo"} /\ raised = max THEN back ELSE raised
                        /\ Rounded(h, x) /\ min <= x /\ x <= max
                        /\ (interval \in {"co", "oo"} => x < max)
                        /\ (interval \in {"oc", "oo"} => min < x)
  BY <1>7, <1>8, <1>9, <1>10
<1>12. Engine!ScaleInterval(type, interval, fused, min, max, p) = x
  BY <1>1, <1>5, <1>6, <1>7, <1>8, <1>10, <1>11, EngineRounds DEF Engine!ScaleInterval
<1>13. Engine!IsReal(type, x)
  BY <1>1, <1>11
<1> QED
  BY <1>11, <1>12, <1>13 DEF InInterval

\* The conversion gives a part of one.
LEMMA ConversionIsPart ==
    ASSUME Engine!LegalReals, Radix \in Nat, NEW type \in {"float", "double"},
           NEW interval \in {"co", "oc", "oo", "cc"}, NEW fused \in BOOLEAN,
           NEW i \in 0 .. Engine!Values(type) - 1
    PROVE  Engine!IntervalAwareConversion(type, interval, fused, i) \in 0 .. PerUnit
<1>1. PICK h \in Nat \ {0} : Significands[type] = 2 * h /\ 2 * h < Engine!Values(type)
  BY HalfOfSignificands
<1>2. PowerOfTwo(PerUnit)
  BY EngineRounds DEF Engine!LegalReals, PowerOfTwo
<1>3. PICK w \in Nat \ {0} : w = PerUnit
  BY <1>2 DEF PowerOfTwo
<1>4. PICK last \in Nat : last = Engine!Values(type) - 1 /\ 2 * h <= last /\ i \in Nat /\ i <= last
  <2>1. Engine!Values(type) \in Nat
    BY DEF Engine!Values
  <2> QED
    BY <1>1, <2>1
<1>5. PICK largest \in Nat : largest = Engine!Largest(type) /\ largest = RoundTo(2 * h, last)
  BY <1>1, <1>4, NaturalsRound, EngineRounds DEF Engine!Largest
<1>6. 2 * h <= largest
  <2>1. PICK one \in Nat \ {0}, zero \in Nat, k \in Nat : one = 1 /\ zero = 0 /\ k = 2 * h
    OBVIOUS
  <2>2. one = Ulp(2 * h, zero)
    <3>1. zero < 2 * h
      BY <2>1
    <3>2. Ulp(2 * h, zero) = 1
      BY <3>1, UlpFits
    <3> QED
      BY <2>1, <3>2
  <2>3. Rounded(h, one * k)
    <3>1. (h <= k \/ one = 1) /\ k <= 2 * h
      BY <2>1
    <3> QED
      BY <2>2, <3>1, MultiplesAreRounded
  <2>4. one * k = k
    BY <2>1
  <2>5. k <= RoundTo(2 * h, last)
    BY <1>4, <2>1, <2>3, <2>4, NaturalsRound
  <2> QED
    BY <1>5, <2>1, <2>5
<1>7. PICK n \in Nat : n = RoundTo(2 * h, i) /\ n <= largest
  <2>1. PICK n \in Nat : n = RoundTo(2 * h, i)
    BY <1>4, NaturalsRound
  <2>2. RoundTo(2 * h, i) <= RoundTo(2 * h, last)
    BY <1>4, RoundingIsMonotone
  <2> QED
    BY <1>5, <2>1, <2>2
<1>8. ASSUME NEW m \in Nat, m <= w PROVE m \div largest \in Nat /\ (m \div largest) * largest <= w
  <2>1. PICK g \in Nat \ {0} : g = largest
    BY <1>6
  <2>2. m \div g \in Nat /\ m % g \in Nat /\ m = g * (m \div g) + (m % g)
    BY Division
  <2>3. PICK b \in Nat : b = m \div g
    BY <2>2
  <2>4. b * g = g * b /\ g * b \in Nat
    OBVIOUS
  <2>5. b * g <= m
    BY <2>2, <2>3, <2>4
  <2> QED
    BY <1>8, <2>1, <2>3, <2>5
<1>9. PICK b \in Nat : b = Engine!Bin(type) /\ b * largest <= w
  <2>1. Engine!Bin(type) = w \div largest
    BY <1>3, <1>5 DEF Engine!Bin
  <2> QED
    BY <1>8, <2>1
<1>10. PICK o \in Nat : o = Engine!OpenBin(type) /\ o * largest <= w
  <2>1. PICK g \in Nat \ {0} : g = 2 * h
    OBVIOUS
  <2>2. w \div g \in Nat /\ w \div g <= w
    BY <2>1, Division
  <2>3. PICK m \in Nat : m = w - w \div g /\ m <= w
    BY <2>2
  <2>4. Engine!OpenBin(type) = m \div largest
    BY <1>1, <1>3, <1>5, <2>1, <2>3 DEF Engine!OpenBin, Engine!PrevOne
  <2> QED
    BY <1>8, <2>3, <2>4
<1>11. PICK k \in Nat : k = (IF interval \in {"co", "oo"} THEN o ELSE b) /\ k * largest <= w
  BY <1>9, <1>10
<1>12. Engine!HalfBin(type) = b \div 2
  BY <1>9 DEF Engine!HalfBin
<1>13. /\ Mul(2 * h, n * w, k) \in 0 .. w
       /\ MulAdd(2 * h, fused, n * w, k, b \div 2) \in 0 .. w
  BY <1>2, <1>3, <1>6, <1>7, <1>9, <1>11, PartOfOne
<1> QED
  BY <1>1, <1>3, <1>7, <1>9, <1>10, <1>11, <1>12, <1>13, EngineRounds DEF Engine!IntervalAwareConversion

----------------------------------------------------------------------------
\* The offset is an unsigned integer of two words.
LegalDraws == \A j \in Draws : Engine!Legal(j)

\* The arguments of a constructor.
LEMMA Arguments ==
    ASSUME Engine!LegalEngine, LegalDraws, NEW j \in Draws
    PROVE  /\ j.variant \in {"single", "vector"} /\ j.type \in {"float", "double"}
           /\ j.seed \in Nat /\ j.subsequence \in Nat
           /\ j.offset \in Nat /\ j.offset < Radix * Radix
<1>1. PICK n \in Nat : n = Radix * Radix
  BY Words
<1>2. /\ j.variant \in {"single", "vector"} /\ j.type \in {"float", "double"}
      /\ j.seed \in 0 .. n - 1 /\ j.subsequence \in 0 .. n - 1 /\ j.offset \in 0 .. n - 1
  BY <1>1 DEF LegalDraws, Engine!Legal
<1> QED
  BY <1>1, <1>2

Zero == <<0, 0, 0, 0>>

\* Skipping keeps a counter.
LEMMA SkipsAreTyped ==
    ASSUME Engine!LegalEngine, NEW n \in Nat, NEW c \in Engine!Counter
    PROVE  Engine!Skip4(c, n) \in Engine!Counter /\ Engine!SkipSubsequence(c, n) \in Engine!Counter
<1>1. /\ c[1] \in Engine!Word /\ c[2] \in Engine!Word /\ c[3] \in Engine!Word /\ c[4] \in Engine!Word
      /\ Engine!Word \subseteq Nat
  BY DEF Engine!Counter, Engine!Word, Engine!LegalEngine
<1>2. c[1] \in Nat /\ c[2] \in Nat /\ c[3] \in Nat /\ c[4] \in Nat
  BY <1>1
<1>3. Engine!Low(n) \in Nat /\ Engine!High(n) \in Nat
  BY <1>1, LowIsWord
<1>4. \A x \in BOOLEAN : Engine!Carry(x) \in Nat
  BY DEF Engine!Carry
<1>5. Engine!Skip4(c, n) \in Engine!Counter
  <2> DEFINE c1 == Engine!Low(c[1] + Engine!Low(n))
             c2 == Engine!Low(c[2] + Engine!High(n) + Engine!Carry(c1 < c[1]))
             c3 == Engine!Low(c[3] + Engine!Carry(c1 < c[2]))
             c4 == Engine!Low(c[4] + Engine!Carry(c1 < c[3]))
  <2>1. Engine!Skip4(c, n) = <<c1, c2, c3, c4>>
    BY DEF Engine!Skip4
  <2>2. /\ Engine!Carry(c1 < c[1]) \in Nat /\ Engine!Carry(c1 < c[2]) \in Nat
        /\ Engine!Carry(c1 < c[3]) \in Nat
    BY DEF Engine!Carry
  <2>3. /\ c[1] + Engine!Low(n) \in Nat /\ c[2] + Engine!High(n) + Engine!Carry(c1 < c[1]) \in Nat
        /\ c[3] + Engine!Carry(c1 < c[2]) \in Nat /\ c[4] + Engine!Carry(c1 < c[3]) \in Nat
    <3> HIDE DEF c1
    <3> QED
      BY <1>2, <1>3, <2>2
  <2>4. c1 \in Engine!Word /\ c2 \in Engine!Word /\ c3 \in Engine!Word /\ c4 \in Engine!Word
    BY <2>3, LowIsWord
  <2> HIDE DEF c1, c2, c3, c4
  <2> QED
    BY <2>1, <2>4 DEF Engine!Counter
<1>6. Engine!SkipSubsequence(c, n) \in Engine!Counter
  <2> DEFINE c3 == Engine!Low(c[3] + Engine!Low(n))
             c4 == Engine!Low(c[4] + Engine!High(n) + Engine!Carry(c3 < c[3]))
  <2>1. Engine!SkipSubsequence(c, n) = <<c[1], c[2], c3, c4>>
    BY DEF Engine!SkipSubsequence
  <2>2. Engine!Carry(c3 < c[3]) \in Nat
    BY DEF Engine!Carry
  <2>3. c[3] + Engine!Low(n) \in Nat /\ c[4] + Engine!High(n) + Engine!Carry(c3 < c[3]) \in Nat
    <3> HIDE DEF c3
    <3> QED
      BY <1>2, <1>3, <2>2
  <2>4. c3 \in Engine!Word /\ c4 \in Engine!Word
    BY <2>3, LowIsWord
  <2> HIDE DEF c3, c4
  <2> QED
    BY <1>1, <2>1, <2>4 DEF Engine!Counter
<1> QED
  BY <1>5, <1>6

\* Advancing keeps a counter.
LEMMA AdvanceIsTyped ==
    ASSUME Engine!LegalEngine, NEW c \in Engine!Counter
    PROVE  Engine!AdvanceCounter(c) \in Engine!Counter
<1>1. PICK v \in Nat : Engine!Word4(v) = c
  BY ValueOfCounter DEF Engine!LegalEngine
<1>2. Engine!AdvanceCounter(c) = Engine!Word4(v + 1) /\ v + 1 \in Nat
  BY <1>1, AdvanceCounts DEF Engine!LegalEngine
<1> QED
  BY <1>2, WordsAreTyped

\* From zero, up to two words are skipped without a loss.
LEMMA SkipFromZero ==
    ASSUME Engine!LegalEngine, NEW n \in Nat, n < Radix * Radix
    PROVE  /\ Engine!Skip4(Zero, n) = Engine!Word4(n)
           /\ Engine!SkipSubsequence(Zero, 0) = Zero
<1> DEFINE q == n \div Radix
           r == n % Radix
<1>0. Radix \in Nat /\ Radix > 1
  BY DEF Engine!LegalEngine
<1>1. q \in Nat /\ r \in Nat /\ r < Radix /\ n = Radix * q + r
  BY <1>0, Division
<1>2. q < Radix
  <2>1. ASSUME q >= Radix PROVE FALSE
    <3>1. Radix * Radix <= q * Radix /\ q * Radix = Radix * q
      BY <1>0, <1>1, <2>1, ProductOrder
    <3> QED
      BY <1>0, <1>1, <3>1
  <2> QED
    BY <1>0, <1>1, <2>1
<1> HIDE DEF q, r
<1>3. \A d \in Nat : d < Radix => d % Radix = d /\ d \div Radix = 0
  <2> SUFFICES ASSUME NEW d \in Nat, d < Radix PROVE d % Radix = d /\ d \div Radix = 0
    OBVIOUS
  <2>1. d = d + Radix * 0
    BY <1>0
  <2> QED
    BY <1>0, <2>1, Digit
<1>4. r % Radix = r /\ q % Radix = q /\ q \div Radix = 0 /\ 0 % Radix = 0 /\ 0 \div Radix = 0
  BY <1>0, <1>1, <1>2, <1>3
<1>5. Engine!Word4(n) = <<r, q, 0, 0>>
  BY <1>4 DEF Engine!Word4, q, r
<1>6. Engine!Low(n) = r /\ Engine!High(n) = q
  BY <1>4 DEF Engine!Low, Engine!High, q, r
<1>7. Engine!Low(0 + r) = r /\ Engine!Low(0 + q + 0) = q /\ Engine!Low(0 + 0) = 0
  BY <1>1, <1>4 DEF Engine!Low
<1>8. Zero[1] = 0 /\ Zero[2] = 0 /\ Zero[3] = 0 /\ Zero[4] = 0 /\ ~ (r < 0)
  BY <1>1 DEF Zero
<1>9. Engine!Skip4(Zero, n) = <<r, q, 0, 0>>
  <2>1. Engine!Carry(r < 0) = 0
    BY <1>8 DEF Engine!Carry
  <2> QED
    BY <1>6, <1>7, <1>8, <2>1 DEF Engine!Skip4
<1>10. Engine!SkipSubsequence(Zero, 0) = Zero
  <2>1. Engine!Low(0) = 0 /\ Engine!High(0) = 0
    BY <1>4 DEF Engine!Low, Engine!High
  <2>2. ~ (0 < 0) /\ Engine!Carry(0 < 0) = 0 /\ 0 + 0 = 0 /\ 0 + 0 + 0 = 0
    BY DEF Engine!Carry
  <2>3. Engine!SkipSubsequence(Zero, 0) = <<0, 0, 0, 0>>
    BY <1>8, <2>1, <2>2 DEF Engine!SkipSubsequence
  <2> QED
    BY <2>3 DEF Zero
<1> QED
  BY <1>5, <1>9, <1>10

\* A counter of two words and two zeros has the value of the two words.
LEMMA SmallValue ==
    ASSUME Engine!LegalEngine, NEW n \in Nat, n <= Radix * Radix
    PROVE  Engine!Value(Engine!Word4(n)) = n
<1> DEFINE q == n \div Radix
           r == n % Radix
           p == q \div Radix
           s == q % Radix
<1>0. Radix \in Nat /\ Radix > 1
  BY DEF Engine!LegalEngine
<1>1. q \in Nat /\ r \in Nat /\ r < Radix /\ n = Radix * q + r
  BY <1>0, Division
<1>2. q <= Radix
  <2>1. ASSUME q >= Radix + 1 PROVE FALSE
    <3>1. (Radix + 1) * Radix <= q * Radix /\ q * Radix = Radix * q /\ (Radix + 1) * Radix = Radix * Radix + Radix
      BY <1>0, <1>1, <2>1, ProductOrder
    <3> QED
      BY <1>0, <1>1, <3>1
  <2> QED
    BY <1>0, <1>1, <2>1
<1> HIDE DEF q, r
<1>3. p \in Nat /\ s \in Nat /\ s < Radix /\ q = Radix * p + s
  BY <1>0, <1>1, Division
<1>4. p <= 1
  <2>1. ASSUME p >= 2 PROVE FALSE
    <3>1. 2 * Radix <= p * Radix /\ p * Radix = Radix * p
      BY <1>0, <1>3, <2>1, ProductOrder
    <3> QED
      BY <1>0, <1>1, <1>2, <1>3, <3>1
  <2> QED
    BY <1>3, <2>1
<1> HIDE DEF p, s
<1>5. p % Radix = p /\ p \div Radix = 0 /\ 0 % Radix = 0
  <2>1. p = p + Radix * 0 /\ 0 = 0 + Radix * 0
    BY <1>0, <1>3
  <2>2. p < Radix
    BY <1>0, <1>3, <1>4
  <2>3. p % Radix = p /\ p \div Radix = 0
    BY <1>0, <1>3, <2>1, <2>2, Digit
  <2>4. 0 % Radix = 0
    BY <1>0, <2>1, Digit
  <2> QED
    BY <2>3, <2>4
<1>6. Engine!Word4(n) = <<r, s, p, 0>>
  BY <1>5 DEF Engine!Word4, p, q, r, s
<1>7. Engine!Value(<<r, s, p, 0>>) = r + Radix * (s + Radix * (p + Radix * 0))
  BY DEF Engine!Value
<1>8. r + Radix * (s + Radix * (p + Radix * 0)) = n
  <2>1. p + Radix * 0 = p /\ s + Radix * p = q /\ r + Radix * q = n
    BY <1>0, <1>1, <1>3
  <2> QED
    BY <2>1
<1> QED
  BY <1>6, <1>7, <1>8

\* An engine begins with the block behind what its arguments skip.
LEMMA EngineBegins ==
    ASSUME Engine!LegalEngine, LegalDraws, Engine!Init
    PROVE  /\ draw \in Draws /\ first \in Engine!Counter
           /\ Handed(engine, Engine!Value(first), 0, draw.variant)
           /\ draw.subsequence = 0 =>
                 Engine!Value(first) = 1 + IF draw.variant = "single" THEN draw.offset \div 4 ELSE draw.offset
<1> DEFINE key == <<Engine!Low(draw.seed), Engine!High(draw.seed)>>
           skipped == Engine!SkipSubsequence(Zero, draw.subsequence)
           n == IF draw.variant = "single" THEN draw.offset \div 4 ELSE draw.offset
           c == Engine!AdvanceCounter(Engine!Skip4(skipped, n))
<1>1. /\ draw \in Draws /\ draw.variant \in Variants /\ draw.seed \in Nat /\ draw.subsequence \in Nat
      /\ draw.offset \in Nat /\ draw.offset < Radix * Radix
      /\ engine = Engine!NewEngine(draw.variant, draw.seed, draw.subsequence, draw.offset)
      /\ first = engine.counter
  BY Arguments DEF Engine!Init, Variants
<1>2. key \in Engine!Key
  BY <1>1, LowIsWord DEF Engine!Key
<1>3. n \in Nat /\ n < Radix * Radix
  <2>1. Radix * Radix \in Nat /\ draw.offset \div 4 \in Nat /\ draw.offset \div 4 <= draw.offset
    BY <1>1, Words
  <2> QED
    BY <1>1, <2>1
<1>4. Zero \in Engine!Counter
  BY Words DEF Zero, Engine!Counter
<1>5. skipped \in Engine!Counter
  BY <1>1, <1>4, SkipsAreTyped
<1>6. c \in Engine!Counter
  <2>1. Engine!Skip4(skipped, n) \in Engine!Counter
    BY <1>3, <1>5, SkipsAreTyped
  <2> QED
    BY <2>1, AdvanceIsTyped
<1>7. draw.variant = "single" =>
        /\ engine = [counter |-> c, key |-> key, result |-> Engine!NRounds(c, key), position |-> 0]
        /\ Engine!NRounds(c, key) \in Engine!Counter
  <2> SUFFICES ASSUME draw.variant = "single"
               PROVE  /\ engine = [counter |-> c, key |-> key,
                                   result |-> Engine!NRounds(c, key), position |-> 0]
                      /\ Engine!NRounds(c, key) \in Engine!Counter
    OBVIOUS
  <2>1. Engine!NRounds(c, key) \in Engine!Counter
    BY <1>2, <1>6, BlockIsFourWords
  <2>2. engine = Engine!NewSingle(draw.seed, draw.subsequence, draw.offset)
    BY <1>1 DEF Engine!NewEngine
  <2> DEFINE fresh == [counter |-> skipped, key |-> key, result |-> Zero, position |-> 0]
  <2>3. Engine!Skip(fresh, draw.offset) =
          [counter |-> Engine!Skip4(skipped, n), key |-> key,
           result |-> Engine!ShiftedBy(Zero, draw.offset % 4), position |-> draw.offset % 4]
    <3>1. PICK o : o = draw.offset
      OBVIOUS
    <3>2. 0 + (o % 4) = o % 4 /\ o % 4 < 4 /\ (o % 4) % 4 = o % 4 /\ o \div 4 = n
      BY <1>1, <3>1
    <3> HIDE DEF skipped, key, n
    <3>3. Engine!Skip(fresh, o) =
            [fresh EXCEPT !.position = o % 4, !.result = Engine!ShiftedBy(@, o % 4),
                          !.counter = Engine!Skip4(@, n)]
      BY <3>2 DEF Engine!Skip
    <3> QED
      BY <3>1, <3>3
  <2>4. engine = Engine!AdvanceState(Engine!Skip(fresh, draw.offset))
    BY <2>2 DEF Engine!NewSingle, Zero
  <2>5. PICK old : old = Engine!Skip4(skipped, n)
    OBVIOUS
  <2>6. PICK block : block = Engine!ShiftedBy(Zero, draw.offset % 4)
    OBVIOUS
  <2>7. PICK p : p = draw.offset % 4
    OBVIOUS
  <2> HIDE DEF fresh, skipped, key, n
  <2>8. engine = Engine!AdvanceState([counter |-> old, key |-> key, result |-> block, position |-> p])
    BY <2>3, <2>4, <2>5, <2>6, <2>7
  <2>9. engine = [counter |-> Engine!AdvanceCounter(old), key |-> key,
                  result |-> Engine!NRounds(Engine!AdvanceCounter(old), key), position |-> 0]
    BY <2>8 DEF Engine!AdvanceState
  <2> QED
    BY <2>1, <2>5, <2>9
<1>8. draw.variant = "vector" => engine = [counter |-> c, key |-> key]
  BY <1>1 DEF Engine!NewEngine, Engine!NewVector, Zero
<1>9. engine.counter = c /\ first = c
  BY <1>1, <1>7, <1>8 DEF Variants
<1>10. Engine!Value(first) \in Nat /\ Engine!Word4(Engine!Value(first) + (0 \div 4)) = first
  <2>1. Engine!Value(first) \in Nat /\ Engine!Word4(Engine!Value(first)) = first
    BY <1>6, <1>9, ValueOfCounter DEF Engine!LegalEngine
  <2>2. Engine!Value(first) + (0 \div 4) = Engine!Value(first)
    BY <2>1
  <2> QED
    BY <2>1, <2>2
<1>11. draw.subsequence = 0 => Engine!Value(first) = 1 + n
  <2> SUFFICES ASSUME draw.subsequence = 0 PROVE Engine!Value(first) = 1 + n
    OBVIOUS
  <2> HIDE DEF n
  <2>1. c = Engine!AdvanceCounter(Engine!Word4(n))
    BY <1>3, SkipFromZero
  <2>2. c = Engine!Word4(n + 1) /\ n + 1 \in Nat
    BY <1>3, <2>1, AdvanceCounts DEF Engine!LegalEngine
  <2>3. n + 1 <= Radix * Radix
    BY <1>3 DEF Engine!LegalEngine
  <2>4. Engine!Value(c) = n + 1
    BY <2>2, <2>3, SmallValue
  <2> QED
    BY <1>3, <1>9, <2>4
<1>12. Handed(engine, Engine!Value(first), 0, draw.variant)
  <2> HIDE DEF c, key
  <2>1. engine.counter = Engine!Word4(Engine!Value(first) + (0 \div 4))
    BY <1>9, <1>10
  <2>2. ASSUME draw.variant = "single"
        PROVE  /\ engine \in SingleEngine /\ engine.position = 0 % 4
               /\ \A j \in 1 .. 4 - (0 % 4) : engine.result[j] = Engine!NRounds(engine.counter, engine.key)[(0 % 4) + j]
    <3>1. PICK r \in Engine!Counter : r = Engine!NRounds(c, key)
      BY <1>7, <2>2
    <3>2. engine = [counter |-> c, key |-> key, result |-> r, position |-> 0]
      BY <1>7, <2>2, <3>1
    <3>3. engine \in SingleEngine
      BY <1>2, <1>6, <3>2 DEF SingleEngine
    <3>4. 0 % 4 = 0 /\ \A j \in 1 .. 4 : 0 + j = j
      OBVIOUS
    <3> QED
      BY <3>1, <3>2, <3>3, <3>4
  <2>3. draw.variant = "vector" => engine \in VectorEngine /\ 0 % 4 = 0
    BY <1>2, <1>6, <1>8 DEF VectorEngine
  <2> QED
    BY <2>1, <2>2, <2>3 DEF Handed
<1> QED
  BY <1>1, <1>6, <1>9, <1>11, <1>12

----------------------------------------------------------------------------
IsLonger(t, s, d) ==
    /\ t \in Seq(PlacesOf(t))
    /\ Len(s) \in Nat /\ Len(t) = Len(s) + 1
    /\ DOMAIN s = 1 .. Len(s) /\ DOMAIN t = 1 .. Len(s) + 1
    /\ \A i \in 1 .. Len(s) : t[i] = s[i]
    /\ t[Len(s) + 1] = d

\* Append, for a sequence of anything.
LEMMA AppendedAny ==
    ASSUME NEW s, s \in Seq(PlacesOf(s)), NEW d, NEW t, t = Append(s, d)
    PROVE  IsLonger(t, s, d)
<1> DEFINE S == PlacesOf(s) \cup {d}
<1>1. s \in Seq(S) /\ d \in S
  BY SeqMonotonic
<1> HIDE DEF S
<1>2. /\ t \in Seq(S) /\ Len(s) \in Nat /\ Len(t) = Len(s) + 1
      /\ DOMAIN s = 1 .. Len(s) /\ DOMAIN t = 1 .. Len(s) + 1
      /\ \A i \in 1 .. Len(s) : t[i] = s[i]
      /\ t[Len(s) + 1] = d
  BY <1>1
<1>3. t \in [1 .. Len(t) -> PlacesOf(t)]
  <2>1. t \in [1 .. Len(t) -> S]
    BY <1>2, LenProperties
  <2>2. \A i \in 1 .. Len(t) : t[i] \in PlacesOf(t)
    BY <1>2 DEF PlacesOf
  <2> QED
    BY <2>1, <2>2
<1>4. t \in Seq(PlacesOf(t))
  <2>1. PICK n \in Nat : n = Len(t)
    BY <1>2
  <2>2. t \in [1 .. n -> PlacesOf(t)]
    BY <1>3, <2>1
  <2>3. t \in UNION {[1 .. k -> PlacesOf(t)] : k \in Nat}
    BY <2>2
  <2> QED
    BY <2>3, SeqDef
<1> QED
  BY <1>2, <1>4 DEF IsLonger

\* Deviates are made of the first n numbers, ...
MadeOf(ds, n) == ds \in Seq(PlacesOf(ds)) /\ \A i \in DOMAIN ds : PlacesOf(ds[i].from) \subseteq 1 .. n

\* ... none of which is behind two deviates but the twins of a transform, ...
UsedOnce(ds) ==
    \A i, k \in DOMAIN ds :
        i < k /\ PlacesOf(ds[i].from) \cap PlacesOf(ds[k].from) # {} =>
            /\ k = i + 1 /\ ds[i].from = ds[k].from
            /\ ds[i].part = "cos" /\ ds[k].part = "sin"

\* ... and all of which are used.
AllUsed(ds, n) == \A p \in 1 .. n : \E i \in DOMAIN ds : p \in PlacesOf(ds[i].from)

\* A deviate of the numbers after the first n shares none with the earlier ones.
LEMMA FreshNumbers ==
    ASSUME NEW ds, NEW n \in Nat, NEW m \in Nat, MadeOf(ds, n), UsedOnce(ds),
           NEW d, PlacesOf(d.from) \subseteq n + 1 .. n + m, NEW es, es = Append(ds, d)
    PROVE  /\ MadeOf(es, n + m) /\ UsedOnce(es)
           /\ AllUsed(ds, n) /\ PlacesOf(d.from) = n + 1 .. n + m => AllUsed(es, n + m)
<1> DEFINE L == Len(ds)
<1>1. /\ es \in Seq(PlacesOf(es))
      /\ L \in Nat /\ Len(es) = L + 1
      /\ DOMAIN ds = 1 .. L /\ DOMAIN es = 1 .. L + 1
      /\ \A i \in 1 .. L : es[i] = ds[i]
      /\ es[L + 1] = d
  <2>1. ds \in Seq(PlacesOf(ds))
    BY DEF MadeOf
  <2>2. IsLonger(es, ds, d)
    BY <2>1, AppendedAny
  <2> QED
    BY <2>2 DEF IsLonger
<1> HIDE DEF L
<1>2. \A i \in 1 .. L : PlacesOf(es[i].from) \subseteq 1 .. n
  BY <1>1 DEF MadeOf
<1>3. MadeOf(es, n + m)
  <2> SUFFICES ASSUME NEW i \in 1 .. L + 1 PROVE PlacesOf(es[i].from) \subseteq 1 .. n + m
    BY <1>1 DEF MadeOf
  <2>1. 1 .. n \subseteq 1 .. n + m /\ n + 1 .. n + m \subseteq 1 .. n + m
    OBVIOUS
  <2>2. i \in 1 .. L \/ i = L + 1
    BY <1>1
  <2> QED
    BY <1>1, <1>2, <2>1, <2>2
<1>4. UsedOnce(es)
  <2> SUFFICES ASSUME NEW i \in 1 .. L + 1, NEW k \in 1 .. L + 1, i < k,
                      PlacesOf(es[i].from) \cap PlacesOf(es[k].from) # {}
               PROVE  /\ k = i + 1 /\ es[i].from = es[k].from
                      /\ es[i].part = "cos" /\ es[k].part = "sin"
    BY <1>1 DEF UsedOnce
  <2>1. i \in 1 .. L
    BY <1>1
  <2>2. CASE k \in 1 .. L
    <3>1. es[i] = ds[i] /\ es[k] = ds[k] /\ i \in DOMAIN ds /\ k \in DOMAIN ds
      BY <1>1, <2>1, <2>2
    <3> QED
      BY <3>1 DEF UsedOnce
  <2>3. CASE k = L + 1
    <3>1. PlacesOf(es[i].from) \subseteq 1 .. n /\ PlacesOf(es[k].from) \subseteq n + 1 .. n + m
      BY <1>1, <1>2, <2>1, <2>3
    <3>2. (1 .. n) \cap (n + 1 .. n + m) = {}
      OBVIOUS
    <3> QED
      BY <3>1, <3>2
  <2> QED
    BY <1>1, <2>2, <2>3
<1>5. ASSUME AllUsed(ds, n), PlacesOf(d.from) = n + 1 .. n + m PROVE AllUsed(es, n + m)
  <2> SUFFICES ASSUME NEW p \in 1 .. n + m PROVE \E i \in DOMAIN es : p \in PlacesOf(es[i].from)
    BY DEF AllUsed
  <2>1. CASE p \in 1 .. n
    <3>1. PICK i \in DOMAIN ds : p \in PlacesOf(ds[i].from)
      BY <1>5, <2>1 DEF AllUsed
    <3>2. i \in DOMAIN es /\ es[i] = ds[i]
      BY <1>1
    <3> QED
      BY <3>1, <3>2
  <2>2. CASE p \in n + 1 .. n + m
    <3>1. L + 1 \in DOMAIN es /\ es[L + 1] = d
      BY <1>1
    <3> QED
      BY <1>5, <2>2, <3>1
  <2> QED
    BY <2>1, <2>2
<1> QED
  BY <1>3, <1>4, <1>5

\* The second deviate of a transform shares the numbers of the one before it, and of no other.
LEMMA TwinFollows ==
    ASSUME NEW ds, NEW n \in Nat, MadeOf(ds, n), UsedOnce(ds), ds # <<>>,
           NEW d, d.from = ds[Len(ds)].from, d.part = "sin", ds[Len(ds)].part = "cos",
           NEW es, es = Append(ds, d)
    PROVE  MadeOf(es, n) /\ UsedOnce(es) /\ (AllUsed(ds, n) => AllUsed(es, n))
<1> DEFINE L == Len(ds)
<1>1. /\ es \in Seq(PlacesOf(es))
      /\ L \in Nat /\ Len(es) = L + 1
      /\ DOMAIN ds = 1 .. L /\ DOMAIN es = 1 .. L + 1
      /\ \A i \in 1 .. L : es[i] = ds[i]
      /\ es[L + 1] = d
  <2>1. ds \in Seq(PlacesOf(ds))
    BY DEF MadeOf
  <2>2. IsLonger(es, ds, d)
    BY <2>1, AppendedAny
  <2> QED
    BY <2>2 DEF IsLonger
<1>2. L \in DOMAIN ds /\ L >= 1
  BY <1>1 DEF MadeOf
<1>3. d.from = es[L].from /\ es[L].part = "cos" /\ d.part = "sin"
  BY <1>1, <1>2
<1> HIDE DEF L
<1>4. \A i \in 1 .. L : PlacesOf(es[i].from) \subseteq 1 .. n
  BY <1>1 DEF MadeOf
<1>5. MadeOf(es, n)
  <2> SUFFICES ASSUME NEW i \in 1 .. L + 1 PROVE PlacesOf(es[i].from) \subseteq 1 .. n
    BY <1>1 DEF MadeOf
  <2>1. i \in 1 .. L \/ i = L + 1
    BY <1>1
  <2> QED
    BY <1>1, <1>2, <1>3, <1>4, <2>1
<1>6. UsedOnce(es)
  <2> SUFFICES ASSUME NEW i \in 1 .. L + 1, NEW k \in 1 .. L + 1, i < k,
                      PlacesOf(es[i].from) \cap PlacesOf(es[k].from) # {}
               PROVE  /\ k = i + 1 /\ es[i].from = es[k].from
                      /\ es[i].part = "cos" /\ es[k].part = "sin"
    BY <1>1 DEF UsedOnce
  <2>0. \A a, b \in 1 .. L : a < b /\ PlacesOf(es[a].from) \cap PlacesOf(es[b].from) # {} =>
            /\ b = a + 1 /\ es[a].from = es[b].from
            /\ es[a].part = "cos" /\ es[b].part = "sin"
    <3> SUFFICES ASSUME NEW a \in 1 .. L, NEW b \in 1 .. L, a < b,
                        PlacesOf(es[a].from) \cap PlacesOf(es[b].from) # {}
                 PROVE  /\ b = a + 1 /\ es[a].from = es[b].from
                        /\ es[a].part = "cos" /\ es[b].part = "sin"
      OBVIOUS
    <3>1. a \in DOMAIN ds /\ b \in DOMAIN ds /\ es[a] = ds[a] /\ es[b] = ds[b]
      BY <1>1
    <3> QED
      BY <3>1 DEF UsedOnce
  <2>1. i \in 1 .. L
    BY <1>1
  <2>2. CASE k \in 1 .. L
    BY <2>0, <2>1, <2>2
  <2>3. CASE k = L + 1
    <3>1. es[k].from = es[L].from
      BY <1>1, <1>3, <2>3
    <3>2. i = L
      <4>1. ASSUME i < L PROVE FALSE
        <5>1. es[L].part = "sin"
          BY <1>1, <1>2, <2>0, <2>1, <3>1, <4>1
        <5> QED
          BY <1>3, <5>1
      <4> QED
        BY <1>1, <2>1, <4>1
    <3> QED
      BY <1>1, <1>3, <2>3, <3>1, <3>2
  <2> QED
    BY <1>1, <2>2, <2>3
<1>7. ASSUME AllUsed(ds, n) PROVE AllUsed(es, n)
  <2> SUFFICES ASSUME NEW p \in 1 .. n PROVE \E i \in DOMAIN es : p \in PlacesOf(es[i].from)
    BY DEF AllUsed
  <2>1. PICK i \in DOMAIN ds : p \in PlacesOf(ds[i].from)
    BY <1>7 DEF AllUsed
  <2>2. i \in DOMAIN es /\ es[i] = ds[i]
    BY <1>1
  <2> QED
    BY <2>1, <2>2
<1> QED
  BY <1>5, <1>6, <1>7

----------------------------------------------------------------------------
\* The numbers drawn are the first ones behind the block the engine began with,
\* and the engine stands behind them.
StreamInv ==
    /\ draw \in Draws /\ first \in Engine!Counter
    /\ NextNumbers(engine.key, Start(draw.variant, Engine!Value(first)), 0, drawn)
    /\ Handed(engine, Engine!Value(first), Len(drawn), draw.variant)
    /\ draw.subsequence = 0 =>
          Engine!Value(first) = 1 + IF draw.variant = "single" THEN draw.offset \div 4 ELSE draw.offset

\* Deviates are made of the numbers drawn, each of its own; a deviate that is
\* kept belongs to the last one returned.
UsesInv ==
    /\ MadeOf(deviates, Len(drawn)) /\ UsedOnce(deviates)
    /\ cached # Nothing =>
          /\ draw.use = "normal" /\ deviates # <<>> /\ cached.from = deviates[Len(deviates)].from
          /\ cached.part = "sin" /\ deviates[Len(deviates)].part = "cos"
    /\ draw.variant = "single" /\ draw.use \in {"uniform", "normal"} => AllUsed(deviates, Len(drawn))

\* The numbers drawn become longer by the next numbers of the engine.
LEMMA StreamGrows ==
    ASSUME Engine!LegalEngine, LegalDraws, StreamInv, draw' = draw, first' = first, NEW s,
           NextNumbers(engine.key, Start(draw.variant, Engine!Value(first)), Len(drawn), s),
           drawn' = drawn \o s, engine'.key = engine.key,
           Handed(engine', Engine!Value(first), Len(drawn) + Len(s), draw.variant)
    PROVE  StreamInv' /\ Len(drawn') = Len(drawn) + Len(s) /\ Len(drawn) \in Nat
<1> DEFINE b == Start(draw.variant, Engine!Value(first))
<1>1. Engine!Value(first) \in Nat
  BY ValueOfCounter DEF StreamInv, Engine!LegalEngine
<1>2. b \in Nat
  BY <1>1 DEF Start
<1>3. NextNumbers(engine.key, b, 0, drawn) /\ drawn \in Seq(Engine!Word) /\ Len(drawn) \in Nat
  BY DEF StreamInv, NextNumbers
<1>4. PICK k : k = engine.key
  OBVIOUS
<1>5. NextNumbers(k, b, 0, drawn \o s) /\ Len(drawn \o s) = Len(drawn) + Len(s)
  <2>1. NextNumbers(k, b, 0, drawn) /\ NextNumbers(k, b, 0 + Len(drawn), s)
    BY <1>3, <1>4
  <2> HIDE DEF b
  <2>2. PICK d : d = drawn
    OBVIOUS
  <2>3. NextNumbers(k, b, 0, d) /\ NextNumbers(k, b, 0 + Len(d), s)
    BY <2>1, <2>2
  <2>4. NextNumbers(k, b, 0, d \o s) /\ Len(d \o s) = Len(d) + Len(s)
    BY <1>2, <2>3, NumbersConcat
  <2> QED
    BY <2>2, <2>4
<1>6. NextNumbers(engine'.key, b, 0, drawn') /\ Len(drawn') = Len(drawn) + Len(s)
  BY <1>4, <1>5
<1>7. Handed(engine', Engine!Value(first), Len(drawn'), draw.variant)
  BY <1>6
<1>8. (Engine!Value(first))' = Engine!Value(first)
  BY DEF Engine!Value
<1>9. Start(draw'.variant, Engine!Value(first)) = b
  OBVIOUS
<1>10. first \in Engine!Counter' /\ draw \in Draws
  BY DEF StreamInv, Engine!Counter, Engine!Word
<1> QED
  BY <1>3, <1>6, <1>7, <1>8, <1>9, <1>10 DEF StreamInv

\* What leaves the engine alone leaves its stream alone.
LEMMA StreamKept ==
    ASSUME Engine!LegalEngine, LegalDraws, StreamInv,
           draw' = draw, engine' = engine, first' = first, drawn' = drawn
    PROVE  StreamInv'
<1> DEFINE b == Start(draw.variant, Engine!Value(first))
<1>1. drawn \in Seq(Engine!Word) /\ Len(drawn) \in Nat
  BY DEF StreamInv, NextNumbers
<1>2. PICK s : s = <<>>
  OBVIOUS
<1>3. /\ NextNumbers(engine.key, b, Len(drawn), s) /\ drawn' = drawn \o s
      /\ Len(drawn) + Len(s) = Len(drawn)
  BY <1>1, <1>2 DEF NextNumbers
<1>4. engine'.key = engine.key /\ Handed(engine', Engine!Value(first), Len(drawn) + Len(s), draw.variant)
  BY <1>3 DEF StreamInv
<1> QED
  BY <1>3, <1>4, StreamGrows

\* What the steps use of the invariant.
LEMMA EngineNow ==
    ASSUME Engine!LegalEngine, LegalDraws, StreamInv
    PROVE  /\ draw.variant \in Variants /\ draw.type \in {"float", "double"}
           /\ Engine!Value(first) \in Nat /\ Len(drawn) \in Nat
           /\ Handed(engine, Engine!Value(first), Len(drawn), draw.variant)
<1>1. draw.variant \in Variants /\ draw.type \in {"float", "double"}
  BY Arguments DEF StreamInv, Variants
<1>2. Engine!Value(first) \in Nat
  BY ValueOfCounter, Words DEF StreamInv
<1>3. Len(drawn) \in Nat /\ Handed(engine, Engine!Value(first), Len(drawn), draw.variant)
  BY DEF StreamInv, NextNumbers
<1> QED
  BY <1>1, <1>2, <1>3

\* A number drawn keeps the invariant: no deviate is made of it.
LEMMA DrawStep ==
    ASSUME Engine!LegalEngine, LegalDraws, StreamInv, UsesInv, Engine!Draw
    PROVE  StreamInv' /\ UsesInv'
<1> DEFINE v == Engine!Value(first)
<1>1. /\ draw.variant \in Variants /\ v \in Nat /\ Len(drawn) \in Nat
      /\ Handed(engine, v, Len(drawn), draw.variant)
  BY EngineNow
<1>2. PICK got : got = Engine!NextCall(draw.variant, engine)
  OBVIOUS
<1>3. /\ draw.use = "number" /\ engine' = got.engine /\ drawn' = drawn \o got.numbers
      /\ draw' = draw /\ first' = first /\ deviates' = deviates /\ cached' = cached
  BY <1>2 DEF Engine!Draw
<1> HIDE DEF v
<1>4. /\ NextNumbers(engine.key, Start(draw.variant, v), Len(drawn), got.numbers)
      /\ got.engine.key = engine.key
      /\ Handed(got.engine, v, Len(drawn) + Len(got.numbers), draw.variant)
      /\ Len(got.numbers) \in Nat
  <2>1. PICK e : e = engine
    OBVIOUS
  <2>2. PICK n \in Nat, w \in Nat, t \in Variants : n = Len(drawn) /\ w = v /\ t = draw.variant
    BY <1>1
  <2>3. Handed(e, w, n, t) /\ got = Engine!NextCall(t, e)
    BY <1>1, <1>2, <2>1, <2>2
  <2>4. /\ got.numbers \in Seq(Engine!Word)
        /\ Len(got.numbers) = IF t = "single" THEN 1 ELSE 4
        /\ \A i \in 1 .. Len(got.numbers) : got.numbers[i] = Number(e.key, Start(t, w), n + i)
        /\ got.engine.key = e.key
        /\ Handed(got.engine, w, n + Len(got.numbers), t)
    BY <2>3, CallHandsOutNext
  <2>5. NextNumbers(e.key, Start(t, w), n, got.numbers) /\ Len(got.numbers) \in Nat
    BY <2>4 DEF NextNumbers
  <2> QED
    BY <2>1, <2>2, <2>4, <2>5
<1>5. StreamInv' /\ Len(drawn') = Len(drawn) + Len(got.numbers)
  BY <1>3, <1>4, StreamGrows DEF v
<1>6. MadeOf(deviates, Len(drawn'))
  <2>1. 1 .. Len(drawn) \subseteq 1 .. Len(drawn')
    BY <1>1, <1>4, <1>5
  <2> QED
    BY <2>1 DEF MadeOf, UsesInv
<1>7. UsesInv'
  BY <1>3, <1>6 DEF UsesInv
<1> QED
  BY <1>5, <1>7

\* A uniform real keeps the invariant: its words are fresh.
LEMMA UniformStep ==
    ASSUME Engine!LegalEngine, LegalDraws, StreamInv, UsesInv, Engine!DrawUniform
    PROVE  StreamInv' /\ UsesInv'
<1> DEFINE v == Engine!Value(first)
<1>1. /\ draw.variant \in Variants /\ draw.type \in {"float", "double"} /\ v \in Nat /\ Len(drawn) \in Nat
      /\ Handed(engine, v, Len(drawn), draw.variant)
  BY EngineNow
<1>2. PICK i \in Engine!RandomBits(engine, Len(drawn)) :
        /\ engine' = i.engine /\ drawn' = drawn \o i.numbers
        /\ deviates' = Append(deviates, [part |-> "value", real |-> Engine!Uniform(i.value), from |-> i.from])
  BY DEF Engine!DrawUniform
<1>3. PICK d : d = [part |-> "value", real |-> Engine!Uniform(i.value), from |-> i.from]
  OBVIOUS
<1>4. /\ draw.use = "uniform" /\ draw' = draw /\ first' = first /\ cached' = cached
  BY DEF Engine!DrawUniform
<1> HIDE DEF v
<1>5. /\ NextNumbers(engine.key, Start(draw.variant, v), Len(drawn), i.numbers)
      /\ Len(i.numbers) \in Nat /\ i.engine.key = engine.key
      /\ Handed(i.engine, v, Len(drawn) + Len(i.numbers), draw.variant)
      /\ PlacesOf(i.from) \subseteq Len(drawn) + 1 .. Len(drawn) + Len(i.numbers)
      /\ draw.variant = "single" => PlacesOf(i.from) = Len(drawn) + 1 .. Len(drawn) + Len(i.numbers)
  <2>e. PICK e : e = engine
    OBVIOUS
  <2>1. PICK n \in Nat, w \in Nat : n = Len(drawn) /\ w = v
    BY <1>1
  <2>2. i \in Engine!RandomBits(e, n) /\ Handed(e, w, n, draw.variant)
    BY <1>1, <2>e, <2>1
  <2>3. AreNext(i, e, w, n, draw.variant)
    BY <1>1, <2>2, BitsAreNext
  <2> QED
    BY <2>e, <2>1, <2>3 DEF AreNext
<1>6. StreamInv' /\ Len(drawn') = Len(drawn) + Len(i.numbers)
  BY <1>2, <1>4, <1>5, StreamGrows DEF v
<1>7. cached = Nothing
  BY <1>4 DEF UsesInv
<1>8. d.from = i.from /\ deviates' = Append(deviates, d)
  BY <1>2, <1>3
<1>9. PICK m \in Nat, n \in Nat : m = Len(i.numbers) /\ n = Len(drawn)
  BY <1>1, <1>5
<1>10. PlacesOf(d.from) \subseteq n + 1 .. n + m /\ MadeOf(deviates, n) /\ UsedOnce(deviates)
  BY <1>5, <1>8, <1>9 DEF UsesInv
<1>11. /\ MadeOf(deviates', n + m) /\ UsedOnce(deviates')
       /\ AllUsed(deviates, n) /\ PlacesOf(d.from) = n + 1 .. n + m => AllUsed(deviates', n + m)
  BY <1>8, <1>10, FreshNumbers
<1>12. Len(drawn') = n + m
  BY <1>6, <1>9
<1>13. draw.variant = "single" => AllUsed(deviates', Len(drawn'))
  <2> SUFFICES ASSUME draw.variant = "single" PROVE AllUsed(deviates', n + m)
    BY <1>12
  <2>1. AllUsed(deviates, n)
    BY <1>4, <1>9 DEF UsesInv
  <2>2. PlacesOf(d.from) = n + 1 .. n + m
    BY <1>5, <1>8, <1>9
  <2> QED
    BY <1>11, <2>1, <2>2
<1>14. UsesInv'
  BY <1>4, <1>7, <1>11, <1>12, <1>13 DEF UsesInv
<1> QED
  BY <1>6, <1>14

\* A transform keeps the invariant: the words of both its reals are fresh, and its twin is kept.
LEMMA BoxMullerStep ==
    ASSUME Engine!LegalEngine, LegalDraws, StreamInv, UsesInv, Engine!BoxMuller
    PROVE  StreamInv' /\ UsesInv'
<1> DEFINE v == Engine!Value(first)
<1>1. /\ draw.variant \in Variants /\ draw.type \in {"float", "double"} /\ v \in Nat /\ Len(drawn) \in Nat
      /\ Handed(engine, v, Len(drawn), draw.variant)
  BY EngineNow
<1>2. PICK u1 \in Engine!RandomBits(engine, Len(drawn)) :
         \E u2 \in Engine!RandomBits(u1.engine, Len(drawn) + Len(u1.numbers)) :
            LET Deviate(part) == [part |-> part, real |-> <<Engine!Uniform(u1.value), Engine!Uniform(u2.value)>>,
                                  from |-> u1.from \o u2.from]
            IN  /\ engine' = u2.engine
                /\ drawn' = drawn \o u1.numbers \o u2.numbers
                /\ engineCalls' = engineCalls + u1.calls + u2.calls
                /\ deviates' = Append(deviates, Deviate("cos"))
                /\ cached' = Deviate("sin")
  BY DEF Engine!BoxMuller
<1>3. PICK u2 \in Engine!RandomBits(u1.engine, Len(drawn) + Len(u1.numbers)) :
         LET Deviate(part) == [part |-> part, real |-> <<Engine!Uniform(u1.value), Engine!Uniform(u2.value)>>,
                               from |-> u1.from \o u2.from]
         IN  /\ engine' = u2.engine
             /\ drawn' = drawn \o u1.numbers \o u2.numbers
             /\ deviates' = Append(deviates, Deviate("cos"))
             /\ cached' = Deviate("sin")
  BY <1>2
<1>4. PICK r : r = <<Engine!Uniform(u1.value), Engine!Uniform(u2.value)>>
  OBVIOUS
<1>5. PICK places : places = u1.from \o u2.from
  OBVIOUS
<1>6. PICK cos : cos = [part |-> "cos", real |-> r, from |-> places]
  OBVIOUS
<1>7. /\ engine' = u2.engine /\ drawn' = drawn \o u1.numbers \o u2.numbers
      /\ deviates' = Append(deviates, cos) /\ cached'.part = "sin" /\ cached'.from = places
  BY <1>3, <1>4, <1>5, <1>6
<1>8. /\ draw.use = "normal" /\ draw' = draw /\ first' = first
  BY DEF Engine!BoxMuller
<1> HIDE DEF v
<1>9. PICK e : e = engine
  OBVIOUS
<1>10. PICK n \in Nat, w \in Nat : n = Len(drawn) /\ w = v
  BY <1>1
<1>11. AreNext(u1, e, w, n, draw.variant)
  <2>1. u1 \in Engine!RandomBits(e, n) /\ Handed(e, w, n, draw.variant)
    BY <1>1, <1>9, <1>10
  <2> QED
    BY <1>1, <2>1, BitsAreNext
<1>12. PICK m1 \in Nat, n1 \in Nat : m1 = Len(u1.numbers) /\ n1 = n + m1
  BY <1>11 DEF AreNext
<1>13. PICK f : f = u1.engine
  OBVIOUS
<1>14. AreNext(u2, f, w, n1, draw.variant)
  <2>1. u2 \in Engine!RandomBits(f, n1) /\ Handed(f, w, n1, draw.variant)
    BY <1>10, <1>11, <1>12, <1>13 DEF AreNext
  <2> QED
    BY <1>1, <2>1, BitsAreNext
<1>15. PICK m2 \in Nat : m2 = Len(u2.numbers)
  BY <1>14 DEF AreNext
<1>16. PICK t1, t2 : t1 = u1.numbers /\ t2 = u2.numbers
  OBVIOUS
<1>17. PICK k : k = e.key
  OBVIOUS
<1>18. PICK b \in Nat : b = Start(draw.variant, w)
  BY DEF Start
<1>19. /\ NextNumbers(k, b, n, t1) /\ NextNumbers(k, b, n + Len(t1), t2)
       /\ f.key = k /\ Len(t1) = m1 /\ Len(t2) = m2
  BY <1>11, <1>12, <1>13, <1>14, <1>15, <1>16, <1>17, <1>18 DEF AreNext
<1>20. PICK s : s = t1 \o t2
  OBVIOUS
<1>21. NextNumbers(k, b, n, s) /\ Len(s) = m1 + m2
  <2>1. NextNumbers(k, b, n, t1) /\ NextNumbers(k, b, n + Len(t1), t2)
    BY <1>19
  <2>2. NextNumbers(k, b, n, t1 \o t2) /\ Len(t1 \o t2) = Len(t1) + Len(t2)
    BY <2>1, NumbersConcat
  <2> QED
    BY <1>19, <1>20, <2>2
<1>22. drawn' = drawn \o s
  <2>1. drawn \in Seq(Engine!Word) /\ t1 \in Seq(Engine!Word) /\ t2 \in Seq(Engine!Word)
    BY <1>19 DEF NextNumbers, StreamInv
  <2>2. (drawn \o t1) \o t2 = drawn \o (t1 \o t2)
    BY <2>1, ConcatAssociative
  <2> QED
    BY <1>7, <1>16, <1>20, <2>2
<1>23. /\ engine'.key = engine.key /\ Handed(engine', v, Len(drawn) + Len(s), draw.variant)
       /\ NextNumbers(engine.key, Start(draw.variant, v), Len(drawn), s)
  <2>1. u2.engine.key = f.key /\ Handed(u2.engine, w, n1 + m2, draw.variant)
    BY <1>14, <1>15 DEF AreNext
  <2>2. n1 + m2 = n + Len(s)
    BY <1>12, <1>21
  <2> QED
    BY <1>7, <1>9, <1>10, <1>17, <1>18, <1>19, <1>21, <2>1, <2>2
<1>24. StreamInv' /\ Len(drawn') = Len(drawn) + Len(s)
  BY <1>8, <1>22, <1>23, StreamGrows DEF v
<1>25. /\ PlacesOf(places) \subseteq n + 1 .. n + (m1 + m2)
       /\ draw.variant = "single" => PlacesOf(places) = n + 1 .. n + (m1 + m2)
  <2>1. /\ u1.from \in Seq(Nat) /\ PlacesOf(u1.from) \subseteq n + 1 .. n + m1
        /\ draw.variant = "single" => PlacesOf(u1.from) = n + 1 .. n + m1
    BY <1>11, <1>12 DEF AreNext
  <2>2. /\ u2.from \in Seq(Nat) /\ PlacesOf(u2.from) \subseteq n1 + 1 .. n1 + m2
        /\ draw.variant = "single" => PlacesOf(u2.from) = n1 + 1 .. n1 + m2
    BY <1>14, <1>15 DEF AreNext
  <2>3. PlacesOf(places) = PlacesOf(u1.from) \cup PlacesOf(u2.from)
    BY <1>5, <2>1, <2>2, PlacesConcat
  <2>4. (n + 1 .. n + m1) \cup (n1 + 1 .. n1 + m2) = n + 1 .. n + (m1 + m2)
    BY <1>12
  <2> QED
    BY <2>1, <2>2, <2>3, <2>4, Zenon
<1>26. PICK m \in Nat : m = m1 + m2
  OBVIOUS
<1>27. PlacesOf(cos.from) \subseteq n + 1 .. n + m /\ MadeOf(deviates, n) /\ UsedOnce(deviates)
  BY <1>6, <1>10, <1>25, <1>26 DEF UsesInv
<1>28. /\ MadeOf(deviates', n + m) /\ UsedOnce(deviates')
       /\ AllUsed(deviates, n) /\ PlacesOf(cos.from) = n + 1 .. n + m => AllUsed(deviates', n + m)
       /\ deviates' # <<>> /\ deviates'[Len(deviates')] = cos
  <2>1. PICK ds, es : ds = deviates /\ es = deviates'
    OBVIOUS
  <2>2. /\ PlacesOf(cos.from) \subseteq n + 1 .. n + m /\ MadeOf(ds, n) /\ UsedOnce(ds)
        /\ es = Append(ds, cos)
    BY <1>7, <1>27, <2>1
  <2>3. /\ MadeOf(es, n + m) /\ UsedOnce(es)
        /\ AllUsed(ds, n) /\ PlacesOf(cos.from) = n + 1 .. n + m => AllUsed(es, n + m)
    BY <2>2, FreshNumbers
  <2>4. es # <<>> /\ es[Len(es)] = cos
    <3>1. ds \in Seq(PlacesOf(ds))
      BY <2>2 DEF MadeOf
    <3>2. IsLonger(es, ds, cos)
      BY <2>2, <3>1, AppendedAny
    <3> QED
      BY <3>2 DEF IsLonger
  <2> QED
    BY <2>1, <2>3, <2>4
<1>29. Len(drawn') = n + m
  BY <1>10, <1>21, <1>24, <1>26
<1>30. draw.variant = "single" => AllUsed(deviates', Len(drawn'))
  <2> SUFFICES ASSUME draw.variant = "single" PROVE AllUsed(deviates', n + m)
    BY <1>29
  <2>1. AllUsed(deviates, n)
    BY <1>8, <1>10 DEF UsesInv
  <2>2. PlacesOf(cos.from) = n + 1 .. n + m
    BY <1>6, <1>25, <1>26
  <2> QED
    BY <1>28, <2>1, <2>2
<1>31. cos.from = places /\ cos.part = "cos"
  BY <1>6
<1>32. UsesInv'
  BY <1>7, <1>8, <1>28, <1>29, <1>30, <1>31 DEF UsesInv
<1> QED
  BY <1>24, <1>32

\* Returning the kept deviate keeps the invariant: it follows its twin at once.
LEMMA TakeCachedStep ==
    ASSUME Engine!LegalEngine, LegalDraws, StreamInv, UsesInv, Engine!TakeCached
    PROVE  StreamInv' /\ UsesInv'
<1>1. /\ cached # Nothing /\ deviates' = Append(deviates, cached) /\ cached' = Nothing
      /\ draw' = draw /\ engine' = engine /\ first' = first /\ drawn' = drawn
  BY DEF Engine!TakeCached
<1>2. StreamInv'
  BY <1>1, StreamKept
<1>3. PICK n \in Nat : n = Len(drawn)
  BY EngineNow
<1>4. /\ MadeOf(deviates, n) /\ UsedOnce(deviates) /\ deviates # <<>>
      /\ cached.from = deviates[Len(deviates)].from /\ cached.part = "sin"
      /\ deviates[Len(deviates)].part = "cos" /\ draw.use = "normal"
  BY <1>1, <1>3 DEF UsesInv
<1>5. PICK d : d = cached
  OBVIOUS
<1>6. MadeOf(deviates', n) /\ UsedOnce(deviates') /\ (AllUsed(deviates, n) => AllUsed(deviates', n))
  <2>1. d.from = deviates[Len(deviates)].from /\ d.part = "sin"
    BY <1>4, <1>5
  <2>2. deviates' = Append(deviates, d)
    BY <1>1, <1>5
  <2> QED
    BY <1>4, <2>1, <2>2, TwinFollows
<1>7. UsesInv'
  <2>1. Len(drawn') = n /\ draw' = draw /\ cached' = Nothing
    BY <1>1, <1>3
  <2>2. draw.variant = "single" => AllUsed(deviates', n)
    BY <1>3, <1>4, <1>6 DEF UsesInv
  <2> QED
    BY <1>6, <2>1, <2>2 DEF UsesInv
<1> QED
  BY <1>2, <1>7

\* A stream begins without gaps,
LEMMA EngineInit ==
    ASSUME Engine!LegalEngine, LegalDraws, Engine!Init
    PROVE  StreamInv /\ UsesInv
<1>1. drawn = <<>> /\ deviates = <<>> /\ cached = Nothing
  BY DEF Engine!Init
<1>2. /\ draw \in Draws /\ first \in Engine!Counter
      /\ Handed(engine, Engine!Value(first), 0, draw.variant)
      /\ draw.subsequence = 0 =>
            Engine!Value(first) = 1 + IF draw.variant = "single" THEN draw.offset \div 4 ELSE draw.offset
  BY EngineBegins
<1>3. <<>> \in Seq(Engine!Word) /\ Len(<<>>) = 0 /\ DOMAIN <<>> = {} /\ <<>> \in Seq(PlacesOf(<<>>))
  OBVIOUS
<1>4. StreamInv
  BY <1>1, <1>2, <1>3 DEF StreamInv, NextNumbers
<1>5. UsesInv
  BY <1>1, <1>3 DEF UsesInv, MadeOf, UsedOnce, AllUsed
<1> QED
  BY <1>4, <1>5

\* and goes on without gaps; every deviate has fresh numbers.
LEMMA EngineStep ==
    ASSUME Engine!LegalEngine, LegalDraws, StreamInv, UsesInv, [Engine!Next]_drawVars
    PROVE  StreamInv' /\ UsesInv'
<1>1. CASE Engine!Draw
  BY <1>1, DrawStep
<1>2. CASE Engine!DrawUniform
  BY <1>2, UniformStep
<1>3. CASE Engine!BoxMuller
  BY <1>3, BoxMullerStep
<1>4. CASE Engine!TakeCached
  BY <1>4, TakeCachedStep
<1>5. CASE UNCHANGED drawVars
  <2>1. draw' = draw /\ engine' = engine /\ first' = first /\ drawn' = drawn
        /\ deviates' = deviates /\ cached' = cached
    BY <1>5 DEF drawVars
  <2>2. UsesInv'
    BY <2>1 DEF UsesInv
  <2> QED
    BY <2>1, <2>2, StreamKept
<1> QED
  BY <1>1, <1>2, <1>3, <1>4, <1>5 DEF Engine!Next

\* The words behind a real make one of the values that are converted.
LEMMA BitsAreValues ==
    ASSUME Engine!LegalEngine, draw.variant \in Variants, draw.type \in {"float", "double"},
           NEW v \in Nat, NEW n \in Nat, NEW e, Handed(e, v, n, draw.variant),
           NEW i, i \in Engine!RandomBits(e, n)
    PROVE  i.value \in 0 .. Engine!Values(draw.type) - 1
<1>1. PICK s : s = i.numbers
  OBVIOUS
<1>2. /\ s \in Seq(Engine!Word) /\ PlacesOf(i.from) \subseteq n + 1 .. n + Len(s) /\ Len(s) \in Nat
  BY <1>1, BitsAreNext DEF AreNext, NextNumbers
<1>3. PICK high \in 1 .. 2, low \in 1 .. 2 :
         /\ i.value = IF draw.type = "float" THEN s[high] ELSE Radix * s[high] + s[low]
         /\ i.from = IF draw.type = "float" THEN <<n + high>> ELSE <<n + high, n + low>>
  <2> DEFINE one == Engine!NextCall(draw.variant, e)
             two == Engine!NextCall(draw.variant, one.engine)
             At(h, l, new, after, made) ==
                [value |-> (IF draw.type = "float" THEN new[h] ELSE Radix * new[h] + new[l]),
                 from |-> IF draw.type = "float" THEN <<n + h>> ELSE <<n + h, n + l>>,
                 numbers |-> new, engine |-> after, calls |-> made]
  <2>1. \E h \in 1 .. 2, l \in 1 .. 2 : \E new, after, made : i = At(h, l, new, after, made)
    <3>1. Engine!RandomBits(e, n) =
            IF draw.type = "float" \/ draw.variant = "vector"
            THEN {At(1, 2, one.numbers, one.engine, 1)}
            ELSE {At(h, 3 - h, one.numbers \o two.numbers, two.engine, 2) : h \in 1 .. 2}
      BY DEF Engine!RandomBits
    <3> HIDE DEF one, two, At
    <3>2. CASE draw.type = "float" \/ draw.variant = "vector"
      <4>1. i = At(1, 2, one.numbers, one.engine, 1)
        BY <3>1, <3>2
      <4> QED
        BY <4>1
    <3>3. CASE ~ (draw.type = "float" \/ draw.variant = "vector")
      <4>1. PICK h \in 1 .. 2 : i = At(h, 3 - h, one.numbers \o two.numbers, two.engine, 2)
        BY <3>1, <3>3
      <4>2. 3 - h \in 1 .. 2
        OBVIOUS
      <4> QED
        BY <4>1, <4>2
    <3> QED
      BY <3>2, <3>3
  <2>2. PICK h \in 1 .. 2, l \in 1 .. 2 : \E new, after, made : i = At(h, l, new, after, made)
    BY <2>1
  <2>3. PICK new, after, made : i = At(h, l, new, after, made)
    BY <2>2
  <2>4. s = new
    BY <1>1, <2>3
  <2> QED
    BY <2>3, <2>4
<1>4. Engine!Word = 0 .. Radix - 1 /\ Radix \in Nat
  BY Words
<1>5. CASE draw.type = "float"
  <2>1. n + high \in PlacesOf(i.from)
    <3>1. i.from = <<n + high>>
      BY <1>3, <1>5
    <3> QED
      BY <3>1 DEF PlacesOf
  <2>2. high \in 1 .. Len(s)
    BY <1>2, <2>1
  <2>3. s[high] \in 0 .. Radix - 1
    BY <1>2, <1>4, <2>2
  <2> QED
    BY <1>3, <1>5, <2>3 DEF Engine!Values
<1>6. CASE draw.type = "double"
  <2>1. n + high \in PlacesOf(i.from) /\ n + low \in PlacesOf(i.from)
    <3>1. i.from = <<n + high, n + low>>
      BY <1>3, <1>6
    <3> QED
      BY <3>1 DEF PlacesOf
  <2>2. high \in 1 .. Len(s) /\ low \in 1 .. Len(s)
    BY <1>2, <2>1
  <2>3. PICK a \in 0 .. Radix - 1, b \in 0 .. Radix - 1 : a = s[high] /\ b = s[low]
    BY <1>2, <1>4, <2>2
  <2>4. a + 1 \in Nat /\ a + 1 <= Radix /\ Radix * a \in Nat
    BY <1>4
  <2>5. (a + 1) * Radix <= Radix * Radix
    BY <1>4, <2>4, ProductOrder
  <2>6. (a + 1) * Radix = Radix * a + Radix
    BY <1>4
  <2>7. PICK c \in Nat, square \in Nat : c = Radix * a /\ square = Radix * Radix
    BY <1>4, <2>4
  <2>8. c + b \in 0 .. square - 1
    BY <1>4, <2>5, <2>6, <2>7
  <2> QED
    BY <1>3, <1>6, <2>3, <2>7, <2>8 DEF Engine!Values
<1> QED
  BY <1>5, <1>6

\* A uniform real is one of its interval.
LEMMA UniformIsInInterval ==
    ASSUME Engine!LegalEngine, Engine!LegalReals, LegalDraws, draw \in Draws,
           NEW i \in 0 .. Engine!Values(draw.type) - 1
    PROVE  InInterval(draw.type, draw.interval, draw.min, draw.max, Engine!Uniform(i))
<1>1. Engine!Legal(draw) /\ Radix \in Nat
  BY Words DEF LegalDraws
<1>2. PICK type \in {"float", "double"} : type = draw.type
  BY <1>1 DEF Engine!Legal
<1>3. PICK interval \in {"co", "oc", "oo", "cc"}, fused \in BOOLEAN, min \in Int, max \in Int :
         interval = draw.interval /\ fused = draw.fused /\ min = draw.min /\ max = draw.max
  BY <1>1 DEF Engine!Legal, Engine!IsReal
<1>4. /\ min < max /\ Engine!IsReal(type, min) /\ Engine!IsReal(type, max) /\ Engine!IsReal(type, max - min)
      /\ interval = "oo" => NextAfter(Significands[type], min, max) # max
  BY <1>1, <1>2, <1>3, EngineRounds DEF Engine!Legal
<1>5. PICK p \in 0 .. PerUnit : p = Engine!IntervalAwareConversion(type, interval, fused, i)
  BY <1>1, <1>2, ConversionIsPart
<1>6. InInterval(type, interval, min, max, Engine!ScaleInterval(type, interval, fused, min, max, p))
  BY <1>4, ScalingStaysInInterval
<1> QED
  BY <1>2, <1>3, <1>5, <1>6 DEF Engine!Uniform

\* The reals a thread has drawn are in its interval.
RealsInv ==
    \A i \in DOMAIN deviates : deviates[i].part = "value" =>
        InInterval(draw.type, draw.interval, draw.min, draw.max, deviates[i].real)

LEMMA RealsKept ==
    ASSUME UsesInv, RealsInv, draw' = draw, NEW d, deviates' = Append(deviates, d),
           d.part = "value" => InInterval(draw.type, draw.interval, draw.min, draw.max, d.real)
    PROVE  RealsInv'
<1>1. PICK ds, es : ds = deviates /\ es = deviates'
  OBVIOUS
<1>2. IsLonger(es, ds, d)
  <2>1. ds \in Seq(PlacesOf(ds))
    BY <1>1 DEF UsesInv, MadeOf
  <2> QED
    BY <1>1, <2>1, AppendedAny
<1>3. ASSUME NEW i \in DOMAIN es, es[i].part = "value"
      PROVE  InInterval(draw.type, draw.interval, draw.min, draw.max, es[i].real)
  <2>1. (i \in DOMAIN ds /\ es[i] = ds[i]) \/ es[i] = d
    BY <1>2, <1>3 DEF IsLonger
  <2> QED
    BY <1>1, <1>3, <2>1 DEF RealsInv
<1> QED
  BY <1>1, <1>3 DEF RealsInv, InInterval

LEMMA RealsStep ==
    ASSUME Engine!LegalEngine, Engine!LegalReals, LegalDraws, StreamInv, UsesInv, RealsInv,
           [Engine!Next]_drawVars
    PROVE  RealsInv'
<1>1. CASE Engine!Draw
  BY <1>1 DEF Engine!Draw, RealsInv, InInterval
<1>2. CASE Engine!DrawUniform
  <2>1. PICK i \in Engine!RandomBits(engine, Len(drawn)) :
           deviates' = Append(deviates, [part |-> "value", real |-> Engine!Uniform(i.value), from |-> i.from])
    BY <1>2 DEF Engine!DrawUniform
  <2>2. PICK d : d = [part |-> "value", real |-> Engine!Uniform(i.value), from |-> i.from]
    OBVIOUS
  <2>e. PICK e : e = engine
    OBVIOUS
  <2>3. PICK n \in Nat, v \in Nat : n = Len(drawn) /\ v = Engine!Value(first)
    BY EngineNow
  <2>4. /\ draw.variant \in Variants /\ draw.type \in {"float", "double"}
        /\ Handed(e, v, n, draw.variant) /\ i \in Engine!RandomBits(e, n)
    BY <2>e, <2>3, EngineNow
  <2>5. i.value \in 0 .. Engine!Values(draw.type) - 1
    BY <2>4, BitsAreValues
  <2>6. PICK k \in 0 .. Engine!Values(draw.type) - 1 : k = i.value
    BY <2>5
  <2>7. InInterval(draw.type, draw.interval, draw.min, draw.max, Engine!Uniform(k))
    BY UniformIsInInterval DEF StreamInv
  <2>8. d.real = Engine!Uniform(k)
    BY <2>2, <2>6
  <2>9. draw' = draw
    BY <1>2 DEF Engine!DrawUniform
  <2> QED
    BY <2>1, <2>2, <2>7, <2>8, <2>9, RealsKept
<1>3. CASE Engine!BoxMuller
  <2>1. PICK r, places : deviates' = Append(deviates, [part |-> "cos", real |-> r, from |-> places])
    BY <1>3 DEF Engine!BoxMuller
  <2>2. PICK d : d = [part |-> "cos", real |-> r, from |-> places]
    OBVIOUS
  <2>3. draw' = draw /\ d.part # "value"
    BY <1>3, <2>2 DEF Engine!BoxMuller
  <2> QED
    BY <2>1, <2>2, <2>3, RealsKept
<1>4. CASE Engine!TakeCached
  <2>1. /\ draw' = draw /\ deviates' = Append(deviates, cached) /\ cached # Nothing
    BY <1>4 DEF Engine!TakeCached
  <2>2. cached.part = "sin"
    BY <2>1 DEF UsesInv
  <2>3. PICK d : d = cached
    OBVIOUS
  <2> QED
    BY <2>1, <2>2, <2>3, RealsKept
<1>5. CASE UNCHANGED drawVars
  BY <1>5 DEF drawVars, RealsInv, InInterval
<1> QED
  BY <1>1, <1>2, <1>3, <1>4, <1>5 DEF Engine!Next

\* An engine rests while another part is in motion, or is sound.
LEMMA DrawsHold ==
    MCSpec => [](DrawRuns => StreamInv /\ UsesInv /\ RealsInv)
<1> DEFINE Inv == DrawRuns => StreamInv /\ UsesInv /\ RealsInv
<1>1. Engine!LegalEngine /\ Engine!LegalReals /\ LegalDraws
  BY EngineAssumption, DrawsAssumption DEF LegalDraws
<1>2. MCInit => Inv
  <2>1. Engine!Init => StreamInv /\ UsesInv /\ RealsInv
    <3>1. Engine!Init => deviates = <<>>
      BY DEF Engine!Init
    <3> QED
      BY <1>1, <3>1, EngineInit DEF RealsInv
  <2>2. DrawIdle => ~DrawRuns
    BY DEF DrawIdle, DrawRuns
  <2> QED
    BY <2>1, <2>2 DEF MCInit
<1>3. Inv /\ [MCNext]_mcVars => Inv'
  <2> SUFFICES ASSUME Inv, [MCNext]_mcVars PROVE Inv'
    OBVIOUS
  <2>1. CASE DrawRuns /\ Engine!Next
    BY <1>1, <2>1, EngineStep, RealsStep
  <2>2. CASE UNCHANGED drawVars
    <3>1. DrawRuns' => DrawRuns
      BY <2>2 DEF drawVars, DrawRuns
    <3> QED
      BY <1>1, <2>2, <3>1, EngineStep, RealsStep
  <2> QED
    BY <2>1, <2>2 DEF MCNext, mcVars
<1> QED
  BY <1>2, <1>3, PTL DEF MCSpec

\* The numbers are those of consecutive blocks, through every carry of the counter.
LEMMA NumbersAreConsecutive ==
    ASSUME Engine!LegalEngine, LegalDraws, StreamInv
    PROVE  Engine!StreamIsConsecutive
<1>1. /\ draw.variant \in Variants /\ Engine!Value(first) \in Nat /\ Len(drawn) \in Nat
  BY EngineNow
<1>2. ASSUME NEW k \in 1 .. Len(drawn)
      PROVE  drawn[k] = Engine!NumberOf(Engine!Value(first) + (IF draw.variant = "single" THEN 0 ELSE 1), k)
  <2>1. drawn[k] = Number(engine.key, Start(draw.variant, Engine!Value(first)), 0 + k) /\ 0 + k = k
    BY <1>1 DEF StreamInv, NextNumbers
  <2>2. Start(draw.variant, Engine!Value(first))
          = Engine!Value(first) + (IF draw.variant = "single" THEN 0 ELSE 1)
    BY <1>1 DEF Start
  <2> QED
    BY <2>1, <2>2 DEF Number, Engine!NumberOf
<1> QED
  BY <1>2 DEF Engine!StreamIsConsecutive, StreamInv

\* No number of the engine is behind two deviates, save the twins of one
\* Box-Muller transform, and a single engine's numbers are all used.
LEMMA NumbersAreUsedOnce ==
    ASSUME StreamInv, UsesInv
    PROVE  Engine!DrawsAreUsedOnce
<1>1. \A d : Engine!Places(d) = PlacesOf(d.from)
  BY DEF Engine!Places, PlacesOf
<1>2. \A i, k \in DOMAIN deviates :
         i < k /\ Engine!Places(deviates[i]) \cap Engine!Places(deviates[k]) # {} =>
            /\ k = i + 1 /\ deviates[i].from = deviates[k].from
            /\ deviates[i].part = "cos" /\ deviates[k].part = "sin"
  BY <1>1 DEF UsesInv, UsedOnce
<1>3. ASSUME draw.variant = "single", draw.use \in {"uniform", "normal"}
      PROVE  UNION {Engine!Places(deviates[i]) : i \in DOMAIN deviates} = DOMAIN drawn
  <2>1. DOMAIN drawn = 1 .. Len(drawn)
    BY DEF StreamInv, NextNumbers
  <2>2. AllUsed(deviates, Len(drawn)) /\ MadeOf(deviates, Len(drawn))
    BY <1>3 DEF UsesInv
  <2> QED
    BY <1>1, <2>1, <2>2 DEF AllUsed, MadeOf
<1> QED
  BY <1>2, <1>3 DEF Engine!DrawsAreUsedOnce

\* Whatever the width of the words, the number of rounds and the arguments of the
\* constructor: the numbers of an engine are those of consecutive blocks, none
\* twice and none left out, through every carry of the counter; different counters
\* give different blocks; and every deviate has numbers of its own.
THEOREM StreamOfNumbers ==
    MCSpec => []StreamIsConsecutive
<1>1. Engine!LegalEngine /\ LegalDraws
  BY EngineAssumption, DrawsAssumption DEF LegalDraws
<1>2. StreamInv => Engine!BlocksAreDistinct
  <2> SUFFICES ASSUME StreamInv PROVE Engine!BlocksAreDistinct
    OBVIOUS
  <2>1. engine \in SingleEngine \/ engine \in VectorEngine
    BY <1>1, EngineNow DEF Handed, Variants
  <2>2. engine.key \in Engine!Key
    BY <2>1 DEF SingleEngine, VectorEngine
  <2>3. Cardinality({Engine!NRounds(c, engine.key) : c \in Engine!Counter}) = Cardinality(Engine!Counter)
    BY <1>1, <2>2, BlocksAreCounted
  <2>4. /\ Engine!Cardinality(Engine!Counter) = Cardinality(Engine!Counter)
        /\ Engine!Cardinality({Engine!NRounds(c, engine.key) : c \in Engine!Counter})
             = Cardinality({Engine!NRounds(c, engine.key) : c \in Engine!Counter})
    BY Zenon DEF Engine!Cardinality, Cardinality
  <2> QED
    BY <2>3, <2>4, Zenon DEF Engine!BlocksAreDistinct
<1>3. (DrawRuns => StreamInv /\ UsesInv /\ RealsInv) => StreamIsConsecutive
  BY <1>1, <1>2, NumbersAreConsecutive, NumbersAreUsedOnce DEF StreamIsConsecutive
<1> QED
  BY <1>3, DrawsHold, PTL

\* For all numbers of significands, intervals and bounds, and whether or not
\* products are fused with sums: a uniform real is between the bounds, off the open
\* ones, and can be represented.
THEOREM UniformRealsAreInside ==
    MCSpec => []UniformStaysInInterval
<1>1. RealsInv => Engine!UniformStaysInInterval
  BY DEF RealsInv, InInterval, Engine!UniformStaysInInterval
<1>2. (DrawRuns => StreamInv /\ UsesInv /\ RealsInv) => UniformStaysInInterval
  BY <1>1 DEF UniformStaysInInterval
<1> QED
  BY <1>2, DrawsHold, PTL

-----------------------------------------------------------------------------
(***************************************************************************)
(* Warp.                                                                    *)
(***************************************************************************)

\* Modulo twice a number there are two classes for every one modulo the number.
LEMMA ClassesHalve ==
    ASSUME NEW a \in Nat \ {0}, NEW m \in Nat, NEW l \in Nat, l < a
    PROVE  m % a = l <=> m % (2 * a) = l \/ m % (2 * a) = l + a
<1> DEFINE q == m \div (2 * a)
           r == m % (2 * a)
<1>0. 2 * a \in Nat \ {0}
  OBVIOUS
<1>1. q \in Nat /\ r \in Nat /\ r < 2 * a /\ m = (2 * a) * q + r
  BY <1>0, Division
<1> HIDE DEF q, r
<1>2. CASE r < a
  <2>1. m = a * (2 * q) + r
    BY <1>1
  <2>2. m % a = r
    BY <1>1, <1>2, <2>1, Quotient
  <2> QED
    BY <1>1, <1>2, <2>2 DEF r
<1>3. CASE r >= a
  <2>1. m = a * (2 * q + 1) + (r - a) /\ r - a \in Nat /\ r - a < a
    BY <1>1, <1>3
  <2>2. 2 * q + 1 \in Nat
    BY <1>1
  <2>3. PICK p \in Nat, s \in Nat : p = 2 * q + 1 /\ s = r - a
    BY <2>1, <2>2
  <2>4. m % a = r - a
    BY <2>1, <2>3, Quotient
  <2> QED
    BY <1>1, <1>3, <2>4 DEF r
<1> QED
  BY <1>1, <1>2, <1>3

\* Where a group of lanes starts, and which of the group a lane is.
LEMMA Groups ==
    ASSUME NEW w \in Nat \ {0}, NEW l \in Nat
    PROVE  /\ (l \div w) * w \in Nat /\ l % w \in Nat /\ l % w < w
           /\ l = (l \div w) * w + (l % w)
<1> QED
  BY Division

\* A lane behind its group has a greater quotient.
LEMMA BehindGroup ==
    ASSUME NEW w \in Nat \ {0}, NEW l \in Nat, NEW m \in Nat
    PROVE  m \div w > l \div w <=> m >= (l \div w) * w + w
<1> DEFINE p == m \div w
           q == l \div w
           r == m % w
<1>1. p \in Nat /\ q \in Nat /\ r \in Nat /\ r < w /\ m = w * p + r
  BY Division
<1> HIDE DEF p, q, r
<1>2. ASSUME p > q PROVE m >= q * w + w
  <2>1. (p - q - 1) * w \in Nat
    BY <1>1, <1>2
  <2>2. w * p = (p - q - 1) * w + q * w + w
    BY <1>1
  <2> QED
    BY <1>1, <2>1, <2>2
<1>3. ASSUME ~ (p > q) PROVE m < q * w + w
  <2>1. (q - p) * w \in Nat
    BY <1>1, <1>3
  <2>2. q * w = (q - p) * w + w * p
    BY <1>1
  <2> QED
    BY <1>1, <2>1, <2>2
<1>4. p > q <=> m >= q * w + w
  <2>1. q * w + w \in Nat
    BY <1>1
  <2> QED
    BY <1>1, <1>2, <1>3, <2>1
<1> QED
  BY <1>4 DEF p, q

\* An exclusive or of lanes is a natural.
LEMMA XorIsNatural ==
    ASSUME NEW a \in Nat, NEW b \in Nat
    PROVE  Warps!Xor(a, b) \in Nat
<1>1. ASSUME NEW k \in Nat \ {0} PROVE Warps!Differs(a, b, k) \in Nat
  <2>1. a \div k \in Nat /\ b \div k \in Nat
    BY Division
  <2> QED
    BY <2>1 DEF Warps!Differs
<1> QED
  BY <1>1 DEF Warps!Xor

\* An exclusive or that changes bits within a group of lanes stays in the group.
LEMMA XorWithinGroup ==
    ASSUME NEW w \in Warps!Sizes, NEW q \in Nat, NEW r \in Nat, NEW b \in Nat,
           r < w, b < w, w * q + r < 64
    PROVE  Warps!Xor(w * q + r, b) = w * q + Warps!Xor(r, b) /\ Warps!Xor(r, b) < w
<1>1. ASSUME r < 1, b < 1, 1 * q + r < 64
      PROVE  Warps!Xor(1 * q + r, b) = 1 * q + Warps!Xor(r, b) /\ Warps!Xor(r, b) < 1
  BY <1>1, SMTT(60) DEF Warps!Differs, Warps!Xor
<1>2. ASSUME r < 2, b < 2, 2 * q + r < 64
      PROVE  Warps!Xor(2 * q + r, b) = 2 * q + Warps!Xor(r, b) /\ Warps!Xor(r, b) < 2
  BY <1>2, SMTT(60) DEF Warps!Differs, Warps!Xor
<1>3. ASSUME r < 4, b < 4, 4 * q + r < 64
      PROVE  Warps!Xor(4 * q + r, b) = 4 * q + Warps!Xor(r, b) /\ Warps!Xor(r, b) < 4
  BY <1>3, SMTT(60) DEF Warps!Differs, Warps!Xor
<1>4. ASSUME r < 8, b < 8, 8 * q + r < 64
      PROVE  Warps!Xor(8 * q + r, b) = 8 * q + Warps!Xor(r, b) /\ Warps!Xor(r, b) < 8
  BY <1>4, SMTT(60) DEF Warps!Differs, Warps!Xor
<1>5. ASSUME r < 16, b < 16, 16 * q + r < 64
      PROVE  Warps!Xor(16 * q + r, b) = 16 * q + Warps!Xor(r, b) /\ Warps!Xor(r, b) < 16
  BY <1>5, SMTT(60) DEF Warps!Differs, Warps!Xor
<1>6. ASSUME r < 32, b < 32, 32 * q + r < 64
      PROVE  Warps!Xor(32 * q + r, b) = 32 * q + Warps!Xor(r, b) /\ Warps!Xor(r, b) < 32
  BY <1>6, SMTT(60) DEF Warps!Differs, Warps!Xor
<1>7. ASSUME r < 64, b < 64, 64 * q + r < 64
      PROVE  Warps!Xor(64 * q + r, b) = 64 * q + Warps!Xor(r, b) /\ Warps!Xor(r, b) < 64
  BY <1>7, SMTT(60) DEF Warps!Differs, Warps!Xor
<1> QED
  BY <1>1, <1>2, <1>3, <1>4, <1>5, <1>6, <1>7 DEF Warps!Sizes

\* What an exchange reads from is the lane the comments name, if that one takes part.
LEMMA SourceIsDocumented ==
    ASSUME Warps!Legal(warp), NEW c, Warps!IsCall(warp.size, c), c.op \in Warps!Exchanges,
           ~ Warps!Excepted(c), NEW l \in warp.active, Warps!Documented(c, l) \in warp.active
    PROVE  Warps!Source(c, l) = Warps!Documented(c, l)
<1> DEFINE w == Warps!Width(c)
           start == (l \div w) * w
<1>1. /\ warp.size \in Warps!Sizes /\ warp.size \in Nat \ {0} /\ warp.size <= 64
      /\ w \in Warps!Sizes /\ w \in Nat \ {0} /\ w <= warp.size
  BY DEF Warps!Legal, Warps!IsCall, Warps!Votes, Warps!Exchanges, Warps!Width, Warps!Sizes
<1>2. l \in Nat /\ l < warp.size /\ c.arg \in Nat
  BY <1>1 DEF Warps!Legal, Warps!IsCall, Warps!Votes, Warps!Exchanges
<1>3. start \in Nat /\ l % w \in Nat /\ l % w < w /\ l = start + (l % w) /\ start = w * (l \div w)
  <2>1. PICK v \in Nat \ {0} : v = w
    BY <1>1
  <2>2. l \div v \in Nat
    BY <1>2, Division
  <2>3. (l \div v) * v = v * (l \div v)
    BY <2>2
  <2>4. (l \div v) * v \in Nat /\ l % v \in Nat /\ l % v < v /\ l = (l \div v) * v + (l % v)
    BY <1>2, Groups
  <2> QED
    BY <2>1, <2>3, <2>4
<1>4. CASE warp.api = "host"
  BY <1>2, <1>4 DEF Warps!Legal, Warps!Source
<1>5. CASE warp.api \in {"cuda", "hip"}
  <2>1. Warps!Source(c, l) = Warps!NativeSource(c, l)
    BY <1>5 DEF Warps!Source
  <2>2. CASE c.op = "xor"
    <3>1. PICK x \in Nat : x = Warps!Xor(l, c.arg)
      BY <1>2, XorIsNatural
    <3>2. x \div w > l \div w <=> x >= start + w
      BY <1>1, <1>2, BehindGroup
    <3>3. /\ Warps!NativeSource(c, l) = IF x < start + w THEN x ELSE l
          /\ Warps!Documented(c, l) = IF x \div w > l \div w THEN l ELSE x
      BY <2>2, <3>1 DEF Warps!NativeSource, Warps!Documented
    <3>4. x < start + w <=> ~ (x >= start + w)
      BY <1>1, <1>3
    <3> HIDE DEF w, start
    <3> QED
      BY <2>1, <3>2, <3>3, <3>4
  <2>3. CASE c.op \in {"shfl", "down", "up"}
    <3>1. /\ Warps!NativeSource(c, l) = CASE c.op = "shfl" -> start + (c.arg % w)
                                         [] c.op = "down" -> IF l - start + c.arg < w THEN l + c.arg ELSE l
                                         [] c.op = "up" -> IF l - start >= c.arg THEN l - c.arg ELSE l
          /\ Warps!Documented(c, l) = CASE c.op = "shfl" -> w * (l \div w) + (c.arg % w)
                                        [] c.op = "down" -> IF (l % w) + c.arg < w THEN l + c.arg ELSE l
                                        [] c.op = "up" -> IF l % w >= c.arg THEN l - c.arg ELSE l
      BY <2>3 DEF Warps!NativeSource, Warps!Documented
    <3>2. l - start = l % w
      BY <1>2, <1>3
    <3> HIDE DEF w, start
    <3> QED
      BY <1>3, <2>1, <2>3, <3>1, <3>2
  <2> QED
    BY <2>2, <2>3 DEF Warps!Exchanges
<1>6. CASE warp.api \in {"sycl", "syclAmd"}
  <2>1. Warps!Source(c, l) = Warps!SyclSource(c, l)
    BY <1>6 DEF Warps!Source
  <2>2. CASE c.op = "xor"
    <3>1. c.arg < w
      BY <1>1, <1>2, <1>6, <2>2 DEF Warps!Excepted
    <3>2. PICK q \in Nat, r \in Nat : q = l \div w /\ r = l % w
      BY <1>1, <1>2, Division
    <3>3. r < w /\ w * q + r = l /\ l < 64
      <4> HIDE DEF w
      <4> QED
        BY <1>1, <1>2, <1>3, <3>2
    <3>4. /\ Warps!Xor(l, c.arg) = w * q + Warps!Xor(r, c.arg)
          /\ Warps!Xor(r, c.arg) < w
      BY <1>1, <1>2, <3>1, <3>3, XorWithinGroup
    <3>5. PICK x \in Nat : x = Warps!Xor(r, c.arg)
      BY <1>2, <3>2, XorIsNatural
    <3>6. l - start = r
      BY <1>2, <1>3, <3>2
    <3>7. Warps!SyclSource(c, l) = start + x
      BY <2>2, <3>4, <3>5, <3>6 DEF Warps!SyclSource
    <3>8. start = w * q
      BY <1>3, <3>2
    <3>9. w * q + x \in Nat /\ ~ ((w * q + x) \div w > q)
      BY <1>1, <3>2, <3>4, <3>5, Quotient
    <3>10. Warps!Documented(c, l) = start + x
      BY <2>2, <3>2, <3>4, <3>5, <3>8, <3>9 DEF Warps!Documented
    <3> QED
      BY <2>1, <3>7, <3>10
  <2>3. CASE c.op \in {"shfl", "down", "up"}
    <3>1. /\ Warps!SyclSource(c, l) = CASE c.op = "shfl" -> start + (c.arg % w)
                                       [] c.op = "down" -> IF l + c.arg >= start + w THEN l ELSE l + c.arg
                                       [] c.op = "up" -> IF l - start < c.arg THEN l ELSE l - c.arg
          /\ Warps!Documented(c, l) = CASE c.op = "shfl" -> w * (l \div w) + (c.arg % w)
                                        [] c.op = "down" -> IF (l % w) + c.arg < w THEN l + c.arg ELSE l
                                        [] c.op = "up" -> IF l % w >= c.arg THEN l - c.arg ELSE l
      BY <2>3 DEF Warps!SyclSource, Warps!Documented
    <3> HIDE DEF w, start
    <3> QED
      BY <1>1, <1>2, <1>3, <2>1, <2>3, <3>1
  <2> QED
    BY <2>2, <2>3 DEF Warps!Exchanges
<1> QED
  BY <1>4, <1>5, <1>6 DEF Warps!Legal

\* A vote counts the lanes that take part.
LEMMA VotesAreDocumented ==
    ASSUME Warps!Legal(warp), NEW c, c.op \in Warps!Votes, ~ Warps!Excepted(c)
    PROVE  Warps!Voted(c) = Warps!DocumentedVote(c)
<1>1. CASE warp.api = "host"
  <2>1. warp.active = {0}
    BY <1>1 DEF Warps!Legal
  <2> QED
    BY <1>1, <2>1 DEF Warps!Voted, Warps!DocumentedVote, Warps!All, Warps!Any, Warps!Ballot,
                      Warps!Activemask, Warps!Votes
<1>2. CASE warp.api # "host"
  <2>1. Warps!Activemask = warp.active
    BY <1>2 DEF Warps!Activemask
  <2>2. CASE c.op = "all"
    <3>1. Warps!All(c) <=> warp.active \subseteq c.predicate
      BY <1>2, <2>1, <2>2 DEF Warps!All, Warps!Excepted, Warps!Ballot
    <3> QED
      BY <2>2, <3>1 DEF Warps!Voted, Warps!DocumentedVote, Warps!All
  <2>3. CASE c.op = "any"
    <3>1. Warps!Any(c) <=> warp.active \cap c.predicate # {}
      BY <1>2, <2>1, <2>3 DEF Warps!Any, Warps!Ballot
    <3> QED
      BY <2>3, <3>1 DEF Warps!Voted, Warps!DocumentedVote, Warps!Any
  <2>4. CASE c.op \in {"ballot", "activemask"}
    BY <2>1, <2>4 DEF Warps!Voted, Warps!DocumentedVote, Warps!Ballot
  <2> QED
    BY <2>2, <2>3, <2>4 DEF Warps!Votes
<1> QED
  BY <1>1, <1>2

-----------------------------------------------------------------------------
(***************************************************************************)
(* The invariant: before its only call a lane has its own value; of a sum   *)
(* that shifts by half of s next, a lane below s has added up the lanes that *)
(* are congruent to it modulo s.                                            *)
(***************************************************************************)
Shift == IF step > Len(warp.program) THEN 1 ELSE 2 * warp.program[step].arg

Congruent(s, l) == [m \in Warps!Lane |-> IF m % s = l THEN 1 ELSE 0]

Lanes == /\ warp \in WarpJobs
         /\ step \in 1 .. (Len(warp.program) + 1)
         /\ held \in [Warps!Lane -> [Warps!Lane -> Int]]

OwnFirst == step = 1 => \A l \in Warps!Lane : held[l] = [Warps!NoBag EXCEPT ![l] = 1]

PartialSums == Warps!Sums => /\ Shift \in 1 .. warp.size
                             /\ \A l \in 0 .. (Shift - 1) : held[l] = Congruent(Shift, l)

WarpInv == Lanes /\ OwnFirst /\ PartialSums /\ Warps!CallsAreExact

\* What the assumption says of the warp at hand.
LEMMA WarpIsLegal ==
    ASSUME Lanes
    PROVE  /\ Warps!Legal(warp)
           /\ warp.size \in Nat \ {0}
           /\ warp.program \in Seq({warp.program[i] : i \in DOMAIN warp.program})
           /\ DOMAIN warp.program = 1 .. Len(warp.program) /\ Len(warp.program) \in Nat
           /\ \A i \in DOMAIN warp.program : Warps!IsCall(warp.size, warp.program[i])
           /\ warp.active \subseteq Warps!Lane
           /\ Warps!Lane = 0 .. (warp.size - 1)
           /\ Warps!Sums => Warps!IsSum(warp)
<1>1. Warps!Legal(warp)
  BY WarpJobsAssumption DEF Lanes
<1>2. warp.program \in Seq({warp.program[i] : i \in DOMAIN warp.program})
  BY <1>1 DEF Warps!Legal
<1>3. DOMAIN warp.program = 1 .. Len(warp.program) /\ Len(warp.program) \in Nat
  BY <1>2
<1> QED
  BY <1>1, <1>2, <1>3 DEF Warps!Legal, Warps!Lane, Warps!Sizes, Warps!Sums

\* A warp begins soundly: every lane holds its own value.
LEMMA WarpInit ==
    ASSUME Warps!Init
    PROVE  WarpInv
<1>1. /\ warp \in WarpJobs /\ step = 1
      /\ held = [l \in Warps!Lane |-> [Warps!NoBag EXCEPT ![l] = 1]]
  BY DEF Warps!Init
<1>2. warp.program \in Seq({warp.program[i] : i \in DOMAIN warp.program})
  BY <1>1, WarpJobsAssumption DEF Warps!Legal
<1>3. Lanes
  <2>1. \A l \in Warps!Lane : [Warps!NoBag EXCEPT ![l] = 1] \in [Warps!Lane -> Int]
    BY DEF Warps!NoBag
  <2> QED
    BY <1>1, <1>2, <2>1 DEF Lanes
<1>4. OwnFirst
  BY <1>1 DEF OwnFirst
<1>5. ASSUME Warps!Sums PROVE PartialSums
  <2>1. /\ Len(warp.program) >= 1 /\ 2 * warp.program[1].arg = warp.size
        /\ Warps!Lane = 0 .. (warp.size - 1) /\ warp.size \in Nat \ {0}
    BY <1>3, <1>5, WarpIsLegal DEF Warps!Sums, Warps!Adds, Warps!IsSum
  <2>2. Shift = warp.size
    BY <1>1, <2>1, <1>3, WarpIsLegal DEF Shift
  <2>3. ASSUME NEW l \in 0 .. (Shift - 1) PROVE held[l] = Congruent(Shift, l)
    <3>1. \A m \in Warps!Lane : m % warp.size = m
      <4>1. ASSUME NEW m \in Nat, NEW n \in Nat \ {0}, m < n PROVE m % n = m
        BY <4>1
      <4> QED
        BY <2>1, <4>1
    <3> QED
      BY <1>1, <2>1, <2>2, <3>1 DEF Congruent, Warps!NoBag
  <2> QED
    BY <2>1, <2>2, <2>3 DEF PartialSums
<1>6. Warps!CallsAreExact
  BY <1>1 DEF Warps!CallsAreExact, Warps!Returned
<1> QED
  BY <1>3, <1>4, <1>5, <1>6 DEF WarpInv, PartialSums

\* The next call and the ones behind it.
LEMMA NextCall ==
    ASSUME Lanes, step <= Len(warp.program)
    PROVE  /\ step \in DOMAIN warp.program /\ Warps!Call = warp.program[step]
           /\ Warps!IsCall(warp.size, Warps!Call)
           /\ step + 1 \in 1 .. (Len(warp.program) + 1)
  BY WarpIsLegal DEF Lanes, Warps!Call

\* A vote changes nothing but what is returned.
LEMMA VoteStep ==
    ASSUME WarpInv, Warps!Vote
    PROVE  WarpInv'
<1> DEFINE c == Warps!Call
<1>1. /\ step <= Len(warp.program) /\ c.op \in Warps!Votes /\ step' = step + 1
      /\ warp' = warp /\ held' = held
      /\ answer' = [l \in Warps!Lane |-> IF l \in warp.active THEN Warps!Voted(c) ELSE answer[l]]
  BY DEF Warps!Vote, Warps!Running
<1>2. Lanes
  BY DEF WarpInv
<1>3. Lanes'
  BY <1>1, <1>2, NextCall DEF Lanes, Warps!Lane
<1>4. ~ Warps!Sums
  <2>1. ASSUME Warps!Sums PROVE FALSE
    <3>1. c.op = "down"
      BY <1>1, <1>2, <2>1, WarpIsLegal, NextCall DEF Warps!IsSum
    <3> QED
      BY <1>1, <3>1 DEF Warps!Votes
  <2> QED
    BY <2>1
<1>5. PartialSums'
  BY <1>1, <1>4 DEF PartialSums, Warps!Sums
<1>6. OwnFirst'
  BY <1>1, <1>2 DEF OwnFirst, Lanes
<1>7. Warps!CallsAreExact'
  <2> SUFFICES ASSUME Warps!Returned', ~ Warps!Excepted(warp.program[1])' PROVE Warps!IsExact(warp.program[1])'
    BY DEF Warps!CallsAreExact
  <2>1. step = 1 /\ c = warp.program[1]
    BY <1>1, <1>2, NextCall DEF Warps!Returned, Lanes
  <2>2. ~ Warps!Excepted(c)
    BY <1>1, <2>1 DEF Warps!Excepted, Warps!Width
  <2>3. Warps!Voted(c) = Warps!DocumentedVote(c)
    BY <1>1, <1>2, <2>2, WarpIsLegal, VotesAreDocumented
  <2>4. \A l \in warp.active : answer'[l] = Warps!DocumentedVote(c)
    BY <1>1, <1>2, <2>3, WarpIsLegal
  <2> QED
    BY <1>1, <2>1, <2>4 DEF Warps!IsExact, Warps!DocumentedVote
<1> QED
  BY <1>3, <1>5, <1>6, <1>7 DEF WarpInv

\* Adding what lies half a shift up joins two classes to one.
LEMMA SumStep ==
    ASSUME WarpInv, Warps!Exchange, Warps!Sums, Lanes'
    PROVE  PartialSums'
<1> DEFINE c == Warps!Call
           a == c.arg
<1>1. /\ step <= Len(warp.program) /\ step' = step + 1 /\ warp' = warp
      /\ held' = [l \in Warps!Lane |-> IF l \notin warp.active THEN held[l]
                                       ELSE IF c.add THEN Warps!Added(held[l], Warps!Exchanged(c, l))
                                       ELSE Warps!Exchanged(c, l)]
  BY DEF Warps!Exchange, Warps!Running
<1>2. Lanes /\ PartialSums
  BY DEF WarpInv
<1>3. step \in DOMAIN warp.program /\ c = warp.program[step] /\ step \in Nat
  BY <1>1, <1>2, NextCall DEF Lanes
<1>4. /\ Warps!Lane = 0 .. (warp.size - 1) /\ warp.active = Warps!Lane /\ warp.size \in Nat \ {0}
      /\ c.op = "down" /\ c.add /\ c.width = 0
  BY <1>2, <1>3, WarpIsLegal DEF Warps!IsSum
<1>5. Shift = 2 * a /\ a \in Nat \ {0} /\ 2 * a <= warp.size
  <2>1. Shift = 2 * a
    BY <1>1, <1>2, <1>3, WarpIsLegal DEF Shift
  <2>2. a \in Nat
    BY <1>1, <1>2, <1>4, NextCall DEF Warps!IsCall, Warps!Votes
  <2> QED
    BY <1>2, <1>4, <2>1, <2>2 DEF PartialSums
<1>6. Shift' = a
  <2>1. CASE step = Len(warp.program)
    BY <1>1, <1>2, <1>3, <2>1, WarpIsLegal DEF Shift, Warps!IsSum
  <2>2. CASE step < Len(warp.program)
    <3>1. step + 1 \in 2 .. Len(warp.program) /\ ~ (step + 1 > Len(warp.program)) /\ (step + 1) - 1 = step
      BY <1>2, <1>3, <2>2, WarpIsLegal
    <3>2. 2 * warp.program[step + 1].arg = a
      BY <1>2, <1>3, <3>1, WarpIsLegal DEF Warps!IsSum
    <3> QED
      BY <1>1, <3>1, <3>2 DEF Shift
  <2> QED
    BY <1>1, <1>2, <1>3, <2>1, <2>2, WarpIsLegal
<1>7. ASSUME NEW l \in 0 .. (a - 1) PROVE held'[l] = Congruent(a, l)
  <2>1. /\ l \in Warps!Lane /\ l + a \in Warps!Lane /\ l \in 0 .. (Shift - 1) /\ l + a \in 0 .. (Shift - 1)
        /\ l \in Nat /\ l < a
    BY <1>4, <1>5
  <2>2. Warps!Source(c, l) = l + a
    <3>1. Warps!Width(c) = warp.size
      BY <1>4 DEF Warps!Width
    <3>2. l \div warp.size = 0
      <4>1. l < warp.size
        BY <1>4, <2>1
      <4>2. ASSUME NEW n \in Nat \ {0}, l < n PROVE l \div n = 0
        BY <2>1, <4>2
      <4> QED
        BY <1>4, <4>1, <4>2
    <3>3. 0 * warp.size = 0
      BY <1>4
    <3>4. l - 0 + a < warp.size /\ ~ (l + a >= 0 + warp.size)
      BY <1>4, <1>5, <2>1
    <3>5. warp.api # "host"
      BY <1>2, <1>5, WarpIsLegal DEF Warps!Legal
    <3>6. Warps!NativeSource(c, l) = l + a
      BY <1>4, <3>1, <3>2, <3>3, <3>4 DEF Warps!NativeSource
    <3>7. Warps!SyclSource(c, l) = l + a
      BY <1>4, <3>1, <3>2, <3>3, <3>4 DEF Warps!SyclSource
    <3>8. warp.api \in {"cuda", "hip", "sycl", "syclAmd"}
      BY <1>2, <3>5, WarpIsLegal DEF Warps!Legal
    <3> QED
      BY <3>5, <3>6, <3>7, <3>8 DEF Warps!Source
  <2>3. held'[l] = Warps!Added(held[l], held[l + a])
    BY <1>1, <1>4, <2>1, <2>2 DEF Warps!Exchanged
  <2>4. held[l] = Congruent(2 * a, l) /\ held[l + a] = Congruent(2 * a, l + a)
    BY <1>2, <1>5, <2>1 DEF PartialSums
  <2>5. ASSUME NEW m \in Warps!Lane
        PROVE  (IF m % (2 * a) = l THEN 1 ELSE 0) + (IF m % (2 * a) = l + a THEN 1 ELSE 0)
                   = (IF m % a = l THEN 1 ELSE 0)
    <3>1. m % a = l <=> m % (2 * a) = l \/ m % (2 * a) = l + a
      <4>1. m \in Nat /\ a \in Nat \ {0} /\ l \in Nat /\ l < a
        BY <1>4, <1>5, <2>1
      <4> HIDE DEF a
      <4> QED
        BY <4>1, ClassesHalve
    <3>2. l # l + a
      BY <1>5, <2>1
    <3> QED
      BY <3>1, <3>2
  <2> HIDE DEF a
  <2> QED
    BY <2>3, <2>4, <2>5 DEF Congruent, Warps!Added
<1>8. ASSUME NEW l PROVE Congruent(Shift, l)' = Congruent(a, l)
  BY <1>1, <1>6 DEF Congruent, Warps!Lane
<1>9. Shift' \in 1 .. warp.size'
  BY <1>1, <1>4, <1>5, <1>6
<1>10. \A l \in 0 .. (Shift' - 1) : held'[l] = Congruent(Shift, l)'
  BY <1>6, <1>7, <1>8
<1> QED
  BY <1>9, <1>10 DEF PartialSums

\* An exchange hands out values as documented; in a sum it halves the shift.
LEMMA ExchangeStep ==
    ASSUME WarpInv, Warps!Exchange
    PROVE  WarpInv'
<1> DEFINE c == Warps!Call
<1>1. /\ step <= Len(warp.program) /\ c.op \in Warps!Exchanges /\ step' = step + 1
      /\ warp' = warp /\ answer' = answer
      /\ held' = [l \in Warps!Lane |-> IF l \notin warp.active THEN held[l]
                                       ELSE IF c.add THEN Warps!Added(held[l], Warps!Exchanged(c, l))
                                       ELSE Warps!Exchanged(c, l)]
  BY DEF Warps!Exchange, Warps!Running
<1>2. Lanes
  BY DEF WarpInv
<1>3. Lanes'
  <2>1. ASSUME NEW l \in Warps!Lane PROVE Warps!Exchanged(c, l) \in [Warps!Lane -> Int]
    BY <1>2, WarpIsLegal DEF Warps!Exchanged, Warps!Unspecified, Lanes
  <2>2. ASSUME NEW f \in [Warps!Lane -> Int], NEW g \in [Warps!Lane -> Int]
        PROVE  Warps!Added(f, g) \in [Warps!Lane -> Int]
    BY DEF Warps!Added
  <2>3. held' \in [Warps!Lane -> [Warps!Lane -> Int]]
    <3>1. ASSUME NEW l \in Warps!Lane PROVE held[l] \in [Warps!Lane -> Int]
      BY <1>2 DEF Lanes
    <3> QED
      BY <1>1, <2>1, <2>2, <3>1
  <2> QED
    BY <1>1, <1>2, <2>3, NextCall DEF Lanes, Warps!Lane
<1>4. OwnFirst'
  BY <1>1, <1>2 DEF OwnFirst, Lanes
<1>5. PartialSums'
  <2>1. CASE Warps!Sums
    BY <1>3, <2>1, SumStep
  <2>2. CASE ~ Warps!Sums
    BY <1>1, <2>2 DEF PartialSums, Warps!Sums
  <2> QED
    BY <2>1, <2>2
<1>6. Warps!CallsAreExact'
  <2> SUFFICES ASSUME Warps!Returned', ~ Warps!Excepted(warp.program[1])' PROVE Warps!IsExact(warp.program[1])'
    BY DEF Warps!CallsAreExact
  <2>1. step = 1 /\ c = warp.program[1] /\ 1 \in DOMAIN warp.program
    BY <1>1, <1>2, NextCall DEF Warps!Returned, Lanes
  <2>2. ~ Warps!Excepted(c)
    BY <1>1, <2>1 DEF Warps!Excepted, Warps!Width
  <2>3. ~ c.add
    BY <1>1, <2>1 DEF Warps!Returned, Warps!Sums, Warps!Adds
  <2>4. ASSUME NEW l \in warp.active, Warps!Documented(c, l) \in warp.active
        PROVE  held'[l] = [Warps!NoBag EXCEPT ![Warps!Documented(c, l)] = 1]
    <3>1. Warps!Source(c, l) = Warps!Documented(c, l)
      BY <1>1, <1>2, <2>2, <2>4, WarpIsLegal, NextCall, SourceIsDocumented
    <3>2. held'[l] = held[Warps!Documented(c, l)]
      BY <1>1, <1>2, <2>3, <2>4, <3>1, WarpIsLegal DEF Warps!Exchanged
    <3> QED
      BY <1>2, <2>1, <2>4, <3>2, WarpIsLegal DEF WarpInv, OwnFirst
  <2>5. c.op \notin Warps!Votes
    BY <1>1 DEF Warps!Votes, Warps!Exchanges
  <2>6. warp.program[1]' = c /\ Warps!NoBag' = Warps!NoBag
    BY <1>1, <2>1 DEF Warps!NoBag, Warps!Lane
  <2>7. ASSUME NEW l PROVE Warps!Documented(warp.program[1], l)' = Warps!Documented(c, l)
    BY <1>1, <2>1 DEF Warps!Documented, Warps!Width
  <2> HIDE DEF c
  <2>8. ASSUME NEW l \in warp.active', ~ (warp.program[1]'.op \in Warps!Votes),
               Warps!Documented(warp.program[1], l)' \in warp.active'
        PROVE  held'[l] = [Warps!NoBag' EXCEPT ![Warps!Documented(warp.program[1], l)'] = 1]
    BY <1>1, <2>4, <2>6, <2>7, <2>8
  <2> QED
    BY <2>5, <2>6, <2>8, Zenon DEF Warps!IsExact
<1> QED
  BY <1>3, <1>4, <1>5, <1>6 DEF WarpInv

\* Every step keeps the invariant.
LEMMA WarpStep ==
    ASSUME WarpInv, [Warps!Next]_(warpVars)
    PROVE  WarpInv'
<1>1. CASE Warps!Vote
  BY <1>1, VoteStep
<1>2. CASE Warps!Exchange
  BY <1>2, ExchangeStep
<1>3. CASE UNCHANGED warpVars
  <2>1. warp' = warp /\ step' = step /\ held' = held /\ answer' = answer
    BY <1>3 DEF warpVars
  <2>2. Lanes' /\ OwnFirst'
    BY <2>1 DEF WarpInv, Lanes, OwnFirst, Warps!Lane, Warps!NoBag
  <2>3. PartialSums'
    BY <2>1 DEF WarpInv, PartialSums, Shift, Congruent, Warps!Sums, Warps!Lane
  <2>4. Warps!CallsAreExact'
    BY <2>1 DEF WarpInv, Warps!CallsAreExact, Warps!Returned, Warps!Excepted, Warps!IsExact, Warps!Sums,
                Warps!Width, Warps!DocumentedVote, Warps!Documented, Warps!NoBag, Warps!Lane
  <2> QED
    BY <2>2, <2>3, <2>4 DEF WarpInv
<1> QED
  BY <1>1, <1>2, <1>3 DEF Warps!Next

\* A sum that is over has shifted by one last, and one divides all lanes.
LEMMA SumsAreExact ==
    ASSUME WarpInv
    PROVE  Warps!SumIsExact
<1> SUFFICES ASSUME Warps!Sums, step > Len(warp.program) PROVE held[0] = [l \in Warps!Lane |-> 1]
  BY DEF Warps!SumIsExact
<1>1. Shift = 1
  BY DEF Shift
<1>2. held[0] = Congruent(1, 0)
  BY <1>1 DEF WarpInv, PartialSums
<1>3. \A m \in Warps!Lane : m % 1 = 0
  BY WarpIsLegal DEF WarpInv
<1> QED
  BY <1>2, <1>3 DEF Congruent

\* Warps either rest, with the variables of another part in motion, or are sound.
LEMMA WarpsHold ==
    MCSpec => [](WarpRuns => WarpInv)
<1> DEFINE Inv == WarpRuns => WarpInv
<1>1. MCInit => Inv
  <2>1. Warps!Init => WarpInv
    BY WarpInit
  <2>2. WarpIdle => ~WarpRuns
    BY DEF WarpIdle, WarpRuns
  <2> QED
    BY <2>1, <2>2 DEF MCInit
<1>2. Inv /\ [MCNext]_mcVars => Inv'
  <2> SUFFICES ASSUME Inv, [MCNext]_mcVars PROVE Inv'
    OBVIOUS
  <2>1. CASE WarpRuns /\ Warps!Next
    BY <2>1, WarpStep
  <2>2. CASE UNCHANGED warpVars
    <3>1. WarpRuns' => WarpRuns
      BY <2>2 DEF warpVars, WarpRuns
    <3> QED
      BY <2>2, <3>1, WarpStep
  <2> QED
    BY <2>1, <2>2 DEF MCNext, mcVars
<1> QED
  BY <1>1, <1>2, PTL DEF MCSpec

\* For every set of legal warps, of any of their sizes and with any lanes active:
\* votes and shuffles return what onAcc/warp.hpp documents, but for the two cases of
\* Excepted, and the sum of docs/snippets/example/190_warp.cpp has every lane once.
THEOREM WarpCalls ==
    MCSpec => []WarpCallsAreExact
<1>1. (WarpRuns => WarpInv) => WarpCallsAreExact
  BY SumsAreExact DEF WarpCallsAreExact, WarpInv
<1> QED
  BY <1>1, WarpsHold, PTL


-----------------------------------------------------------------------------
(***************************************************************************)
(* Launches, among the other parts of MCKernels.                            *)
(***************************************************************************)
\* Launches either rest, with the variables of another part in motion, or are sound.
LEMMA LaunchesRun ==
    MCSpec => [](LaunchRuns => RunsInv)
<1> DEFINE Inv == LaunchRuns => RunsInv
<1>1. MCInit => Inv
  <2>1. LaunchIdle => ~LaunchRuns
    BY DEF LaunchIdle, LaunchRuns
  <2> QED
    BY <2>1, RunsInit DEF MCInit
<1>2. Inv /\ [MCNext]_mcVars => Inv'
  <2> SUFFICES ASSUME Inv, [MCNext]_mcVars PROVE Inv'
    OBVIOUS
  <2>1. CASE LaunchRuns /\ Next
    BY <2>1, RunsStep
  <2>2. CASE UNCHANGED vars
    <3>1. LaunchRuns' => LaunchRuns
      BY <2>2 DEF vars, LaunchRuns
    <3> QED
      BY <2>2, <3>1, RunsStep
  <2> QED
    BY <2>1, <2>2 DEF MCNext, mcVars
<1> QED
  BY <1>1, <1>2, PTL DEF MCSpec

\* For every set of legal jobs, whatever the dimensions of a launch, its interface and
\* the order in which the workers take the blocks: a proposed frame is of powers of two,
\* within the extents and as large as it can be, a block is within the limit of the
\* device (onHost/internal/interface.hpp, api/util.hpp), and when the kernel is done
\* every pair of a block and a thread has run exactly once.
THEOREM LaunchesHoldExactly ==
    MCSpec => []LaunchesAreExact
<1>1. (LaunchRuns => RunsInv) => LaunchesAreExact
  BY SpecsAreUsable, ThreadsRunOnce DEF LaunchesAreExact
<1> QED
  BY <1>1, LaunchesRun, PTL

\* Launches either rest, with the variables of another part in motion, or are sound.
LEMMA LaunchesHold ==
    MCSpec => [](LaunchRuns => LaunchInv)
<1> DEFINE Inv == LaunchRuns => LaunchInv
<1>1. MCInit => Inv
  <2>1. LaunchIdle => ~LaunchRuns
    BY DEF LaunchIdle, LaunchRuns
  <2> QED
    BY <2>1, LaunchInit DEF MCInit
<1>2. Inv /\ [MCNext]_mcVars => Inv'
  <2> SUFFICES ASSUME Inv, [MCNext]_mcVars PROVE Inv'
    OBVIOUS
  <2>1. CASE LaunchRuns /\ Next
    BY <2>1, LaunchStep
  <2>2. CASE UNCHANGED vars
    <3>1. LaunchRuns' => LaunchRuns
      BY <2>2 DEF vars, LaunchRuns
    <3> QED
      BY <2>2, <3>1, LaunchStep
  <2> QED
    BY <2>1, <2>2 DEF MCNext, mcVars
<1> QED
  BY <1>1, <1>2, PTL DEF MCSpec

\* For every set of jobs whose kernels declare as the back end demands, of any number
\* of threads, declarations and workers: in a block, an id is one place of memory
\* (onAcc/Acc.hpp:148), different ids are disjoint places (test/unit/sharedMem/
\* sharedMem.cpp:75), and on the host all are aligned, within the block's storage and
\* clear of its headers.
THEOREM DeclarationsHold ==
    MCSpec => []DeclarationsAreSound
<1>1. LaunchInv => SameIdSameMemory
  BY BlockIsSound DEF SameIdSameMemory
<1>2. LaunchInv => VariablesAreSeparate
  BY BlockIsSound DEF VariablesAreSeparate
<1>3. (LaunchRuns => LaunchInv) => DeclarationsAreSound
  BY <1>1, <1>2 DEF DeclarationsAreSound
<1> QED
  BY <1>3, LaunchesHold, PTL

(***************************************************************************)
(* GridAlgorithms: threads of a block share memory and meet at barriers.    *)
(***************************************************************************)
\* What a thread has passed a barrier for, all threads of its block have reached.
GridInv ==
    /\ Grids!Legal(algo)
    /\ algo.algo = "reduce" => kernels \in Seq({Grids!ReduceKernels(algo.n)[i] : i \in {1, 2}})
    /\ pos # Nothing =>
          /\ kernels # <<>> /\ Grids!Kernel.kind \in {"scan", "reduce"}
          /\ pos \in [Grids!Blocks -> [Grids!Threads -> Nat]]
          /\ \A b \in Grids!Blocks : \A t, u \in Grids!Threads : \A p \in Nat :
                p < pos[b][t] /\ Grids!BarrierBefore(p) => pos[b][u] >= p

\* Logarithms of what is not above 2048.
LEMMA Logarithm ==
    ASSUME NEW n \in Nat, 1 <= n, n <= 2048
    PROVE  Grids!Log2(n) \in 0 .. 11 /\ Power(Grids!Log2(n)) <= n
<1>1. \E k \in 0 .. 11 : 2^k <= n /\ n < 2^(k + 1)
  <2>1. CASE 1 <= n /\ n < 2
    <3>1. 2^0 <= n /\ n < 2^(0 + 1)
      BY <2>1
    <3> QED
      BY <3>1
  <2>2. CASE 2 <= n /\ n < 4
    <3>1. 2^1 <= n /\ n < 2^(1 + 1)
      BY <2>2
    <3> QED
      BY <3>1
  <2>3. CASE 4 <= n /\ n < 8
    <3>1. 2^2 <= n /\ n < 2^(2 + 1)
      BY <2>3
    <3> QED
      BY <3>1
  <2>4. CASE 8 <= n /\ n < 16
    <3>1. 2^3 <= n /\ n < 2^(3 + 1)
      BY <2>4
    <3> QED
      BY <3>1
  <2>5. CASE 16 <= n /\ n < 32
    <3>1. 2^4 <= n /\ n < 2^(4 + 1)
      BY <2>5
    <3> QED
      BY <3>1
  <2>6. CASE 32 <= n /\ n < 64
    <3>1. 2^5 <= n /\ n < 2^(5 + 1)
      BY <2>6
    <3> QED
      BY <3>1
  <2>7. CASE 64 <= n /\ n < 128
    <3>1. 2^6 <= n /\ n < 2^(6 + 1)
      BY <2>7
    <3> QED
      BY <3>1
  <2>8. CASE 128 <= n /\ n < 256
    <3>1. 2^7 <= n /\ n < 2^(7 + 1)
      BY <2>8
    <3> QED
      BY <3>1
  <2>9. CASE 256 <= n /\ n < 512
    <3>1. 2^8 <= n /\ n < 2^(8 + 1)
      BY <2>9
    <3> QED
      BY <3>1
  <2>10. CASE 512 <= n /\ n < 1024
    <3>1. 2^9 <= n /\ n < 2^(9 + 1)
      BY <2>10
    <3> QED
      BY <3>1
  <2>11. CASE 1024 <= n /\ n < 2048
    <3>1. 2^10 <= n /\ n < 2^(10 + 1)
      BY <2>11
    <3> QED
      BY <3>1
  <2>12. CASE 2048 <= n /\ n < 4096
    <3>1. 2^11 <= n /\ n < 2^(11 + 1)
      BY <2>12
    <3> QED
      BY <3>1
  <2> QED
    BY <2>1, <2>2, <2>3, <2>4, <2>5, <2>6, <2>7, <2>8, <2>9, <2>10, <2>11, <2>12
<1> QED
  BY <1>1 DEF Grids!Log2, Power

\* Padding keeps cells apart.
LEMMA CellsStayApart ==
    ASSUME algo.warp \in Nat \ {0}, NEW i \in Nat, NEW k \in Nat, i # k
    PROVE  Grids!ConflictFree(i) # Grids!ConflictFree(k)
<1>1. ASSUME NEW w \in Nat \ {0}, NEW x \in Nat, NEW y \in Nat, x < y
      PROVE  x \div w <= y \div w
  <2>1. PICK a, b : a = x \div w /\ b = y \div w
    OBVIOUS
  <2>2. a \in Nat /\ b \in Nat /\ x % w \in Nat /\ y % w \in Nat /\ x % w < w /\ y % w < w
        /\ x = w * a + (x % w) /\ y = w * b + (y % w)
    BY <2>1, Division
  <2>3. ASSUME b + 1 <= a PROVE FALSE
    <3>1. (b + 1) * w <= a * w
      BY <2>2, <2>3, ProductOrder
    <3>2. (b + 1) * w = w * b + w /\ a * w = w * a /\ w * a \in Nat /\ w * b \in Nat
      BY <2>2
    <3> QED
      BY <1>1, <2>2, <3>1, <3>2
  <2> QED
    BY <2>1, <2>2, <2>3
<1>2. PICK w \in Nat \ {0} : w = algo.warp
  OBVIOUS
<1>3. i \div w \in Nat /\ k \div w \in Nat
  BY Division
<1>4. i < k => i \div w <= k \div w
  BY <1>1
<1>5. k < i => k \div w <= i \div w
  BY <1>1
<1>6. Grids!ConflictFree(i) = i + i \div w /\ Grids!ConflictFree(k) = k + k \div w
  BY <1>2 DEF Grids!ConflictFree
<1> QED
  BY <1>3, <1>4, <1>5, <1>6

\* Products by a positive number differ when their other factors do.
LEMMA ProductsDiffer ==
    ASSUME NEW o \in Nat \ {0}, NEW x \in Nat, NEW y \in Nat, x # y
    PROVE  o * x # o * y
<1>1. ASSUME NEW i \in Nat, NEW k \in Nat, i < k PROVE o * i # o * k
  <2>1. (i + 1) * o <= k * o
    BY <1>1, ProductOrder
  <2>2. (i + 1) * o = o * i + o /\ k * o = o * k /\ o * i \in Nat /\ o * k \in Nat
    OBVIOUS
  <2> QED
    BY <2>1, <2>2
<1> QED
  BY <1>1

\* Pairs of cells of different indices have no cell in common.
LEMMA PairsStayApart ==
    ASSUME algo.warp \in Nat \ {0}, NEW o \in Nat \ {0}, NEW i \in Nat, NEW k \in Nat, i # k
    PROVE  {Grids!Left(i, o), Grids!Right(i, o)} \cap {Grids!Left(k, o), Grids!Right(k, o)} = {}
<1>1. ASSUME NEW x \in Nat \ {0} PROVE o * x - 1 \in Nat
  <2>1. PICK z \in Nat : x = z + 1
    BY x - 1 \in Nat
  <2>2. o * x = o * z + o /\ o * z \in Nat
    BY <2>1
  <2> QED
    BY <2>2
<1>2. ASSUME NEW x \in Nat \ {0}, NEW y \in Nat \ {0}, x # y
      PROVE  Grids!ConflictFree(o * x - 1) # Grids!ConflictFree(o * y - 1)
  <2>1. o * x # o * y /\ o * x \in Nat /\ o * y \in Nat
    BY <1>2, ProductsDiffer
  <2>2. o * x - 1 \in Nat /\ o * y - 1 \in Nat /\ o * x - 1 # o * y - 1
    BY <1>1, <2>1
  <2> QED
    BY <2>2, CellsStayApart
<1>3. /\ 2 * i + 1 \in Nat \ {0} /\ 2 * i + 2 \in Nat \ {0} /\ 2 * k + 1 \in Nat \ {0} /\ 2 * k + 2 \in Nat \ {0}
      /\ 2 * i + 1 # 2 * k + 1 /\ 2 * i + 1 # 2 * k + 2 /\ 2 * i + 2 # 2 * k + 1 /\ 2 * i + 2 # 2 * k + 2
  OBVIOUS
<1>4. /\ Grids!Left(i, o) # Grids!Left(k, o) /\ Grids!Left(i, o) # Grids!Right(k, o)
      /\ Grids!Right(i, o) # Grids!Left(k, o) /\ Grids!Right(i, o) # Grids!Right(k, o)
  BY <1>2, <1>3 DEF Grids!Left, Grids!Right
<1> QED
  BY <1>4

\* The mini blocks of different threads are different.
LEMMA MiniBlocksStayApart ==
    ASSUME NEW n \in Nat, NEW t \in Nat, NEW u \in Nat, t # u, NEW i \in 0 .. n - 1, NEW k \in 0 .. n - 1
    PROVE  t * n + i # u * n + k /\ t * n + i \in Nat /\ u * n + k \in Nat
<1>1. ASSUME NEW x \in Nat, NEW y \in Nat, x < y, NEW a \in 0 .. n - 1, NEW c \in 0 .. n - 1
      PROVE  x * n + a # y * n + c
  <2>1. (x + 1) * n <= y * n
    BY <1>1, ProductOrder
  <2>2. (x + 1) * n = x * n + n /\ x * n \in Nat /\ y * n \in Nat
    OBVIOUS
  <2> QED
    BY <2>1, <2>2
<1>2. t * n \in Nat /\ u * n \in Nat
  OBVIOUS
<1>3. t < u => t * n + i # u * n + k
  BY <1>1
<1>4. u < t => u * n + k # t * n + i
  BY <1>1
<1> QED
  BY <1>2, <1>3, <1>4

\* What a legal job makes of its sizes.
LEMMA GridSizes ==
    ASSUME Grids!Legal(algo)
    PROVE  /\ algo.threads \in Nat \ {0} /\ algo.els \in Nat \ {0} /\ algo.mini \in Nat \ {0}
           /\ algo.warp \in Nat \ {0} /\ Grids!MiniPerThread \in Nat /\ Grids!Chunk \in Nat
           /\ algo.algo # "reduce" => Grids!NumMini \in 1 .. 2048
<1>1. ASSUME NEW x \in Grids!PowersOfTwo PROVE x \in Nat \ {0}
  <2>1. PICK k \in 0 .. 11 : x = Power(k)
    BY DEF Grids!PowersOfTwo, Power
  <2> QED
    BY <2>1, PowerIsPositive
<1>2. PICK threads \in Nat \ {0}, els \in Nat \ {0}, mini \in Nat \ {0} :
          threads = algo.threads /\ els = algo.els /\ mini = algo.mini
  BY <1>1 DEF Grids!Legal
<1>3. mini <= els /\ algo.warp \in Nat \ {0} /\ (algo.algo # "reduce" => threads * els <= 2048)
  BY <1>2 DEF Grids!Legal, Grids!ChunkSize
<1>4. els \div mini \in Nat
  BY Division
<1>5. PICK chunk \in Nat : chunk = threads * els /\ mini <= chunk
  <2>1. 1 * els <= threads * els
    BY ProductOrder
  <2> QED
    BY <1>3, <2>1
<1>6. PICK q : q = chunk \div mini
  OBVIOUS
<1>7. q \in Nat /\ chunk % mini \in Nat /\ chunk % mini < mini /\ chunk = mini * q + (chunk % mini)
  BY <1>6, Division
<1>8. q # 0
  <2>1. q = 0 => mini * q = 0
    OBVIOUS
  <2> QED
    BY <1>5, <1>7, <2>1
<1>9. q <= chunk
  <2>1. 1 * q <= mini * q
    BY <1>7, ProductOrder
  <2> QED
    BY <1>7, <2>1
<1>10. Grids!NumMini = q /\ Grids!Chunk = chunk /\ Grids!MiniPerThread = els \div mini
  BY <1>2, <1>5, <1>6 DEF Grids!NumMini, Grids!Chunk, Grids!MiniPerThread
<1> QED
  BY <1>2, <1>3, <1>4, <1>5, <1>7, <1>8, <1>9, <1>10

\* The phases of a scan, and the distances of the pairs that they combine.
LEMMA PhasesOfScan ==
    ASSUME Grids!Legal(algo), algo.algo # "reduce", Grids!Kernel.kind = "scan", NEW p \in Nat
    PROVE  /\ Grids!PhaseName(p) \in {"load", "up", "save", "down", "write"}
           /\ Grids!PhaseName(p) = "up" => Grids!UpOffset(p) \in Nat \ {0} /\ Grids!UpPairs(p) \in Nat
           /\ Grids!PhaseName(p) = "down" => Grids!DownOffset(p) \in Nat \ {0} /\ Grids!DownPairs(p) \in Nat
<1>1. PICK n \in 1 .. 2048 : n = Grids!NumMini
  BY GridSizes
<1>2. PICK levels \in 0 .. 11 : levels = Grids!Levels /\ Power(levels) <= n
  <2>1. Grids!Log2(n) \in 0 .. 11 /\ Power(Grids!Log2(n)) <= n
    BY Logarithm
  <2> QED
    BY <1>1, <2>1 DEF Grids!Levels
<1>3. PICK phases \in Nat \ {0} : phases = Grids!ScanPhases /\ phases = 3 + 2 * levels
  BY <1>2 DEF Grids!ScanPhases
<1>4. PICK q \in Nat : q = p % phases /\ q < phases
  BY Division
<1>5. Grids!PhaseName(p) = CASE q = 0 -> "load"
                             [] q \in 1 .. levels -> "up"
                             [] q = levels + 1 -> "save"
                             [] q \in levels + 2 .. 2 * levels + 1 -> "down"
                             [] q = 2 * levels + 2 -> "write"
  BY <1>2, <1>3, <1>4 DEF Grids!PhaseName
<1>6. \/ q = 0 /\ Grids!PhaseName(p) = "load"
      \/ q \in 1 .. levels /\ Grids!PhaseName(p) = "up"
      \/ q = levels + 1 /\ Grids!PhaseName(p) = "save"
      \/ q \in levels + 2 .. 2 * levels + 1 /\ Grids!PhaseName(p) = "down"
      \/ q = 2 * levels + 2 /\ Grids!PhaseName(p) = "write"
  BY <1>3, <1>4, <1>5
<1>7. CASE q \in 1 .. levels /\ Grids!PhaseName(p) = "up"
  <2>1. PICK k \in 0 .. 11 : k = q - 1
    BY <1>7
  <2>2. PICK o \in Nat \ {0} : o = Power(k)
    BY PowerIsPositive
  <2>3. Grids!UpOffset(p) = o
    BY <1>3, <1>4, <2>1, <2>2 DEF Grids!UpOffset, Power
  <2>4. n \div (2 * o) \in Nat
    BY Division
  <2> QED
    BY <1>1, <1>7, <2>3, <2>4 DEF Grids!UpPairs
<1>8. CASE q \in levels + 2 .. 2 * levels + 1 /\ Grids!PhaseName(p) = "down"
  <2>1. PICK k \in 0 .. 11 : k = q - levels - 2 /\ k < levels
    BY <1>8
  <2>2. PICK o \in Nat \ {0} : o = Power(k)
    BY PowerIsPositive
  <2>3. Grids!DownPairs(p) = o
    BY <1>2, <1>3, <1>4, <2>1, <2>2 DEF Grids!DownPairs, Grids!DownLevel, Power
  <2>4. 2 * o <= n
    <3>1. 2 * Power(k) <= Power(levels)
      BY <2>1, PowersGrow
    <3>2. Power(levels) \in Nat
      BY PowerIsPositive
    <3> QED
      BY <1>2, <2>2, <3>1, <3>2
  <2>5. PICK d \in Nat \ {0} : d = 2 * o
    OBVIOUS
  <2>6. n \div d \in Nat \ {0}
    <3>1. PICK m : m = n \div d
      OBVIOUS
    <3>2. m \in Nat /\ n % d \in Nat /\ n % d < d /\ n = d * m + (n % d)
      BY <3>1, Division
    <3>3. m = 0 => d * m = 0
      OBVIOUS
    <3> QED
      BY <2>4, <2>5, <3>1, <3>2, <3>3
  <2> QED
    BY <1>1, <1>8, <2>3, <2>5, <2>6 DEF Grids!DownOffset
<1> QED
  BY <1>6, <1>7, <1>8

\* In the same phase of a scan, no thread writes a cell that another one touches.
LEMMA ScansDoNotRace ==
    ASSUME Grids!Legal(algo), algo.algo # "reduce", Grids!Kernel.kind = "scan", NEW p \in Nat, NEW b,
           NEW t \in Grids!Threads, NEW u \in Grids!Threads, t # u
    PROVE  Grids!Writes(b, t, p) \cap (Grids!Reads(u, p) \cup Grids!Writes(b, u, p)) = {}
<1>1. t \in Nat /\ u \in Nat /\ algo.warp \in Nat \ {0} /\ Grids!MiniPerThread \in Nat
      /\ algo.threads \in Nat \ {0}
  BY GridSizes DEF Grids!Threads
<1>2. /\ Grids!Writes(b, t, p) = DOMAIN Grids!ScanWrites(b, t, p)
      /\ Grids!Writes(b, u, p) = DOMAIN Grids!ScanWrites(b, u, p)
      /\ Grids!Reads(u, p) = Grids!ScanReads(u, p)
  BY DEF Grids!Writes, Grids!Reads
<1>3. CASE Grids!PhaseName(p) = "load"
  <2>1. PICK n \in Nat : n = Grids!MiniPerThread
    BY <1>1
  <2>2. \A x \in Nat : Grids!Writes(b, x, p) = {Grids!ConflictFree(x * n + m) : m \in 0 .. n - 1}
    BY <1>3, <2>1 DEF Grids!Writes, Grids!ScanWrites
  <2>3. Grids!ScanReads(u, p) = {}
    BY <1>3 DEF Grids!ScanReads
  <2>4. ASSUME NEW i \in 0 .. n - 1, NEW k \in 0 .. n - 1
        PROVE  Grids!ConflictFree(t * n + i) # Grids!ConflictFree(u * n + k)
    <3>1. t * n + i # u * n + k /\ t * n + i \in Nat /\ u * n + k \in Nat
      BY <1>1, MiniBlocksStayApart
    <3> QED
      BY <1>1, <3>1, CellsStayApart
  <2> QED
    BY <1>1, <1>2, <2>2, <2>3, <2>4
<1>4. CASE Grids!PhaseName(p) = "up"
  <2>1. PICK o \in Nat \ {0}, n \in Nat : o = Grids!UpOffset(p) /\ n = Grids!UpPairs(p)
    BY <1>4, PhasesOfScan
  <2>2. /\ DOMAIN Grids!ScanWrites(b, t, p) = {Grids!Right(i, o) : i \in Grids!Mine(t, n)}
        /\ DOMAIN Grids!ScanWrites(b, u, p) = {Grids!Right(i, o) : i \in Grids!Mine(u, n)}
        /\ Grids!ScanReads(u, p) = UNION {{Grids!Left(i, o), Grids!Right(i, o)} : i \in Grids!Mine(u, n)}
    BY <1>4, <2>1 DEF Grids!ScanWrites, Grids!ScanReads
  <2>3. ASSUME NEW i \in Grids!Mine(t, n), NEW k \in Grids!Mine(u, n)
        PROVE  {Grids!Left(i, o), Grids!Right(i, o)} \cap {Grids!Left(k, o), Grids!Right(k, o)} = {}
    <3>1. i \in Nat /\ k \in Nat /\ i # k
      BY DEF Grids!Mine
    <3> QED
      BY <1>1, <3>1, PairsStayApart
  <2>4. ASSUME NEW c, c \in Grids!Writes(b, t, p), c \in Grids!Reads(u, p) \cup Grids!Writes(b, u, p)
        PROVE  FALSE
    <3>1. PICK i \in Grids!Mine(t, n) : c \in {Grids!Left(i, o), Grids!Right(i, o)}
      BY <1>2, <2>2, <2>4
    <3>2. PICK k \in Grids!Mine(u, n) : c \in {Grids!Left(k, o), Grids!Right(k, o)}
      BY <1>2, <2>2, <2>4
    <3> QED
      BY <2>3, <3>1, <3>2
  <2> QED
    BY <2>4
<1>5. CASE Grids!PhaseName(p) = "save"
  BY <1>2, <1>5 DEF Grids!ScanWrites, Grids!ScanReads
<1>6. CASE Grids!PhaseName(p) = "down"
  <2>1. PICK o \in Nat \ {0}, n \in Nat : o = Grids!DownOffset(p) /\ n = Grids!DownPairs(p)
    BY <1>6, PhasesOfScan
  <2>2. /\ DOMAIN Grids!ScanWrites(b, t, p) = {Grids!Left(i, o) : i \in Grids!Mine(t, n)}
                                                  \cup {Grids!Right(i, o) : i \in Grids!Mine(t, n)}
        /\ DOMAIN Grids!ScanWrites(b, u, p) = {Grids!Left(i, o) : i \in Grids!Mine(u, n)}
                                                  \cup {Grids!Right(i, o) : i \in Grids!Mine(u, n)}
        /\ Grids!ScanReads(u, p) = UNION {{Grids!Left(i, o), Grids!Right(i, o)} : i \in Grids!Mine(u, n)}
    BY <1>6, <2>1 DEF Grids!ScanWrites, Grids!ScanReads
  <2>3. ASSUME NEW i \in Grids!Mine(t, n), NEW k \in Grids!Mine(u, n)
        PROVE  {Grids!Left(i, o), Grids!Right(i, o)} \cap {Grids!Left(k, o), Grids!Right(k, o)} = {}
    <3>1. i \in Nat /\ k \in Nat /\ i # k
      BY DEF Grids!Mine
    <3> QED
      BY <1>1, <3>1, PairsStayApart
  <2>4. ASSUME NEW c, c \in Grids!Writes(b, t, p), c \in Grids!Reads(u, p) \cup Grids!Writes(b, u, p)
        PROVE  FALSE
    <3>1. PICK i \in Grids!Mine(t, n) : c \in {Grids!Left(i, o), Grids!Right(i, o)}
      BY <1>2, <2>2, <2>4
    <3>2. PICK k \in Grids!Mine(u, n) : c \in {Grids!Left(k, o), Grids!Right(k, o)}
      BY <1>2, <2>2, <2>4
    <3> QED
      BY <2>3, <3>1, <3>2
  <2> QED
    BY <2>4
<1>7. CASE Grids!PhaseName(p) = "write"
  BY <1>2, <1>7 DEF Grids!ScanWrites
<1> QED
  BY <1>3, <1>4, <1>5, <1>6, <1>7, PhasesOfScan

\* The phases of a reduction: the last two do not wait.
LEMMA PhasesOfReduction ==
    ASSUME Grids!Legal(algo), Grids!Kernel.kind = "reduce", NEW p \in Nat, p < Grids!ReducePhases
    PROVE  /\ Grids!ReducePhases \in Nat /\ Grids!ReducePhases >= 4
           /\ p = 0 => Grids!PhaseName(p) = "accumulate"
           /\ p = 1 => Grids!PhaseName(p) = "aggregate"
           /\ p \in 2 .. Grids!ReducePhases - 3 => Grids!PhaseName(p) = "tree" /\ Grids!TreeOffset(p) \in Nat
           /\ p = Grids!ReducePhases - 2 => Grids!PhaseName(p) = "read"
           /\ p = Grids!ReducePhases - 1 => Grids!PhaseName(p) = "combine"
           /\ Grids!BarrierBefore(p) <=> p <= Grids!ReducePhases - 3
<1>1. PICK n \in 1 .. 2048 : n = algo.threads
  <2>1. PICK k \in 0 .. 11 : algo.threads = Power(k)
    BY DEF Grids!Legal, Grids!PowersOfTwo, Power
  <2>2. Power(k) \in Nat \ {0} /\ Power(k) <= 2048
    BY PowerIsPositive
  <2> QED
    BY <2>1, <2>2
<1>2. PICK levels \in 0 .. 11 : levels = Grids!Log2(n) /\ Power(levels) <= n
  BY Logarithm
<1>3. PICK phases \in Nat : phases = Grids!ReducePhases /\ phases = 4 + levels
  BY <1>1, <1>2 DEF Grids!ReducePhases
<1>4. Grids!PhaseName(p) = CASE p = 0 -> "accumulate"
                             [] p = 1 -> "aggregate"
                             [] p \in 2 .. phases - 3 -> "tree"
                             [] p = phases - 2 -> "read"
                             [] p = phases - 1 -> "combine"
  BY <1>3 DEF Grids!PhaseName
<1>5. p \in 2 .. phases - 3 => Grids!TreeOffset(p) \in Nat
  <2> SUFFICES ASSUME p \in 2 .. phases - 3 PROVE Grids!TreeOffset(p) \in Nat
    OBVIOUS
  <2>1. PICK k \in 0 .. 11 : k = p - 1
    BY <1>3
  <2>2. PICK d \in Nat \ {0} : d = Power(k)
    BY PowerIsPositive
  <2>3. n \div d \in Nat
    BY Division
  <2> QED
    BY <1>1, <2>1, <2>2, <2>3 DEF Grids!TreeOffset, Power
<1>6. /\ p = 0 => Grids!PhaseName(p) = "accumulate"
      /\ p = 1 => Grids!PhaseName(p) = "aggregate"
      /\ p \in 2 .. phases - 3 => Grids!PhaseName(p) = "tree"
      /\ p = phases - 2 => Grids!PhaseName(p) = "read"
      /\ p = phases - 1 => Grids!PhaseName(p) = "combine"
  BY <1>3, <1>4
<1>7. Grids!BarrierBefore(p) <=> p <= phases - 3
  BY <1>3, <1>6 DEF Grids!BarrierBefore
<1> QED
  BY <1>3, <1>5, <1>6, <1>7

\* Of two threads that the barriers let run, none writes a cell that the other touches.
LEMMA ReductionsDoNotRace ==
    ASSUME Grids!Legal(algo), Grids!Kernel.kind = "reduce", NEW b,
           NEW t \in Grids!Threads, NEW u \in Grids!Threads, t # u,
           NEW p \in Nat, NEW q \in Nat, p < Grids!ReducePhases, q < Grids!ReducePhases,
           Grids!BarrierBefore(p) => q >= p, Grids!BarrierBefore(q) => p >= q,
           \A r \in Nat : r < q /\ Grids!BarrierBefore(r) => p >= r
    PROVE  Grids!Writes(b, t, p) \cap (Grids!Reads(u, q) \cup Grids!Writes(b, u, q)) = {}
<1>1. PICK phases \in Nat : phases = Grids!ReducePhases /\ phases >= 4
  BY PhasesOfReduction
<1>2. /\ t \in Nat /\ u \in Nat /\ t < algo.threads /\ u < algo.threads /\ algo.threads \in Nat \ {0}
      /\ Grids!Chunk \in Nat
  BY GridSizes DEF Grids!Threads
<1>3. /\ Grids!Writes(b, t, p) = DOMAIN Grids!ReduceWrites(b, t, p)
      /\ Grids!Writes(b, u, q) = DOMAIN Grids!ReduceWrites(b, u, q)
      /\ Grids!Reads(u, q) = Grids!ReduceReads(u, q)
  BY DEF Grids!Writes, Grids!Reads
<1>4. CASE p \in {phases - 2, phases - 1}
  <2>1. Grids!PhaseName(p) \in {"read", "combine"}
    BY <1>1, <1>4, PhasesOfReduction
  <2> QED
    BY <1>3, <2>1 DEF Grids!ReduceWrites
<1>5. CASE p <= phases - 3 /\ q > phases - 3
  <2>1. q \in {phases - 2, phases - 1}
    BY <1>1, <1>5
  <2>2. Grids!PhaseName(q) \in {"read", "combine"}
    BY <1>1, <2>1, PhasesOfReduction
  <2>3. p = phases - 3
    <3>1. PICK r \in Nat : r = phases - 3
      BY <1>1
    <3>2. Grids!BarrierBefore(r)
      BY <1>1, <3>1, PhasesOfReduction
    <3> QED
      BY <1>5, <3>1, <3>2
  <2>4. Grids!PhaseName(p) \in {"aggregate", "tree"}
    BY <1>1, <2>3, PhasesOfReduction
  <2>5. DOMAIN Grids!ReduceWrites(b, t, p) \subseteq {t}
    BY <2>4 DEF Grids!ReduceWrites
  <2>6. DOMAIN Grids!ReduceWrites(b, u, q) = {} /\ Grids!ReduceReads(u, q) \subseteq {u}
    BY <2>2 DEF Grids!ReduceWrites, Grids!ReduceReads
  <2> QED
    BY <1>3, <2>5, <2>6
<1>6. CASE p <= phases - 3 /\ q <= phases - 3
  <2>1. p = q
    <3>1. Grids!BarrierBefore(p) /\ Grids!BarrierBefore(q)
      BY <1>1, <1>6, PhasesOfReduction
    <3> QED
      BY <3>1
  <2>2. \/ Grids!PhaseName(p) = "accumulate" \/ Grids!PhaseName(p) = "aggregate"
        \/ Grids!PhaseName(p) = "tree" /\ Grids!TreeOffset(p) \in Nat
    BY <1>1, <1>6, PhasesOfReduction
  <2>3. Grids!Mine(t, Grids!Chunk) \cap Grids!Mine(u, Grids!Chunk) = {}
    BY DEF Grids!Mine
  <2>4. CASE Grids!PhaseName(p) = "accumulate"
    BY <1>3, <2>1, <2>3, <2>4 DEF Grids!ReduceWrites, Grids!ReduceReads
  <2>5. CASE Grids!PhaseName(p) = "aggregate"
    <3>1. t \notin Grids!Mine(u, Grids!Chunk)
      <4>1. t % algo.threads = t
        BY <1>2
      <4> QED
        BY <4>1 DEF Grids!Mine
    <3> QED
      BY <1>3, <2>1, <2>5, <3>1 DEF Grids!ReduceWrites, Grids!ReduceReads
  <2>6. CASE Grids!PhaseName(p) = "tree" /\ Grids!TreeOffset(p) \in Nat
    <3>1. PICK o \in Nat : o = Grids!TreeOffset(p)
      BY <2>6
    <3>2. /\ DOMAIN Grids!ReduceWrites(b, t, p) = IF t < o THEN {t} ELSE {}
          /\ DOMAIN Grids!ReduceWrites(b, u, p) = IF u < o THEN {u} ELSE {}
          /\ Grids!ReduceReads(u, p) = IF u < o THEN {u, u + o} ELSE {}
      BY <2>6, <3>1 DEF Grids!ReduceWrites, Grids!ReduceReads
    <3>3. t < o => t # u + o
      BY <1>2
    <3> QED
      BY <1>3, <2>1, <3>2, <3>3
  <2> QED
    BY <2>2, <2>4, <2>5, <2>6
<1> QED
  BY <1>1, <1>4, <1>5, <1>6

\* The kernels of a reduction are not scans.
LEMMA KernelOfScan ==
    ASSUME GridInv, kernels # <<>>, Grids!Kernel.kind = "scan"
    PROVE  algo.algo # "reduce"
<1> SUFFICES ASSUME algo.algo = "reduce" PROVE FALSE
  OBVIOUS
<1>1. PICK S : S = {Grids!ReduceKernels(algo.n)[i] : i \in {1, 2}}
  OBVIOUS
<1>2. Head(kernels) \in S
  BY <1>1 DEF GridInv
<1>3. \A k \in S : k.kind # "scan"
  BY <1>1 DEF Grids!ReduceKernels
<1> QED
  BY <1>2, <1>3 DEF Grids!Kernel

\* What the barriers give is enough.
LEMMA BarriersAreEnough ==
    ASSUME GridInv
    PROVE  Grids!SharedMemoryIsNotRaced
<1> SUFFICES ASSUME pos # Nothing, NEW b \in Grids!Blocks, NEW t \in Grids!Threads, NEW u \in Grids!Threads,
                    t # u, Grids!Runnable(b, t), Grids!Runnable(b, u)
             PROVE  Grids!Writes(b, t, pos[b][t])
                        \cap (Grids!Reads(u, pos[b][u]) \cup Grids!Writes(b, u, pos[b][u])) = {}
  BY DEF Grids!SharedMemoryIsNotRaced
<1>1. /\ Grids!Legal(algo) /\ kernels # <<>> /\ Grids!Kernel.kind \in {"scan", "reduce"}
      /\ pos \in [Grids!Blocks -> [Grids!Threads -> Nat]]
      /\ \A r \in Nat : r < pos[b][u] /\ Grids!BarrierBefore(r) => pos[b][t] >= r
  BY DEF GridInv
<1>2. PICK p \in Nat, q \in Nat : p = pos[b][t] /\ q = pos[b][u]
  BY <1>1
<1>3. /\ p < Grids!NumPhases(b) /\ q < Grids!NumPhases(b)
      /\ Grids!BarrierBefore(p) => q >= p
      /\ Grids!BarrierBefore(q) => p >= q
  BY <1>2 DEF Grids!Runnable
<1>4. CASE Grids!Kernel.kind = "scan"
  <2>1. algo.algo # "reduce"
    BY <1>1, <1>4, KernelOfScan
  <2>2. \A r \in Nat : Grids!BarrierBefore(r)
    <3> SUFFICES ASSUME NEW r \in Nat PROVE Grids!BarrierBefore(r)
      OBVIOUS
    <3>1. Grids!PhaseName(r) \in {"load", "up", "save", "down", "write"}
      BY <1>1, <1>4, <2>1, PhasesOfScan
    <3> QED
      BY <3>1 DEF Grids!BarrierBefore
  <2>3. p = q
    BY <1>3, <2>2
  <2> QED
    BY <1>1, <1>2, <1>4, <2>1, <2>3, ScansDoNotRace
<1>5. CASE Grids!Kernel.kind = "reduce"
  <2>1. p < Grids!ReducePhases /\ q < Grids!ReducePhases
    BY <1>3, <1>5 DEF Grids!NumPhases
  <2>2. \A r \in Nat : r < q /\ Grids!BarrierBefore(r) => p >= r
    BY <1>1, <1>2
  <2>3. Grids!Writes(b, t, p) \cap (Grids!Reads(u, q) \cup Grids!Writes(b, u, q)) = {}
    BY <1>1, <1>3, <1>5, <2>1, <2>2, ReductionsDoNotRace
  <2> QED
    BY <1>2, <2>3
<1> QED
  BY <1>1, <1>4, <1>5

\* The host enqueues; nothing runs.
LEMMA GridInit ==
    ASSUME Grids!Init
    PROVE  GridInv
<1>1. Grids!Legal(algo) /\ pos = Nothing
  BY AlgoJobsAssumption DEF Grids!Init
<1>2. ASSUME algo.algo = "reduce"
      PROVE  kernels \in Seq({Grids!ReduceKernels(algo.n)[i] : i \in {1, 2}})
  <2>1. kernels = Grids!ReduceKernels(algo.n)
    BY <1>2 DEF Grids!Init
  <2>2. PICK a, c : Grids!ReduceKernels(algo.n) = <<a, c>>
    BY DEF Grids!ReduceKernels
  <2>3. {Grids!ReduceKernels(algo.n)[i] : i \in {1, 2}} = {a, c}
    BY <2>2
  <2> QED
    BY <2>1, <2>2, <2>3
<1> QED
  BY <1>1, <1>2 DEF GridInv

\* Blocks, threads and phases are those of the kernel.
LEMMA GridStays ==
    ASSUME algo' = algo, kernels' = kernels
    PROVE  /\ Grids!Kernel' = Grids!Kernel /\ Grids!Blocks' = Grids!Blocks /\ Grids!Threads' = Grids!Threads
           /\ \A p \in Nat : Grids!BarrierBefore(p)' <=> Grids!BarrierBefore(p)
<1>1. Grids!Kernel' = Grids!Kernel /\ Grids!Threads' = Grids!Threads
  BY DEF Grids!Kernel, Grids!Threads
<1>2. Grids!NumChunks' = Grids!NumChunks
  BY <1>1 DEF Grids!NumChunks, Grids!CeilDiv, Grids!Chunk
<1>3. Grids!Blocks' = Grids!Blocks
  BY <1>2 DEF Grids!Blocks
<1>4. Grids!NumMini' = Grids!NumMini
  BY DEF Grids!NumMini, Grids!Chunk
<1>5. Grids!Levels' = Grids!Levels
  BY <1>4 DEF Grids!Levels
<1>6. Grids!ScanPhases' = Grids!ScanPhases /\ Grids!ReducePhases' = Grids!ReducePhases
  BY <1>5 DEF Grids!ScanPhases, Grids!ReducePhases
<1>7. ASSUME NEW p \in Nat PROVE Grids!BarrierBefore(p)' <=> Grids!BarrierBefore(p)
  BY <1>1, <1>5, <1>6 DEF Grids!BarrierBefore, Grids!PhaseName
<1> QED
  BY <1>1, <1>3, <1>7

\* A thread takes a step: its barrier has let it, so all others have come as far.
LEMMA PhaseKeeps ==
    ASSUME GridInv, pos # Nothing, NEW b \in Grids!Blocks, NEW t \in Grids!Threads, Grids!Runnable(b, t),
           UNCHANGED <<algo, kernels>>, Grids!Finish(b, t) \/ UNCHANGED pos
    PROVE  GridInv'
<1>1. /\ Grids!Legal(algo) /\ kernels # <<>> /\ Grids!Kernel.kind \in {"scan", "reduce"}
      /\ pos \in [Grids!Blocks -> [Grids!Threads -> Nat]]
      /\ \A c \in Grids!Blocks : \A s, u \in Grids!Threads : \A p \in Nat :
            p < pos[c][s] /\ Grids!BarrierBefore(p) => pos[c][u] >= p
  BY DEF GridInv
<1>2. /\ Grids!Kernel' = Grids!Kernel /\ Grids!Blocks' = Grids!Blocks /\ Grids!Threads' = Grids!Threads
      /\ \A p \in Nat : Grids!BarrierBefore(p)' <=> Grids!BarrierBefore(p)
  BY GridStays
<1>3. /\ Grids!Legal(algo)' /\ kernels' # <<>> /\ Grids!Kernel'.kind \in {"scan", "reduce"}
      /\ (algo.algo = "reduce" => kernels \in Seq({Grids!ReduceKernels(algo.n)[i] : i \in {1, 2}}))'
  BY <1>1, <1>2 DEF GridInv, Grids!Legal, Grids!ReduceKernels, Grids!Whole
<1>4. CASE UNCHANGED pos
  BY <1>1, <1>2, <1>3, <1>4 DEF GridInv
<1>5. CASE Grids!Finish(b, t)
  <2>1. PICK n \in Nat : n = pos[b][t]
    BY <1>1
  <2>2. pos' = [pos EXCEPT ![b] = [pos[b] EXCEPT ![t] = n + 1]]
    BY <1>1, <1>5, <2>1 DEF Grids!Finish
  <2>3. pos' \in [Grids!Blocks -> [Grids!Threads -> Nat]]
    BY <1>1, <2>2
  <2>4. /\ pos'[b][t] = n + 1
        /\ \A c \in Grids!Blocks, s \in Grids!Threads : c # b \/ s # t => pos'[c][s] = pos[c][s]
    BY <1>1, <2>2
  <2>5. Grids!BarrierBefore(n) => \A u \in Grids!Threads : pos[b][u] >= n
    BY <2>1 DEF Grids!Runnable
  <2>6. ASSUME NEW c \in Grids!Blocks, NEW s \in Grids!Threads, NEW u \in Grids!Threads, NEW p \in Nat,
               p < pos'[c][s], Grids!BarrierBefore(p)
        PROVE  pos'[c][u] >= p
    <3>1. pos[c][u] \in Nat /\ pos'[c][u] \in Nat /\ pos'[c][u] >= pos[c][u]
      <4>1. pos[c][u] \in Nat /\ pos'[c][u] \in Nat
        BY <1>1, <2>3
      <4>2. CASE c = b /\ u = t
        BY <2>1, <2>4, <4>2
      <4>3. CASE c # b \/ u # t
        BY <2>4, <4>1, <4>3
      <4> QED
        BY <4>1, <4>2, <4>3
    <3>2. pos[c][u] >= p
      <4>1. CASE p < pos[c][s]
        BY <1>1, <2>6, <4>1
      <4>2. CASE ~(p < pos[c][s])
        <5>1. c = b /\ s = t /\ p = n
          BY <1>1, <2>1, <2>4, <2>6, <4>2
        <5> QED
          BY <2>5, <2>6, <5>1
      <4> QED
        BY <4>1, <4>2
    <3> QED
      BY <3>1, <3>2
  <2> QED
    BY <1>2, <1>3, <2>3, <2>6 DEF GridInv
<1> QED
  BY <1>4, <1>5

\* No kernel runs.
LEMMA IdleKeeps ==
    ASSUME GridInv, pos' = Nothing, algo' = algo, kernels # <<>>, kernels' = Tail(kernels)
    PROVE  GridInv'
<1>1. Grids!Legal(algo)'
  BY DEF GridInv, Grids!Legal
<1>2. PICK S : S = {Grids!ReduceKernels(algo.n)[i] : i \in {1, 2}}
  OBVIOUS
<1>3. {Grids!ReduceKernels(algo.n)[i] : i \in {1, 2}}' = S
  BY <1>2 DEF Grids!ReduceKernels, Grids!Whole
<1>4. algo.algo = "reduce" => kernels' \in Seq(S)
  BY <1>2 DEF GridInv
<1> QED
  BY <1>1, <1>3, <1>4 DEF GridInv

\* Every step keeps the invariant.
LEMMA GridStep ==
    ASSUME GridInv, [Grids!Next]_algoVars
    PROVE  GridInv'
<1>1. CASE Grids!StartKernel
  <2>1. /\ kernels # <<>> /\ Grids!Kernel.kind \in {"scan", "reduce"} /\ algo' = algo /\ kernels' = kernels
        /\ pos' = [c \in Grids!Blocks |-> [s \in Grids!Threads |-> 0]]
    BY <1>1 DEF Grids!StartKernel
  <2>2. /\ Grids!Kernel' = Grids!Kernel /\ Grids!Blocks' = Grids!Blocks /\ Grids!Threads' = Grids!Threads
    BY <2>1, GridStays
  <2>3. /\ Grids!Legal(algo)'
        /\ (algo.algo = "reduce" => kernels \in Seq({Grids!ReduceKernels(algo.n)[i] : i \in {1, 2}}))'
    BY <2>1 DEF GridInv, Grids!Legal, Grids!ReduceKernels, Grids!Whole
  <2>4. pos' \in [Grids!Blocks -> [Grids!Threads -> Nat]]
    BY <2>1
  <2>5. \A c \in Grids!Blocks : \A s \in Grids!Threads : \A p \in Nat : ~(p < pos'[c][s])
    BY <2>1
  <2> QED
    BY <2>1, <2>2, <2>3, <2>4, <2>5 DEF GridInv
<1>2. CASE Grids!SimpleKernel
  BY <1>2, IdleKeeps DEF Grids!SimpleKernel
<1>3. CASE Grids!EndKernel
  BY <1>3, IdleKeeps DEF Grids!EndKernel, GridInv
<1>4. CASE /\ pos # Nothing
           /\ \E b \in Grids!Blocks : \E t \in Grids!Threads : Grids!ScanPhase(b, t) \/ Grids!ReducePhase(b, t)
  <2>1. PICK b \in Grids!Blocks, t \in Grids!Threads : Grids!ScanPhase(b, t) \/ Grids!ReducePhase(b, t)
    BY <1>4
  <2>2. CASE Grids!ScanPhase(b, t)
    BY <1>4, <2>2, PhaseKeeps DEF Grids!ScanPhase
  <2>3. CASE Grids!ReducePhase(b, t)
    <3>1. /\ Grids!Runnable(b, t) /\ UNCHANGED <<algo, kernels>>
          /\ Grids!Finish(b, t) \/ UNCHANGED pos
      BY <2>3 DEF Grids!ReducePhase
    <3> QED
      BY <1>4, <3>1, PhaseKeeps
  <2> QED
    BY <2>1, <2>2, <2>3
<1>5. CASE UNCHANGED algoVars
  <2>1. algo' = algo /\ kernels' = kernels /\ pos' = pos
    BY <1>5 DEF algoVars
  <2>2. /\ Grids!Kernel' = Grids!Kernel /\ Grids!Blocks' = Grids!Blocks /\ Grids!Threads' = Grids!Threads
        /\ \A p \in Nat : Grids!BarrierBefore(p)' <=> Grids!BarrierBefore(p)
    BY <2>1, GridStays
  <2>3. /\ Grids!Legal(algo)'
        /\ (algo.algo = "reduce" => kernels \in Seq({Grids!ReduceKernels(algo.n)[i] : i \in {1, 2}}))'
    BY <2>1 DEF GridInv, Grids!Legal, Grids!ReduceKernels, Grids!Whole
  <2> QED
    BY <2>1, <2>2, <2>3 DEF GridInv
<1> QED
  BY <1>1, <1>2, <1>3, <1>4, <1>5 DEF Grids!Next

\* Kernels of the grid either rest, with the variables of another part in motion,
\* or are sound.
LEMMA GridsHold ==
    MCSpec => [](AlgoRuns => GridInv)
<1> DEFINE Inv == AlgoRuns => GridInv
<1>1. MCInit => Inv
  <2>1. AlgoIdle => ~AlgoRuns
    BY DEF AlgoIdle, AlgoRuns
  <2> QED
    BY <2>1, GridInit DEF MCInit
<1>2. Inv /\ [MCNext]_mcVars => Inv'
  <2> SUFFICES ASSUME Inv, [MCNext]_mcVars PROVE Inv'
    OBVIOUS
  <2>1. CASE AlgoRuns /\ Grids!Next
    BY <2>1, GridStep
  <2>2. CASE UNCHANGED algoVars
    <3>1. AlgoRuns' => AlgoRuns
      BY <2>2 DEF algoVars, AlgoRuns
    <3> QED
      BY <2>2, <3>1, GridStep
  <2> QED
    BY <2>1, <2>2 DEF MCNext, mcVars
<1> QED
  BY <1>1, <1>2, PTL DEF MCSpec

\* For every set of legal scans and reductions, of any number of elements, threads,
\* blocks and mini blocks: between two barriers no thread of a block writes shared
\* memory that another one reads or writes (onHost/algo/internal/scan.hpp:150-320,
\* transformReduce.hpp:50-119), although the last phases of a reduction do not wait.
THEOREM SharedMemoryIsSafe ==
    MCSpec => []SharedMemoryIsNotRaced
<1>1. (AlgoRuns => GridInv) => SharedMemoryIsNotRaced
  BY BarriersAreEnough DEF SharedMemoryIsNotRaced
<1> QED
  BY <1>1, GridsHold, PTL

=============================================================================
