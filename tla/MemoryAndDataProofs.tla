------------------------ MODULE MemoryAndDataProofs ------------------------
(***************************************************************************)
(* Two components that share nothing but this file.                         *)
(*                                                                         *)
(* No operation uses freed memory and Device::wait() covers what preceded  *)
(* it, for any number of queues, buffers and threads and any programs.     *)
(*                                                                         *)
(* The argument: an operation that uses a buffer is protected by the       *)
(* handle of the thread that enqueued it, or by what this thread left      *)
(* behind when it dropped its handle: an operation behind it that keeps    *)
(* the buffer, a destructor action that waits for its queue, or the queue  *)
(* being the buffer's own.  Nobody adds uses once the destructor runs, so  *)
(* that it is enough to look at the steps it still has in front of         *)
(* freeOp(): each use is awaited by one of them or in the queue in which   *)
(* freeOp() enqueues the operation that frees.                             *)
(*                                                                         *)
(* What is in the memory: packs of lanes do what scalars would, for any    *)
(* packs, words and programs.                                              *)
(***************************************************************************)
EXTENDS HostMemory, MCData, SequenceTheorems, FiniteSetTheorems, WellFoundedInduction, TLAPS

Tagged == {"handle", "lock", "freeOp", "keep"} \X (Thread \cup Buffer)
Ref == {None} \cup Tagged \cup ({"action"} \X Buffer \X Nat)

Kinds == {"use", "keep", "free", "marker", "dropped"}
OpType ==
  {op \in [kind : Kinds, buffer : Buffer \cup {None}, by : Thread] :
     op.kind \in {"use", "keep", "free"} => op.buffer \in Buffer}

Dos == {"wait", "mark", "await", "free", "release", "end", "lock", "return"}
StepType ==
  {s \in [do : Dos, queue : Queue \cup {None}, buffer : Buffer \cup {None}, ref : Ref] :
     /\ s.do = "free" => s.buffer \in Buffer
     /\ s.do \notin {"free", "return"} => s.queue \in Queue}

Types ==
  /\ program \in Program
  /\ queues \in Seq(Queue)
  /\ queueRefs \in [Queue -> SUBSET Ref]
  /\ bufferRefs \in [Buffer -> SUBSET Ref]
  /\ memory \in [Buffer -> {"none", "live", "freed"}]
  /\ home \in [Buffer -> Queue \cup {None}]
  /\ actions \in [Buffer -> Seq(Queue)]
  /\ fifo \in [Queue -> Seq(OpType)]
  /\ held \in [Queue -> OpType \cup {None}]
  /\ running \in [Queue -> BOOLEAN]
  /\ todo \in [Thread -> Seq(StepType)]
  /\ owed \in [Client -> [Queue -> Nat]]

\* Whatever refers to a queue or is in it, the device has a record of it.
Registered ==
  /\ \A q \in Queue : queueRefs[q] # {} \/ fifo[q] # <<>> => q \in Made
  /\ \A b \in Buffer : /\ home[b] # None => home[b] \in Made
                       /\ \A i \in DOMAIN actions[b] : actions[b][i] \in Made
  /\ \A t \in Thread : \A n \in DOMAIN todo[t] :
       todo[t][n].do \notin {"free", "return"} => todo[t][n].queue \in Made

Busy == \A q \in Queue : running[q] => fifo[q] # <<>>

Is(op, kind, b) == op.kind = kind /\ op.buffer = b

\* A buffer is kept by at most one operation of a queue, which has a reference.
Keeps ==
  \A q \in Queue, b \in Buffer :
    /\ \A k \in DOMAIN fifo[q] : Is(fifo[q][k], "keep", b) =>
         /\ Keeper(q) \in bufferRefs[b]
         /\ ~(held[q] # None /\ Is(held[q], "keep", b))
         /\ \A j \in DOMAIN fifo[q] : Is(fifo[q][j], "keep", b) => j = k
    /\ held[q] # None /\ Is(held[q], "keep", b) => Keeper(q) \in bufferRefs[b]

Referenced == \A b \in Buffer : bufferRefs[b] # {} => memory[b] = "live"

\* A use is protected by its thread's handle or by what this left behind.
Protected(q, b, k) ==
  /\ memory[b] = "live"
  /\ Handle(fifo[q][k].by) \in bufferRefs[b] \/ Covered(q, b, k)

Uses == \A q \in Queue, b \in Buffer : \A k \in DOMAIN fifo[q] :
          Is(fifo[q][k], "use", b) => Protected(q, b, k)

\* The step s of t lasts until the first k operations of q are over.
Awaits(s, t, q, k) ==
  /\ s.queue = q
  /\ \/ s.do \in {"wait", "mark"}
     \/ /\ s.do = "await"
        /\ \E j \in DOMAIN fifo[q] : j > k /\ fifo[q][j] = Op("marker", None, t)

\* Before freeOp() of b the uses of b are awaited, but those in its own queue.
Freeing ==
  \A t \in Thread : \A n \in DOMAIN todo[t] : \A b \in Buffer :
    todo[t][n].do = "free" /\ todo[t][n].buffer = b =>
      /\ bufferRefs[b] = {} /\ memory[b] # "none"
      /\ \A q \in Queue : \A k \in DOMAIN fifo[q] : Is(fifo[q][k], "use", b) =>
           home[b] = q \/ \E m \in 1 .. (n - 1) : Awaits(todo[t][m], t, q, k)

\* An operation that frees b is behind all uses of b.
FreeOps ==
  \A q \in Queue : \A k \in DOMAIN fifo[q] : \A b \in Buffer :
    Is(fifo[q][k], "free", b) =>
      /\ bufferRefs[b] = {} /\ memory[b] # "none"
      /\ \A p \in Queue : \A j \in DOMAIN fifo[p] :
           Is(fifo[p][j], "use", b) => p = q /\ j < k

\* Before Device::wait() returns it locks, or awaits, the queues with work.
Debts ==
  /\ \A c \in Client, q \in Queue : owed[c][q] <= Len(fifo[q])
  /\ \A c \in Client : \A n \in DOMAIN todo[c] : todo[c][n].do = "return" =>
       \A q \in Queue :
         \/ owed[c][q] = 0
         \/ q \in Made /\ queueRefs[q] = {}
         \/ \E m \in 1 .. (n - 1) :
              \/ todo[c][m].queue = q /\ todo[c][m].do = "lock"
              \/ Awaits(todo[c][m], c, q, owed[c][q])

IInv == /\ Types /\ Registered /\ Busy /\ Keeps /\ Referenced
        /\ Uses /\ Freeing /\ FreeOps /\ Debts

-----------------------------------------------------------------------------
(* How steps change the queues and what a thread still has to do.           *)

\* Operations are numbered from one.
LEMMA Domains ==
  ASSUME Types
  PROVE  /\ \A q \in Queue : fifo[q] \in Seq(OpType) /\ DOMAIN fifo[q] = 1 .. Len(fifo[q])
                             /\ Len(fifo[q]) \in Nat
         /\ \A t \in Thread : todo[t] \in Seq(StepType) /\ DOMAIN todo[t] = 1 .. Len(todo[t])
                              /\ Len(todo[t]) \in Nat
         /\ \A b \in Buffer : DOMAIN actions[b] = 1 .. Len(actions[b]) /\ Len(actions[b]) \in Nat
         /\ DOMAIN queues = 1 .. Len(queues) /\ Len(queues) \in Nat
BY DEF Types

\* A destructor of a thread is inserted in front of what the thread does next.
LEMMA Continues ==
  ASSUME Types, NEW t \in Thread, NEW steps \in Seq(StepType), todo[t] # <<>>, Then(t, steps)
  PROVE  /\ todo' \in [Thread -> Seq(StepType)]
         /\ \A u \in Thread : u # t => todo'[u] = todo[u]
         /\ Len(todo'[t]) = Len(steps) + Len(todo[t]) - 1
         /\ \A m \in 1 .. Len(steps) : todo'[t][m] = steps[m]
         /\ \A m \in 1 .. Len(todo'[t]) : m > Len(steps) =>
              todo'[t][m] = todo[t][m - Len(steps) + 1]
<1>1. todo[t] \in Seq(StepType) /\ todo' = [todo EXCEPT ![t] = steps \o Tail(todo[t])]
  BY DEF Types, Then
<1>2. /\ Tail(todo[t]) \in Seq(StepType) /\ Len(Tail(todo[t])) = Len(todo[t]) - 1
      /\ \A i \in 1 .. Len(todo[t]) - 1 : Tail(todo[t])[i] = todo[t][i + 1]
  BY <1>1
<1>3. todo'[t] = steps \o Tail(todo[t])
  BY <1>1 DEF Types
<1>4. /\ steps \o Tail(todo[t]) \in Seq(StepType)
      /\ Len(steps \o Tail(todo[t])) = Len(steps) + Len(Tail(todo[t]))
      /\ \A i \in 1 .. Len(steps) + Len(Tail(todo[t])) :
           (steps \o Tail(todo[t]))[i] =
             IF i <= Len(steps) THEN steps[i] ELSE Tail(todo[t])[i - Len(steps)]
  BY <1>2
<1>5. todo' \in [Thread -> Seq(StepType)]
  BY <1>1, <1>4 DEF Types
<1>6. \A u \in Thread : u # t => todo'[u] = todo[u]
  BY <1>1 DEF Types
<1>7. Len(todo'[t]) = Len(steps) + Len(todo[t]) - 1
  BY <1>2, <1>3, <1>4
<1>8. \A m \in 1 .. Len(steps) : todo'[t][m] = steps[m]
  BY <1>1, <1>2, <1>3, <1>4
<1>9. \A m \in 1 .. Len(todo'[t]) : m > Len(steps) => todo'[t][m] = todo[t][m - Len(steps) + 1]
  <2> TAKE m \in 1 .. Len(todo'[t])
  <2> HAVE m > Len(steps)
  <2>1. Len(steps) \in Nat /\ Len(todo[t]) \in Nat
    BY <1>1
  <2>2. todo'[t][m] = Tail(todo[t])[m - Len(steps)]
    BY <2>1, <1>2, <1>3, <1>4, <1>7
  <2>3. m - Len(steps) \in 1 .. Len(todo[t]) - 1
    BY <2>1, <1>7
  <2> QED
    BY <2>1, <2>2, <2>3, <1>2
<1> QED
  BY <1>5, <1>6, <1>7, <1>8, <1>9

\* Queues only get longer, by operations of other kinds than these.
Grows(kinds) ==
  \A q \in Queue :
    /\ Len(fifo[q]) <= Len(fifo'[q])
    /\ \A k \in 1 .. Len(fifo[q]) : fifo'[q][k] = fifo[q][k]
    /\ \A k \in 1 .. Len(fifo'[q]) : k > Len(fifo[q]) => fifo'[q][k].kind \notin kinds

LEMMA Pushes ==
  ASSUME Types, NEW p \in Queue, NEW op \in OpType, Push(p, op), NEW kinds, op.kind \notin kinds
  PROVE  /\ fifo' \in [Queue -> Seq(OpType)] /\ Grows(kinds)
         /\ Len(fifo'[p]) = Len(fifo[p]) + 1 /\ fifo'[p][Len(fifo'[p])] = op
         /\ \A q \in Queue : q # p => fifo'[q] = fifo[q]
<1>1. /\ fifo[p] \in Seq(OpType) /\ fifo' = [fifo EXCEPT ![p] = Append(fifo[p], op)]
      /\ fifo'[p] = Append(fifo[p], op)
  BY DEF Types, Push
<1>2. \A q \in Queue : q # p => fifo'[q] = fifo[q] /\ fifo[q] \in Seq(OpType)
  BY <1>1 DEF Types
<1>3. /\ Append(fifo[p], op) \in Seq(OpType) /\ Len(Append(fifo[p], op)) = Len(fifo[p]) + 1
      /\ Append(fifo[p], op)[Len(fifo[p]) + 1] = op
      /\ \A k \in 1 .. Len(fifo[p]) : Append(fifo[p], op)[k] = fifo[p][k]
      /\ Len(fifo[p]) \in Nat
  BY <1>1
<1>4. fifo' \in [Queue -> Seq(OpType)]
  BY <1>1, <1>3 DEF Types
<1>5. Grows(kinds)
  <2> SUFFICES ASSUME NEW q \in Queue
               PROVE  /\ Len(fifo[q]) <= Len(fifo'[q])
                      /\ \A k \in 1 .. Len(fifo[q]) : fifo'[q][k] = fifo[q][k]
                      /\ \A k \in 1 .. Len(fifo'[q]) : k > Len(fifo[q]) => fifo'[q][k].kind \notin kinds
    BY DEF Grows
  <2>1. CASE q = p
    BY <2>1, <1>1, <1>3
  <2>2. CASE q # p
    BY <2>2, <1>2
  <2> QED
    BY <2>1, <2>2
<1> QED
  BY <1>1, <1>2, <1>3, <1>4, <1>5

LEMMA StandsStill ==
  ASSUME Types, UNCHANGED fifo, NEW kinds
  PROVE  Grows(kinds)
BY Domains DEF Grows

\* Waiting goes on while a queue gets longer.
LEMMA AwaitsLasts ==
  ASSUME Types, Types', Grows({}) , NEW s, NEW t, NEW q \in Queue, NEW k, Awaits(s, t, q, k)
  PROVE  Awaits(s, t, q, k)'
<1>1. /\ DOMAIN fifo[q] = 1 .. Len(fifo[q]) /\ Len(fifo[q]) \in Nat
      /\ DOMAIN fifo'[q] = 1 .. Len(fifo'[q]) /\ Len(fifo'[q]) \in Nat
  BY DEF Types
<1>2. Len(fifo[q]) <= Len(fifo'[q]) /\ \A j \in 1 .. Len(fifo[q]) : fifo'[q][j] = fifo[q][j]
  BY DEF Grows
<1> QED
  BY <1>1, <1>2 DEF Awaits

-----------------------------------------------------------------------------
\* The first step of a destructor or of Device::wait() is over: what it was
\* waiting for is finished, or the steps it is replaced by wait for it.
LEMMA StepIsOver ==
  ASSUME IInv, Types', NEW t \in Thread, NEW steps \in Seq(StepType), todo[t] # <<>>,
         Then(t, steps), Grows({"use"}), UNCHANGED <<bufferRefs, home, queues>>,
         \A b \in Buffer : memory[b] # "none" => memory'[b] # "none",
         \A q \in Queue : queueRefs[q] = {} => queueRefs'[q] = {},
         \A c \in Client, q \in Queue : owed'[c][q] \in {owed[c][q], 0},
         \A m \in 1 .. Len(steps) : steps[m].do \notin {"free", "return"},
         \A q \in Queue : \A k \in 1 .. Len(fifo[q]) :
           Awaits(Head(todo[t]), t, q, k) =>
             \E m \in 1 .. Len(steps) : Awaits(steps[m], t, q, k)',
         \A q \in Queue : \A k \in 1 .. Len(fifo[q]) :
           Head(todo[t]).do = "lock" /\ Head(todo[t]).queue = q =>
             queueRefs'[q] = {} \/ \E m \in 1 .. Len(steps) : Awaits(steps[m], t, q, k)'
  PROVE  Freeing' /\ Debts'
<1>0. Types /\ Freeing /\ Debts /\ Registered
  BY DEF IInv
<1>1. /\ \A u \in Thread : u # t => todo'[u] = todo[u]
      /\ Len(todo'[t]) = Len(steps) + Len(todo[t]) - 1
      /\ \A m \in 1 .. Len(steps) : todo'[t][m] = steps[m]
      /\ \A m \in 1 .. Len(todo'[t]) : m > Len(steps) =>
              todo'[t][m] = todo[t][m - Len(steps) + 1]
  BY <1>0, Continues
<1>2. /\ todo[t] \in Seq(StepType) /\ Len(todo[t]) \in Nat \ {0} /\ Head(todo[t]) = todo[t][1]
      /\ Len(steps) \in Nat
  BY <1>0 DEF Types
<1>3. Grows({})
  BY DEF Grows
<1>4. \A u \in Thread : \A n \in DOMAIN todo'[u] : todo'[u][n].do \in {"free", "return"} =>
        \E l \in DOMAIN todo[u] :
          /\ todo'[u][n] = todo[u][l]
          /\ \A q \in Queue : \A k \in 1 .. Len(fifo[q]) : \A m \in 1 .. (l - 1) :
               /\ Awaits(todo[u][m], u, q, k) =>
                    \E i \in 1 .. (n - 1) : Awaits(todo[u][i], u, q, k)'
               /\ todo[u][m].do = "lock" /\ todo[u][m].queue = q =>
                    \/ queueRefs'[q] = {}
                    \/ \E i \in 1 .. (n - 1) :
                         \/ todo'[u][i].do = "lock" /\ todo'[u][i].queue = q
                         \/ Awaits(todo[u][i], u, q, k)'
  <2> TAKE u \in Thread
  <2> TAKE n \in DOMAIN todo'[u]
  <2> HAVE todo'[u][n].do \in {"free", "return"}
  <2>0. /\ DOMAIN todo[u] = 1 .. Len(todo[u]) /\ DOMAIN todo'[u] = 1 .. Len(todo'[u])
        /\ Len(todo[u]) \in Nat /\ Len(todo'[u]) \in Nat
    BY <1>0 DEF Types
  <2>1. CASE u # t
    <3>1. todo'[u] = todo[u]
      BY <1>1, <2>1
    <3>2. \A q \in Queue : \A k \in 1 .. Len(fifo[q]) : \A m \in 1 .. (n - 1) :
            Awaits(todo[u][m], u, q, k) => Awaits(todo[u][m], u, q, k)'
      BY <1>0, <1>3, <3>1, AwaitsLasts
    <3> QED
      BY <3>1, <3>2, <2>0
  <2>2. CASE u = t
    <3> DEFINE l == n - Len(steps) + 1
    <3>1. n > Len(steps)
      BY <2>0, <2>2, <1>1, <1>2
    <3>2. /\ n \in 1 .. Len(todo'[t]) /\ n \in Nat /\ Len(steps) \in Nat
          /\ Len(todo'[t]) = Len(steps) + Len(todo[t]) - 1 /\ Len(todo[t]) \in Nat
      BY <2>0, <2>2, <1>1, <1>2
    <3>3. todo'[t][n] = todo[t][l]
      BY <3>1, <3>2, <1>1
    <3>4. l \in DOMAIN todo[t] /\ l \in Nat
      BY <3>1, <3>2, <2>0, <2>2
    <3>5. \A m \in 2 .. (l - 1) : /\ m + Len(steps) - 1 \in 1 .. (n - 1)
                                  /\ todo'[t][m + Len(steps) - 1] = todo[t][m]
      <4> TAKE m \in 2 .. (l - 1)
      <4>1. /\ m + Len(steps) - 1 \in 1 .. (n - 1) /\ m + Len(steps) - 1 > Len(steps)
            /\ m + Len(steps) - 1 \in 1 .. Len(todo'[t])
            /\ (m + Len(steps) - 1) - Len(steps) + 1 = m
        BY <3>1, <3>2
      <4>2. todo'[t][m + Len(steps) - 1] = todo[t][(m + Len(steps) - 1) - Len(steps) + 1]
        BY <4>1, <1>1
      <4> QED
        BY <4>1, <4>2
    <3>6. \A i \in 1 .. Len(steps) : i \in 1 .. (n - 1) /\ todo'[t][i] = steps[i]
      BY <3>1, <3>2, <1>1
    <3> HIDE DEF l
    <3>7. ASSUME NEW q \in Queue, NEW k \in 1 .. Len(fifo[q]), NEW m \in 1 .. (l - 1)
          PROVE  /\ Awaits(todo[t][m], t, q, k) =>
                      \E i \in 1 .. (n - 1) : Awaits(todo[t][i], t, q, k)'
                 /\ todo[t][m].do = "lock" /\ todo[t][m].queue = q =>
                      \/ queueRefs'[q] = {}
                      \/ \E i \in 1 .. (n - 1) :
                           \/ todo'[t][i].do = "lock" /\ todo'[t][i].queue = q
                           \/ Awaits(todo[t][i], t, q, k)'
      <4>1. CASE m = 1
        BY <4>1, <3>6, <1>2
      <4>2. CASE m \in 2 .. (l - 1)
        <5>1. Awaits(todo[t][m], t, q, k) => Awaits(todo[t][m + Len(steps) - 1], t, q, k)'
          BY <1>0, <1>3, <3>5, <4>2, AwaitsLasts
        <5> QED
          BY <5>1, <4>2, <3>5
      <4> QED
        BY <4>1, <4>2, <3>4
    <3> QED
      BY <3>3, <3>4, <3>7, <2>2 DEF l
  <2> QED
    BY <2>1, <2>2
<1>5. Freeing'
  <2> SUFFICES ASSUME NEW u \in Thread, NEW n \in DOMAIN todo'[u], NEW b \in Buffer,
                      todo'[u][n].do = "free", todo'[u][n].buffer = b
               PROVE  /\ bufferRefs'[b] = {} /\ memory'[b] # "none"
                      /\ \A q \in Queue : \A k \in DOMAIN fifo'[q] : Is(fifo'[q][k], "use", b) =>
                           home'[b] = q \/ \E i \in 1 .. (n - 1) : Awaits(todo[u][i], u, q, k)'
    BY DEF Freeing
  <2>1. PICK l \in DOMAIN todo[u] :
          /\ todo'[u][n] = todo[u][l]
          /\ \A q \in Queue : \A k \in 1 .. Len(fifo[q]) : \A m \in 1 .. (l - 1) :
               Awaits(todo[u][m], u, q, k) =>
                 \E i \in 1 .. (n - 1) : Awaits(todo[u][i], u, q, k)'
    BY <1>4
  <2>2. /\ bufferRefs[b] = {} /\ memory[b] # "none"
        /\ \A q \in Queue : \A k \in DOMAIN fifo[q] : Is(fifo[q][k], "use", b) =>
             home[b] = q \/ \E m \in 1 .. (l - 1) : Awaits(todo[u][m], u, q, k)
    <3>1. todo[u][l].do = "free" /\ todo[u][l].buffer = b
      BY <2>1
    <3> QED
      BY <3>1, <1>0 DEF Freeing
  <2>3. ASSUME NEW q \in Queue, NEW k \in DOMAIN fifo'[q], Is(fifo'[q][k], "use", b)
        PROVE  home'[b] = q \/ \E i \in 1 .. (n - 1) : Awaits(todo[u][i], u, q, k)'
    <3>1. /\ DOMAIN fifo[q] = 1 .. Len(fifo[q]) /\ Len(fifo[q]) \in Nat
          /\ DOMAIN fifo'[q] = 1 .. Len(fifo'[q]) /\ Len(fifo'[q]) \in Nat
      BY <1>0 DEF Types
    <3>2. k \in 1 .. Len(fifo[q]) /\ fifo'[q][k] = fifo[q][k]
      BY <2>3, <3>1 DEF Grows, Is
    <3> QED
      BY <2>1, <2>2, <2>3, <3>1, <3>2 DEF Is
  <2> QED
    BY <2>2, <2>3
<1>6. Debts'
  <2>1. ASSUME NEW c \in Client, NEW q \in Queue
        PROVE  owed'[c][q] <= Len(fifo'[q])
    <3>1. /\ owed[c][q] <= Len(fifo[q]) /\ Len(fifo[q]) <= Len(fifo'[q])
          /\ owed[c][q] \in Nat /\ Len(fifo[q]) \in Nat /\ Len(fifo'[q]) \in Nat
      BY <1>0 DEF Debts, Grows, Types
    <3>2. owed'[c][q] = owed[c][q] \/ owed'[c][q] = 0
      OBVIOUS
    <3> QED
      BY <3>1, <3>2
  <2>2. ASSUME NEW c \in Client, NEW n \in DOMAIN todo'[c], todo'[c][n].do = "return", NEW q \in Queue
        PROVE  \/ owed'[c][q] = 0
               \/ q \in Made' /\ queueRefs'[q] = {}
               \/ \E i \in 1 .. (n - 1) :
                    \/ todo'[c][i].queue = q /\ todo'[c][i].do = "lock"
                    \/ Awaits(todo[c][i], c, q, owed[c][q])'
    <3> SUFFICES ASSUME owed'[c][q] # 0
                 PROVE  \/ q \in Made' /\ queueRefs'[q] = {}
                        \/ \E i \in 1 .. (n - 1) :
                             \/ todo'[c][i].queue = q /\ todo'[c][i].do = "lock"
                             \/ Awaits(todo[c][i], c, q, owed[c][q])'
      OBVIOUS
    <3>0. PICK k : k = owed[c][q]
      OBVIOUS
    <3>1. owed'[c][q] = k /\ k # 0 /\ k \in Nat /\ k \in 1 .. Len(fifo[q]) /\ c \in Thread
      <4>1. owed'[c][q] = k /\ k # 0
        BY <3>0
      <4>2. k \in Nat /\ k <= Len(fifo[q]) /\ Len(fifo[q]) \in Nat
        BY <3>0, <1>0 DEF Types, Debts
      <4> QED
        BY <4>1, <4>2 DEF Thread
    <3>2. PICK l \in DOMAIN todo[c] :
            /\ todo'[c][n] = todo[c][l]
            /\ \A m \in 1 .. (l - 1) :
                 /\ Awaits(todo[c][m], c, q, k) =>
                      \E i \in 1 .. (n - 1) : Awaits(todo[c][i], c, q, k)'
                 /\ todo[c][m].do = "lock" /\ todo[c][m].queue = q =>
                      \/ queueRefs'[q] = {}
                      \/ \E i \in 1 .. (n - 1) :
                           \/ todo'[c][i].do = "lock" /\ todo'[c][i].queue = q
                           \/ Awaits(todo[c][i], c, q, k)'
      BY <2>2, <3>1, <1>4
    <3>3. \/ q \in Made /\ queueRefs[q] = {}
          \/ \E m \in 1 .. (l - 1) :
               \/ todo[c][m].queue = q /\ todo[c][m].do = "lock"
               \/ Awaits(todo[c][m], c, q, k)
      BY <2>2, <3>0, <3>1, <3>2, <1>0 DEF Debts
    <3>4. Made' = Made
      BY DEF Made
    <3>5. q \in Made
      <4>1. fifo[q] # <<>>
        BY <3>1, <1>0 DEF Types
      <4> QED
        BY <4>1, <1>0 DEF Registered
    <3>6. \A i : Awaits(todo[c][i], c, q, k)' => Awaits(todo[c][i], c, q, owed[c][q])'
      BY <3>1 DEF Awaits
    <3> QED
      BY <3>1, <3>2, <3>3, <3>4, <3>5, <3>6
  <2> QED
    BY <2>1, <2>2 DEF Debts
<1> QED
  BY <1>5, <1>6

\* Markers and steps of threads change nothing about buffers.
LEMMA BuffersStay ==
  ASSUME IInv, Types', Grows({"use", "keep", "free"}), UNCHANGED <<bufferVars, held>>
  PROVE  Keeps' /\ Referenced' /\ Uses' /\ FreeOps'
<1>0. Types /\ Keeps /\ Referenced /\ Uses /\ FreeOps /\ UNCHANGED <<bufferRefs, memory, home, actions>>
  BY DEF IInv, bufferVars
<1>1. \A q \in Queue :
        /\ DOMAIN fifo[q] = 1 .. Len(fifo[q]) /\ Len(fifo[q]) \in Nat
        /\ DOMAIN fifo'[q] = 1 .. Len(fifo'[q]) /\ Len(fifo'[q]) \in Nat
  BY <1>0 DEF Types
<1>2. \A q \in Queue : \A k \in DOMAIN fifo[q] : k \in DOMAIN fifo'[q] /\ fifo'[q][k] = fifo[q][k]
  BY <1>1 DEF Grows
<1>3. \A q \in Queue : \A k \in DOMAIN fifo'[q] :
        \/ k \in DOMAIN fifo[q]
        \/ fifo'[q][k].kind \notin {"use", "keep", "free"}
  BY <1>1 DEF Grows
<1>4. Keeps'
  BY <1>0, <1>2, <1>3 DEF Keeps, Is
<1>5. Referenced'
  BY <1>0 DEF Referenced
<1>6. Uses'
  <2> SUFFICES ASSUME NEW q \in Queue, NEW b \in Buffer, NEW k \in DOMAIN fifo'[q],
                      Is(fifo'[q][k], "use", b)
               PROVE  Protected(q, b, k)'
    BY DEF Uses
  <2>1. k \in DOMAIN fifo[q] /\ fifo'[q][k] = fifo[q][k]
    BY <1>2, <1>3 DEF Is
  <2>2. Protected(q, b, k)
    BY <2>1, <1>0 DEF Uses
  <2>3. Covered(q, b, k) => Covered(q, b, k)'
    BY <2>1, <1>0, <1>2 DEF Covered
  <2> QED
    BY <2>1, <2>2, <2>3, <1>0 DEF Protected
<1>7. FreeOps'
  <2> SUFFICES ASSUME NEW q \in Queue, NEW k \in DOMAIN fifo'[q], NEW b \in Buffer,
                      Is(fifo'[q][k], "free", b)
               PROVE  /\ bufferRefs'[b] = {} /\ memory'[b] # "none"
                      /\ \A p \in Queue : \A j \in DOMAIN fifo'[p] :
                           Is(fifo'[p][j], "use", b) => p = q /\ j < k
    BY DEF FreeOps
  <2>1. k \in DOMAIN fifo[q] /\ Is(fifo[q][k], "free", b)
    BY <1>2, <1>3 DEF Is
  <2>2. /\ bufferRefs[b] = {} /\ memory[b] # "none"
        /\ \A p \in Queue : \A j \in DOMAIN fifo[p] : Is(fifo[p][j], "use", b) => p = q /\ j < k
    BY <2>1, <1>0 DEF FreeOps
  <2>3. \A p \in Queue : \A j \in DOMAIN fifo'[p] : Is(fifo'[p][j], "use", b) =>
          j \in DOMAIN fifo[p] /\ Is(fifo[p][j], "use", b)
    BY <1>2, <1>3 DEF Is
  <2> QED
    BY <2>2, <2>3, <1>0
<1> QED
  BY <1>4, <1>5, <1>6, <1>7

\* What a step of a destructor or of Device::wait() other than freeOp() changes.
Frame ==
  /\ UNCHANGED <<program, queues, bufferVars, held, running>>
  /\ fifo' \in [Queue -> Seq(OpType)] /\ Grows({"use", "keep", "free"})
  /\ queueRefs' \in [Queue -> SUBSET Ref] /\ owed' \in [Client -> [Queue -> Nat]]
  /\ \A q \in Queue : queueRefs[q] = {} => queueRefs'[q] = {}
  /\ \A q \in Queue : fifo'[q] # <<>> => fifo[q] # <<>> \/ q \in Made
  /\ \A c \in Client, q \in Queue : owed'[c][q] \in {owed[c][q], 0}

\* It is replaced by steps that wait for what it has not yet waited for.
Replaced(t, steps) ==
  /\ todo[t] # <<>> /\ Then(t, steps)
  /\ \A m \in 1 .. Len(steps) : steps[m].do \notin {"free", "return"} /\ steps[m].queue \in Made
  /\ \A q \in Queue : \A k \in 1 .. Len(fifo[q]) :
       /\ Awaits(Head(todo[t]), t, q, k) =>
            \E m \in 1 .. Len(steps) : Awaits(steps[m], t, q, k)'
       /\ Head(todo[t]).do = "lock" /\ Head(todo[t]).queue = q =>
            queueRefs'[q] = {} \/ \E m \in 1 .. Len(steps) : Awaits(steps[m], t, q, k)'

LEMMA FrameStays ==
  ASSUME Types, UNCHANGED <<program, queues, queueRefs, bufferVars, fifo, held, running, owed>>
  PROVE  Frame
<1>1. Grows({"use", "keep", "free"})
  BY StandsStill
<1> QED
  BY <1>1 DEF Frame, Types

LEMMA StepMoves ==
  ASSUME IInv, NEW t \in Thread, NEW steps \in Seq(StepType), Frame, Replaced(t, steps)
  PROVE  IInv'
<1>a. /\ UNCHANGED <<program, queues, bufferVars, held, running>> /\ Grows({"use", "keep", "free"})
      /\ todo[t] # <<>> /\ Then(t, steps)
      /\ \A q \in Queue : queueRefs[q] = {} => queueRefs'[q] = {}
      /\ \A q \in Queue : fifo'[q] # <<>> => fifo[q] # <<>> \/ q \in Made
      /\ \A m \in 1 .. Len(steps) : steps[m].do \notin {"free", "return"} /\ steps[m].queue \in Made
  BY DEF Frame, Replaced
<1>0. Types /\ Registered /\ Busy /\ UNCHANGED <<bufferRefs, memory, home, actions>>
  BY <1>a DEF IInv, bufferVars
<1>1. /\ todo' \in [Thread -> Seq(StepType)]
      /\ \A u \in Thread : u # t => todo'[u] = todo[u]
      /\ Len(todo'[t]) = Len(steps) + Len(todo[t]) - 1
      /\ \A m \in 1 .. Len(steps) : todo'[t][m] = steps[m]
      /\ \A m \in 1 .. Len(todo'[t]) : m > Len(steps) =>
              todo'[t][m] = todo[t][m - Len(steps) + 1]
  BY <1>0, <1>a, Continues
<1>2. Types'
  BY <1>0, <1>1, <1>a DEF Types, Frame
<1>3. Made' = Made
  BY <1>a DEF Made
<1>4. Registered'
  <2>1. \A q \in Queue : queueRefs'[q] # {} \/ fifo'[q] # <<>> => q \in Made'
    BY <1>0, <1>3, <1>a DEF Registered
  <2>2. ASSUME NEW u \in Thread, NEW n \in DOMAIN todo'[u], todo'[u][n].do \notin {"free", "return"}
        PROVE  todo'[u][n].queue \in Made'
    <3>1. CASE u # t
      BY <3>1, <2>2, <1>0, <1>1, <1>3 DEF Registered
    <3>2. CASE u = t /\ n <= Len(steps)
      <4>1. n \in 1 .. Len(steps)
        BY <3>2, <1>1
      <4> QED
        BY <4>1, <3>2, <1>1, <1>3, <1>a
    <3>3. CASE u = t /\ ~(n <= Len(steps))
      <4>1. /\ n \in 1 .. Len(todo'[t]) /\ Len(steps) \in Nat /\ Len(todo[t]) \in Nat
            /\ DOMAIN todo[t] = 1 .. Len(todo[t])
            /\ Len(todo'[t]) = Len(steps) + Len(todo[t]) - 1 /\ n > Len(steps)
        BY <3>3, <1>0, <1>1 DEF Types
      <4>2. n - Len(steps) + 1 \in DOMAIN todo[t]
        BY <4>1
      <4>3. todo'[t][n] = todo[t][n - Len(steps) + 1]
        BY <4>1, <1>1
      <4> QED
        BY <4>2, <4>3, <3>3, <2>2, <1>0, <1>3 DEF Registered
    <3> QED
      BY <3>1, <3>2, <3>3
  <2>3. \A b \in Buffer : /\ home'[b] # None => home'[b] \in Made'
                          /\ \A i \in DOMAIN actions'[b] : actions'[b][i] \in Made'
    BY <1>0, <1>3 DEF Registered
  <2> QED
    BY <2>1, <2>2, <2>3 DEF Registered
<1>5. Busy'
  <2> SUFFICES ASSUME NEW q \in Queue, running[q] PROVE fifo'[q] # <<>>
    BY <1>a DEF Busy
  <2>1. Len(fifo[q]) # 0 /\ Len(fifo[q]) \in Nat /\ Len(fifo'[q]) \in Nat
    BY <1>0 DEF Busy, Types, Frame
  <2> QED
    BY <2>1, <1>a DEF Grows
<1>6. Keeps' /\ Referenced' /\ Uses' /\ FreeOps'
  BY <1>2, <1>a, BuffersStay
<1>7. Freeing' /\ Debts'
  <2>1. Grows({"use"})
    BY <1>a DEF Grows
  <2>2. /\ \A q \in Queue : \A k \in 1 .. Len(fifo[q]) :
             Awaits(Head(todo[t]), t, q, k) =>
               \E m \in 1 .. Len(steps) : Awaits(steps[m], t, q, k)'
        /\ \A q \in Queue : \A k \in 1 .. Len(fifo[q]) :
             Head(todo[t]).do = "lock" /\ Head(todo[t]).queue = q =>
               queueRefs'[q] = {} \/ \E m \in 1 .. Len(steps) : Awaits(steps[m], t, q, k)'
        /\ \A c \in Client, q \in Queue : owed'[c][q] \in {owed[c][q], 0}
        /\ \A m \in 1 .. Len(steps) : steps[m].do \notin {"free", "return"}
        /\ \A b \in Buffer : memory[b] # "none" => memory'[b] # "none"
    BY <1>0 DEF Frame, Replaced
  <2> QED
    BY <2>1, <2>2, <1>0, <1>2, <1>a, StepIsOver
<1> QED
  BY <1>2, <1>4, <1>5, <1>6, <1>7 DEF IInv

-----------------------------------------------------------------------------
(* The steps of a thread.                                                   *)

LEMMA HeadOf ==
  ASSUME IInv, NEW t \in Thread, todo[t] # <<>>
  PROVE  /\ Head(todo[t]) \in StepType /\ Head(todo[t]) = todo[t][1] /\ 1 \in DOMAIN todo[t]
         /\ Head(todo[t]).do \notin {"free", "return"} => Target(t) \in Queue /\ Target(t) \in Made
<1>1. Head(todo[t]) \in StepType /\ Head(todo[t]) = todo[t][1] /\ 1 \in DOMAIN todo[t]
  BY DEF IInv, Types
<1> QED
  BY <1>1 DEF IInv, Registered, StepType, Target

LEMMA StepsAreTyped ==
  ASSUME NEW q \in Queue, NEW do \in Dos \ {"free"}, NEW ref \in Ref
  PROVE  /\ Step(do, q, None, ref) \in StepType /\ None \in Ref
         /\ Step(do, q, None, ref).do = do /\ Step(do, q, None, ref).queue = q
BY DEF Step, StepType, Ref

LEMMA LockQueueStep ==
  ASSUME IInv, NEW t \in Thread, LockQueue(t), UNCHANGED program
  PROVE  IInv'
<1>0. /\ Types /\ todo[t] # <<>> /\ Head(todo[t]).do = "lock" /\ fifo' = fifo /\ owed' = owed
      /\ UNCHANGED <<program, queues, bufferVars, held, running>>
  BY DEF IInv, LockQueue, At, workerVars
<1>1. PICK q \in Queue : q = Target(t) /\ q \in Made
  BY <1>0, HeadOf
<1>2. \A p, k : ~Awaits(Head(todo[t]), t, p, k)
  BY <1>0 DEF Awaits
<1>3. \A p : Head(todo[t]).queue = p => p = q
  BY <1>1 DEF Target
<1>4. CASE queueRefs[q] = {}
  <2>1. Then(t, <<>>) /\ queueRefs' = queueRefs /\ <<>> \in Seq(StepType) /\ Len(<<>>) = 0
    BY <1>1, <1>4 DEF LockQueue
  <2>2. Frame
    BY <1>0, <2>1, FrameStays
  <2>3. Replaced(t, <<>>)
    BY <1>0, <1>2, <1>3, <1>4, <2>1 DEF Replaced
  <2> QED
    BY <2>1, <2>2, <2>3, StepMoves
<1>5. CASE queueRefs[q] # {}
  <2> DEFINE steps == <<Step("wait", q, None, None), Step("release", q, None, Locked(t))>>
  <2>1. Then(t, steps) /\ queueRefs' = [queueRefs EXCEPT ![q] = @ \cup {Locked(t)}]
    BY <1>1, <1>5 DEF LockQueue
  <2>2. Locked(t) \in Ref /\ None \in Ref
    BY DEF Locked, Ref, Tagged
  <2>3. /\ steps \in Seq(StepType) /\ Len(steps) = 2
        /\ steps[1].do = "wait" /\ steps[1].queue = q
        /\ steps[2].do = "release" /\ steps[2].queue = q
    BY <2>2, StepsAreTyped DEF Dos, Step
  <2>4. queueRefs' \in [Queue -> SUBSET Ref] /\ \A p \in Queue : queueRefs[p] = {} => queueRefs'[p] = {}
    BY <1>0, <1>5, <2>1, <2>2 DEF Types
  <2>5. Grows({"use", "keep", "free"})
    BY <1>0, StandsStill
  <2>6. Frame
    BY <1>0, <2>4, <2>5 DEF Frame, Types
  <2> HIDE DEF steps
  <2>7. \A k : Awaits(steps[1], t, q, k)'
    BY <2>3 DEF Awaits
  <2>8. Replaced(t, steps)
    BY <1>0, <1>1, <1>2, <1>3, <2>1, <2>3, <2>7 DEF Replaced
  <2> QED
    BY <2>3, <2>6, <2>8, StepMoves
<1> QED
  BY <1>4, <1>5

LEMMA WaitQueueStep ==
  ASSUME IInv, NEW t \in Thread, WaitQueue(t), UNCHANGED program
  PROVE  IInv'
<1>0. /\ Types /\ todo[t] # <<>> /\ Head(todo[t]).do = "wait"
      /\ UNCHANGED <<program, queues, queueRefs, bufferVars, fifo, held, running, owed>>
  BY DEF IInv, WaitQueue, At, workerVars, queueVars
<1>1. PICK q \in Queue : q = Target(t) /\ q \in Made
  BY <1>0, HeadOf
<1>2. \A p, k : Awaits(Head(todo[t]), t, p, k) => p = q
  BY <1>1 DEF Awaits, Target
<1>3. Frame
  BY <1>0, FrameStays
<1>4. CASE fifo[q] = <<>>
  <2>1. Then(t, <<>>) /\ <<>> \in Seq(StepType) /\ Len(<<>>) = 0 /\ Len(fifo[q]) = 0
    BY <1>1, <1>4 DEF WaitQueue
  <2>2. Replaced(t, <<>>)
    BY <1>0, <1>2, <2>1 DEF Replaced
  <2> QED
    BY <1>3, <2>1, <2>2, StepMoves
<1>5. CASE fifo[q] # <<>>
  <2> DEFINE steps == <<Step("mark", q, None, None)>>
  <2>1. Then(t, steps)
    BY <1>1, <1>5 DEF WaitQueue
  <2>2. /\ steps \in Seq(StepType) /\ Len(steps) = 1
        /\ steps[1].do = "mark" /\ steps[1].queue = q
    BY StepsAreTyped DEF Dos, Step, Ref
  <2> HIDE DEF steps
  <2>3. \A k : Awaits(steps[1], t, q, k)'
    BY <2>2 DEF Awaits
  <2>4. Replaced(t, steps)
    BY <1>0, <1>1, <1>2, <2>1, <2>2, <2>3 DEF Replaced
  <2> QED
    BY <1>3, <2>2, <2>4, StepMoves
<1> QED
  BY <1>4, <1>5

LEMMA MarkQueueStep ==
  ASSUME IInv, NEW t \in Thread, MarkQueue(t), UNCHANGED program
  PROVE  IInv'
<1>0. /\ Types /\ todo[t] # <<>> /\ Head(todo[t]).do = "mark"
      /\ UNCHANGED <<program, queues, queueRefs, bufferVars, held, running, owed>>
  BY DEF IInv, MarkQueue, At, queueVars
<1>1. PICK q \in Queue : q = Target(t) /\ q \in Made
  BY <1>0, HeadOf
<1>2. \A p, k : Awaits(Head(todo[t]), t, p, k) => p = q
  BY <1>1 DEF Awaits, Target
<1> DEFINE steps == <<Step("await", q, None, None)>>
           op == Op("marker", None, t)
<1>3. Then(t, steps) /\ Push(q, op)
  BY <1>1 DEF MarkQueue
<1>4. op \in OpType /\ op.kind \notin {"use", "keep", "free"}
  BY DEF Op, OpType, Kinds
<1>5. /\ steps \in Seq(StepType) /\ Len(steps) = 1
      /\ steps[1].do = "await" /\ steps[1].queue = q
  BY StepsAreTyped DEF Dos, Step, Ref
<1>6. /\ fifo' \in [Queue -> Seq(OpType)] /\ Grows({"use", "keep", "free"})
      /\ Len(fifo'[q]) = Len(fifo[q]) + 1 /\ fifo'[q][Len(fifo'[q])] = Op("marker", None, t)
      /\ \A p \in Queue : p # q => fifo'[p] = fifo[p]
  BY <1>0, <1>3, <1>4, Pushes
<1>7. Frame
  BY <1>0, <1>1, <1>6 DEF Frame, Types
<1> HIDE DEF steps, op
<1>8. ASSUME NEW k \in 1 .. Len(fifo[q])
      PROVE  Awaits(steps[1], t, q, k)'
  <2>1. Len(fifo'[q]) \in DOMAIN fifo'[q] /\ Len(fifo'[q]) > k
    BY <1>0, <1>6 DEF Types
  <2> QED
    BY <2>1, <1>5, <1>6 DEF Awaits
<1>9. Replaced(t, steps)
  BY <1>0, <1>1, <1>2, <1>3, <1>5, <1>8 DEF Replaced
<1> QED
  BY <1>5, <1>7, <1>9, StepMoves

LEMMA AwaitMarkerStep ==
  ASSUME IInv, NEW t \in Thread, AwaitMarker(t), UNCHANGED program
  PROVE  IInv'
<1>0. /\ Types /\ todo[t] # <<>> /\ Head(todo[t]).do = "await" /\ Then(t, <<>>)
      /\ UNCHANGED <<program, queues, queueRefs, bufferVars, fifo, held, running, owed>>
  BY DEF IInv, AwaitMarker, At, queueVars, workerVars
<1>1. \A q, k : ~Awaits(Head(todo[t]), t, q, k)
  BY <1>0 DEF Awaits, AwaitMarker, Target
<1>2. Frame
  BY <1>0, FrameStays
<1>3. Replaced(t, <<>>) /\ <<>> \in Seq(StepType)
  BY <1>0, <1>1 DEF Replaced
<1> QED
  BY <1>2, <1>3, StepMoves

LEMMA ReleaseQueueStep ==
  ASSUME IInv, NEW t \in Thread, ReleaseQueue(t), UNCHANGED program
  PROVE  IInv'
<1>0. /\ Types /\ todo[t] # <<>> /\ Head(todo[t]).do = "release" /\ fifo' = fifo /\ owed' = owed
      /\ UNCHANGED <<program, queues, bufferVars, held, running>>
  BY DEF IInv, ReleaseQueue, At, workerVars
<1>1. PICK q \in Queue : q = Target(t) /\ q \in Made
  BY <1>0, HeadOf
<1>2. \A p, k : ~Awaits(Head(todo[t]), t, p, k)
  BY <1>0 DEF Awaits
<1>3. PICK ref : /\ Then(t, AfterQueue(q, ref))
                 /\ queueRefs' = [queueRefs EXCEPT ![q] = @ \ {ref}]
  BY <1>1 DEF ReleaseQueue
<1>4. queueRefs' \in [Queue -> SUBSET Ref] /\ \A p \in Queue : queueRefs[p] = {} => queueRefs'[p] = {}
  BY <1>0, <1>3 DEF Types
<1>5. Grows({"use", "keep", "free"})
  BY <1>0, StandsStill
<1>6. Frame
  BY <1>0, <1>4, <1>5 DEF Frame, Types
<1>7. PICK steps : steps = AfterQueue(q, ref)
  OBVIOUS
<1>8. CASE queueRefs[q] = {ref}
  <2>1. steps = <<Step("wait", q, None, None), Step("end", q, None, None)>>
    BY <1>7, <1>8 DEF AfterQueue, Destroy
  <2>2. /\ steps \in Seq(StepType) /\ Len(steps) = 2
        /\ steps[1].do = "wait" /\ steps[1].queue = q
        /\ steps[2].do = "end" /\ steps[2].queue = q
    BY <2>1, StepsAreTyped DEF Dos, Step, Ref
  <2>3. Replaced(t, steps)
    BY <1>0, <1>1, <1>2, <1>3, <1>7, <2>2 DEF Replaced
  <2> QED
    BY <1>6, <2>2, <2>3, StepMoves
<1>9. CASE queueRefs[q] # {ref}
  <2>1. steps = <<>> /\ steps \in Seq(StepType) /\ Len(steps) = 0
    BY <1>7, <1>9 DEF AfterQueue
  <2>2. Replaced(t, steps)
    BY <1>0, <1>2, <1>3, <1>7, <2>1 DEF Replaced
  <2> QED
    BY <1>6, <2>1, <2>2, StepMoves
<1> QED
  BY <1>8, <1>9

LEMMA EndQueueStep ==
  ASSUME IInv, NEW t \in Thread, EndQueue(t), UNCHANGED program
  PROVE  IInv'
<1>0. /\ Types /\ todo[t] # <<>> /\ Head(todo[t]).do = "end" /\ Then(t, <<>>)
      /\ UNCHANGED <<program, queues, queueRefs, bufferVars, fifo, held, running, owed>>
  BY DEF IInv, EndQueue, At, workerVars
<1>1. \A q, k : ~Awaits(Head(todo[t]), t, q, k)
  BY <1>0 DEF Awaits
<1>2. Frame
  BY <1>0, FrameStays
<1>3. Replaced(t, <<>>) /\ <<>> \in Seq(StepType)
  BY <1>0, <1>1 DEF Replaced
<1> QED
  BY <1>2, <1>3, StepMoves

LEMMA ReturnFromWaitStep ==
  ASSUME IInv, NEW c \in Client, ReturnFromWait(c), UNCHANGED program
  PROVE  IInv'
<1>0. /\ Types /\ todo[c] # <<>> /\ Head(todo[c]).do = "return" /\ Then(c, <<>>) /\ c \in Thread
      /\ UNCHANGED <<program, queues, queueRefs, bufferVars, fifo, held, running>>
      /\ owed' = [owed EXCEPT ![c] = [q \in Queue |-> 0]]
  BY DEF IInv, ReturnFromWait, At, queueVars, workerVars, Thread
<1>1. \A q, k : ~Awaits(Head(todo[c]), c, q, k)
  BY <1>0 DEF Awaits
<1>2. /\ owed' \in [Client -> [Queue -> Nat]]
      /\ \A d \in Client, q \in Queue : owed'[d][q] \in {owed[d][q], 0}
  BY <1>0 DEF Types
<1>3. Grows({"use", "keep", "free"})
  BY <1>0, StandsStill
<1>4. Frame
  BY <1>0, <1>2, <1>3 DEF Frame, Types
<1>5. Replaced(c, <<>>) /\ <<>> \in Seq(StepType)
  BY <1>0, <1>1 DEF Replaced
<1> QED
  BY <1>0, <1>4, <1>5, StepMoves

-----------------------------------------------------------------------------
(* What calls of the program and the workers leave as it is.                *)

\* A buffer nobody refers to stays so, and only referenced buffers are used.
Abandons ==
  /\ \A b \in Buffer : bufferRefs[b] = {} /\ memory[b] # "none" =>
       bufferRefs'[b] = {} /\ memory'[b] # "none" /\ home'[b] = home[b]
  /\ \A q \in Queue : \A k \in 1 .. Len(fifo'[q]) :
       k > Len(fifo[q]) /\ fifo'[q][k].kind = "use" => bufferRefs[fifo'[q][k].buffer] # {}

\* The thread t awaits the uses of what it is about to free.
Prepared(t) ==
  \A n \in DOMAIN todo[t] : \A b \in Buffer :
    todo[t][n].do = "free" /\ todo[t][n].buffer = b =>
      /\ bufferRefs[b] = {} /\ memory[b] # "none"
      /\ \A q \in Queue : \A k \in DOMAIN fifo[q] : Is(fifo[q][k], "use", b) =>
           home[b] = q \/ \E m \in 1 .. (n - 1) : Awaits(todo[t][m], t, q, k)

LEMMA Extended ==
  ASSUME Types, Types', NEW kinds, Grows(kinds)
  PROVE  \A q \in Queue :
           /\ DOMAIN fifo[q] = 1 .. Len(fifo[q]) /\ DOMAIN fifo'[q] = 1 .. Len(fifo'[q])
           /\ Len(fifo[q]) \in Nat /\ Len(fifo'[q]) \in Nat
           /\ \A k \in DOMAIN fifo[q] : k \in DOMAIN fifo'[q] /\ fifo'[q][k] = fifo[q][k]
           /\ \A k \in DOMAIN fifo'[q] :
                k \in DOMAIN fifo[q] \/ (k > Len(fifo[q]) /\ fifo'[q][k].kind \notin kinds)
<1> TAKE q \in Queue
<1>1. /\ DOMAIN fifo[q] = 1 .. Len(fifo[q]) /\ DOMAIN fifo'[q] = 1 .. Len(fifo'[q])
      /\ Len(fifo[q]) \in Nat /\ Len(fifo'[q]) \in Nat
  BY DEF Types
<1>2. \A k \in 1 .. Len(fifo[q]) : fifo'[q][k] = fifo[q][k]
  BY DEF Grows
<1>3. Len(fifo[q]) <= Len(fifo'[q])
  BY DEF Grows
<1>4. \A k \in 1 .. Len(fifo'[q]) : k > Len(fifo[q]) => fifo'[q][k].kind \notin kinds
  BY DEF Grows
<1>5. ASSUME NEW k \in DOMAIN fifo[q]
      PROVE  k \in DOMAIN fifo'[q] /\ fifo'[q][k] = fifo[q][k]
  <2>1. k \in 1 .. Len(fifo[q])
    BY <1>1
  <2>2. k \in 1 .. Len(fifo'[q]) /\ fifo'[q][k] = fifo[q][k]
    BY <2>1, <1>1, <1>2, <1>3
  <2> QED
    BY <2>2, <1>1
<1>6. ASSUME NEW k \in DOMAIN fifo'[q]
      PROVE  k \in DOMAIN fifo[q] \/ (k > Len(fifo[q]) /\ fifo'[q][k].kind \notin kinds)
  <2>1. k \in 1 .. Len(fifo'[q])
    BY <1>1
  <2>2. k \in 1 .. Len(fifo[q]) \/ k > Len(fifo[q])
    BY <2>1, <1>1
  <2> QED
    BY <2>1, <2>2, <1>1, <1>4
<1> QED
  BY <1>1, <1>5, <1>6

LEMMA FreeingStays ==
  ASSUME IInv, Types', Grows({}), Abandons,
         \A t \in Thread : todo'[t] = todo[t] \/ Prepared(t)'
  PROVE  Freeing'
<1>0. Types /\ Freeing
  BY DEF IInv
<1>1. \A q \in Queue : \A k \in DOMAIN fifo'[q] :
        \/ k \in DOMAIN fifo[q] /\ fifo'[q][k] = fifo[q][k]
        \/ k \in 1 .. Len(fifo'[q]) /\ k > Len(fifo[q])
  BY <1>0, Extended
<1> SUFFICES ASSUME NEW t \in Thread PROVE Prepared(t)'
  BY DEF Freeing, Prepared
<1>2. CASE todo'[t] = todo[t]
  <2> SUFFICES ASSUME NEW n \in DOMAIN todo'[t], NEW b \in Buffer,
                      todo'[t][n].do = "free", todo'[t][n].buffer = b
               PROVE  /\ bufferRefs'[b] = {} /\ memory'[b] # "none"
                      /\ \A q \in Queue : \A k \in DOMAIN fifo'[q] : Is(fifo'[q][k], "use", b) =>
                           home'[b] = q \/ \E m \in 1 .. (n - 1) : Awaits(todo[t][m], t, q, k)'
    BY DEF Prepared
  <2>1. /\ bufferRefs[b] = {} /\ memory[b] # "none"
        /\ \A q \in Queue : \A k \in DOMAIN fifo[q] : Is(fifo[q][k], "use", b) =>
             home[b] = q \/ \E m \in 1 .. (n - 1) : Awaits(todo[t][m], t, q, k)
    BY <1>0, <1>2 DEF Freeing
  <2>2. bufferRefs'[b] = {} /\ memory'[b] # "none" /\ home'[b] = home[b]
    BY <2>1 DEF Abandons
  <2>3. ASSUME NEW q \in Queue, NEW k \in DOMAIN fifo'[q], Is(fifo'[q][k], "use", b)
        PROVE  home'[b] = q \/ \E m \in 1 .. (n - 1) : Awaits(todo[t][m], t, q, k)'
    <3>1. k \in DOMAIN fifo[q] /\ fifo'[q][k] = fifo[q][k]
      BY <1>1, <2>1, <2>3 DEF Abandons, Is
    <3>2. \A m : Awaits(todo[t][m], t, q, k) => Awaits(todo[t][m], t, q, k)'
      BY <1>0, <1>2, AwaitsLasts
    <3> QED
      BY <2>1, <2>2, <2>3, <3>1, <3>2
  <2> QED
    BY <2>2, <2>3
<1> QED
  BY <1>2

LEMMA FreeOpsStay ==
  ASSUME IInv, Types', Grows({"free"}), Abandons
  PROVE  FreeOps'
<1>0. Types /\ FreeOps
  BY DEF IInv
<1>1. \A q \in Queue : \A k \in DOMAIN fifo'[q] :
        \/ k \in DOMAIN fifo[q] /\ fifo'[q][k] = fifo[q][k]
        \/ k \in 1 .. Len(fifo'[q]) /\ k > Len(fifo[q]) /\ fifo'[q][k].kind # "free"
  BY <1>0, Extended
<1> SUFFICES ASSUME NEW q \in Queue, NEW k \in DOMAIN fifo'[q], NEW b \in Buffer,
                    Is(fifo'[q][k], "free", b)
             PROVE  /\ bufferRefs'[b] = {} /\ memory'[b] # "none"
                    /\ \A p \in Queue : \A j \in DOMAIN fifo'[p] :
                         Is(fifo'[p][j], "use", b) => p = q /\ j < k
  BY DEF FreeOps
<1>2. k \in DOMAIN fifo[q] /\ Is(fifo[q][k], "free", b)
  BY <1>1 DEF Is
<1>3. /\ bufferRefs[b] = {} /\ memory[b] # "none"
      /\ \A p \in Queue : \A j \in DOMAIN fifo[p] : Is(fifo[p][j], "use", b) => p = q /\ j < k
  BY <1>0, <1>2 DEF FreeOps
<1>4. \A p \in Queue : \A j \in DOMAIN fifo'[p] : Is(fifo'[p][j], "use", b) =>
        j \in DOMAIN fifo[p] /\ Is(fifo[p][j], "use", b)
  BY <1>1, <1>3 DEF Abandons, Is
<1> QED
  BY <1>3, <1>4 DEF Abandons

LEMMA DebtsStay ==
  ASSUME IInv, Types', Grows({}), owed' = owed, Made \subseteq Made',
         \A q \in Made : queueRefs[q] = {} => queueRefs'[q] = {},
         \A c \in Client : \/ todo'[c] = todo[c]
                           \/ \A n \in DOMAIN todo'[c] : todo'[c][n].do # "return"
  PROVE  Debts'
<1>0. Types /\ Debts
  BY DEF IInv
<1>1. ASSUME NEW c \in Client, NEW q \in Queue
      PROVE  owed'[c][q] <= Len(fifo'[q])
  <2>1. /\ owed[c][q] <= Len(fifo[q]) /\ Len(fifo[q]) <= Len(fifo'[q])
        /\ owed[c][q] \in Nat /\ Len(fifo[q]) \in Nat /\ Len(fifo'[q]) \in Nat
    BY <1>0 DEF Debts, Grows, Types
  <2> QED
    BY <2>1
<1>2. ASSUME NEW c \in Client, NEW n \in DOMAIN todo'[c], todo'[c][n].do = "return", NEW q \in Queue
      PROVE  \/ owed'[c][q] = 0
             \/ q \in Made' /\ queueRefs'[q] = {}
             \/ \E m \in 1 .. (n - 1) :
                  \/ todo'[c][m].queue = q /\ todo'[c][m].do = "lock"
                  \/ Awaits(todo[c][m], c, q, owed[c][q])'
  <2>0. PICK k : k = owed[c][q]
    OBVIOUS
  <2>1. todo'[c] = todo[c]
    BY <1>2
  <2>2. \/ owed[c][q] = 0
        \/ q \in Made /\ queueRefs[q] = {}
        \/ \E m \in 1 .. (n - 1) :
             \/ todo[c][m].queue = q /\ todo[c][m].do = "lock"
             \/ Awaits(todo[c][m], c, q, k)
    BY <2>0, <2>1, <1>0, <1>2 DEF Debts
  <2>3. \A m : Awaits(todo[c][m], c, q, k) => Awaits(todo[c][m], c, q, k)'
    BY <1>0, <2>1, AwaitsLasts
  <2>4. \A m : Awaits(todo[c][m], c, q, k)' => Awaits(todo[c][m], c, q, owed[c][q])'
    BY <2>0 DEF Awaits
  <2> QED
    BY <2>1, <2>2, <2>3, <2>4
<1> QED
  BY <1>1, <1>2 DEF Debts

\* What protects the uses of a live buffer stays, or another thing protects them.
Protects ==
  /\ \A b \in Buffer : memory[b] = "live" =>
       home'[b] = home[b] /\ \A i \in DOMAIN actions[b] :
                               i \in DOMAIN actions'[b] /\ actions'[b][i] = actions[b][i]
  /\ \A q \in Queue, b \in Buffer : \A k \in DOMAIN fifo[q] : Is(fifo[q][k], "use", b) =>
       /\ memory[b] = "live" => memory'[b] = "live"
       /\ Handle(fifo[q][k].by) \in bufferRefs[b] =>
            Handle(fifo[q][k].by) \in bufferRefs'[b] \/ Covered(q, b, k)
  /\ \A q \in Queue, b \in Buffer : \A k \in 1 .. Len(fifo'[q]) :
       k > Len(fifo[q]) /\ Is(fifo'[q][k], "use", b) => Protected(q, b, k)'

LEMMA UsesStay ==
  ASSUME IInv, Types', Grows({}), Protects
  PROVE  Uses'
<1>0. Types /\ Uses
  BY DEF IInv
<1>1. \A q \in Queue : \A k \in DOMAIN fifo'[q] :
        \/ k \in DOMAIN fifo[q] /\ fifo'[q][k] = fifo[q][k]
        \/ k \in 1 .. Len(fifo'[q]) /\ k > Len(fifo[q])
  BY <1>0, Extended
<1>2. \A q \in Queue : \A k \in DOMAIN fifo[q] : k \in DOMAIN fifo'[q] /\ fifo'[q][k] = fifo[q][k]
  BY <1>0, Extended
<1> SUFFICES ASSUME NEW q \in Queue, NEW b \in Buffer, NEW k \in DOMAIN fifo'[q],
                    Is(fifo'[q][k], "use", b)
             PROVE  Protected(q, b, k)'
  BY DEF Uses
<1>3. CASE k \in DOMAIN fifo[q] /\ fifo'[q][k] = fifo[q][k]
  <2>1. Protected(q, b, k) /\ Is(fifo[q][k], "use", b)
    BY <1>0, <1>3 DEF Uses
  <2>2. Covered(q, b, k) => Covered(q, b, k)'
    BY <1>2, <1>3, <2>1 DEF Covered, Protects, Protected
  <2> QED
    BY <1>3, <2>1, <2>2 DEF Protected, Protects
<1>4. CASE k \in 1 .. Len(fifo'[q]) /\ k > Len(fifo[q])
  BY <1>4 DEF Protects
<1> QED
  BY <1>1, <1>3, <1>4

LEMMA KeepsStay ==
  ASSUME IInv, Types', Grows({"keep"}),
         \A q \in Queue : held'[q] = held[q] \/ held'[q] = None,
         \A q \in Queue, b \in Buffer : Keeper(q) \in bufferRefs[b] => Keeper(q) \in bufferRefs'[b]
  PROVE  Keeps'
<1>0. Types /\ Keeps
  BY DEF IInv
<1>1. \A q \in Queue : \A k \in DOMAIN fifo'[q] :
        \/ k \in DOMAIN fifo[q] /\ fifo'[q][k] = fifo[q][k]
        \/ fifo'[q][k].kind # "keep"
  BY <1>0, Extended
<1> QED
  BY <1>0, <1>1 DEF Keeps, Is

-----------------------------------------------------------------------------
LEMMA FreeMemoryStep ==
  ASSUME IInv, NEW t \in Thread, FreeMemory(t), UNCHANGED program
  PROVE  IInv'
<1>0. /\ Types /\ todo[t] # <<>> /\ Head(todo[t]).do = "free" /\ Then(t, <<>>)
      /\ UNCHANGED <<program, queues, queueRefs, bufferRefs, home, actions, held, running, owed>>
  BY DEF IInv, FreeMemory, At, queueVars
<1>1. PICK b \in Buffer : b = Head(todo[t]).buffer
  BY <1>0, HeadOf DEF StepType
<1>2. /\ bufferRefs[b] = {} /\ memory[b] # "none"
      /\ \A q \in Queue : \A k \in DOMAIN fifo[q] : Is(fifo[q][k], "use", b) => home[b] = q
  <2>1. todo[t][1].do = "free" /\ todo[t][1].buffer = b /\ 1 \in DOMAIN todo[t]
    BY <1>0, <1>1, HeadOf
  <2>2. /\ bufferRefs[b] = {} /\ memory[b] # "none"
        /\ \A q \in Queue : \A k \in DOMAIN fifo[q] : Is(fifo[q][k], "use", b) =>
             home[b] = q \/ \E m \in 1 .. (1 - 1) : Awaits(todo[t][m], t, q, k)
    BY <2>1 DEF IInv, Freeing
  <2> QED
    BY <2>2
<1>3. /\ todo' \in [Thread -> Seq(StepType)]
      /\ \A u \in Thread : \A n \in DOMAIN todo'[u] : \E l \in DOMAIN todo[u] : todo'[u][n] = todo[u][l]
  <2>1. /\ todo' \in [Thread -> Seq(StepType)]
        /\ \A u \in Thread : u # t => todo'[u] = todo[u]
        /\ Len(todo'[t]) = Len(<<>>) + Len(todo[t]) - 1
        /\ \A m \in 1 .. Len(todo'[t]) : m > Len(<<>>) =>
             todo'[t][m] = todo[t][m - Len(<<>>) + 1]
    <3>1. <<>> \in Seq(StepType)
      OBVIOUS
    <3> QED
      BY <1>0, <3>1, Continues
  <2>2. /\ Len(<<>>) = 0 /\ Len(todo[t]) \in Nat /\ DOMAIN todo[t] = 1 .. Len(todo[t])
        /\ DOMAIN todo'[t] = 1 .. Len(todo'[t])
    BY <1>0, <2>1 DEF Types
  <2>3. \A m \in DOMAIN todo'[t] : m + 1 \in DOMAIN todo[t] /\ todo'[t][m] = todo[t][m + 1]
    BY <2>1, <2>2
  <2> QED
    BY <2>1, <2>3
<1>4. ASSUME Types', Grows({"use", "keep"}),
             \A q \in Queue : fifo'[q] # <<>> => fifo[q] # <<>> \/ q \in Made,
             FreeOps', \A d \in Buffer : memory'[d] # memory[d] => d = b /\ memory'[d] = "freed",
             \A q \in Queue : \A k \in DOMAIN fifo[q] : Is(fifo[q][k], "use", b) => memory'[b] = memory[b]
      PROVE  IInv'
  <2>1. Grows({"use"}) /\ Grows({"keep"}) /\ Grows({})
    BY <1>4 DEF Grows
  <2>2. Freeing' /\ Debts'
    <3>1. \A d \in Buffer : memory[d] # "none" => memory'[d] # "none"
      BY <1>4
    <3>2. \A q, k : ~Awaits(Head(todo[t]), t, q, k)
      BY <1>0 DEF Awaits
    <3>3. <<>> \in Seq(StepType) /\ \A m \in 1 .. Len(<<>>) : <<>>[m].do \notin {"free", "return"}
      OBVIOUS
    <3> QED
      BY <1>0, <1>4, <2>1, <3>1, <3>2, <3>3, StepIsOver
  <2>3. Keeps'
    BY <1>0, <1>4, <2>1, KeepsStay
  <2>4. Uses'
    <3>1. \A q \in Queue, d \in Buffer : \A k \in 1 .. Len(fifo'[q]) :
            k > Len(fifo[q]) => ~Is(fifo'[q][k], "use", d)
      BY <2>1 DEF Grows, Is
    <3>2. \A q \in Queue, d \in Buffer : \A k \in DOMAIN fifo[q] : Is(fifo[q][k], "use", d) =>
            memory'[d] = memory[d]
      BY <1>4
    <3>3. Protects
      BY <1>0, <3>1, <3>2 DEF Protects
    <3> QED
      BY <1>4, <2>1, <3>3, UsesStay
  <2>5. Referenced'
    BY <1>0, <1>2, <1>4 DEF IInv, Referenced
  <2>6. Registered'
    <3>1. Made' = Made
      BY <1>0 DEF Made
    <3>2. \A q \in Queue : queueRefs'[q] # {} \/ fifo'[q] # <<>> => q \in Made'
      BY <1>0, <1>4, <3>1 DEF IInv, Registered
    <3>3. \A u \in Thread : \A n \in DOMAIN todo'[u] :
            todo'[u][n].do \notin {"free", "return"} => todo'[u][n].queue \in Made'
      BY <1>3, <3>1 DEF IInv, Registered
    <3>4. \A d \in Buffer : /\ home'[d] # None => home'[d] \in Made'
                            /\ \A i \in DOMAIN actions'[d] : actions'[d][i] \in Made'
      BY <1>0, <3>1 DEF IInv, Registered
    <3> QED
      BY <3>2, <3>3, <3>4 DEF Registered
  <2>7. Busy'
    <3> SUFFICES ASSUME NEW q \in Queue, running[q] PROVE fifo'[q] # <<>>
      BY <1>0 DEF Busy
    <3>1. Len(fifo[q]) # 0 /\ Len(fifo[q]) \in Nat /\ Len(fifo'[q]) \in Nat
      BY <1>0, <1>4 DEF IInv, Busy, Types
    <3> QED
      BY <3>1, <2>1 DEF Grows
  <2> QED
    BY <1>4, <2>2, <2>3, <2>4, <2>5, <2>6, <2>7 DEF IInv
<1>5. CASE home[b] = None
  <2>1. memory' = [memory EXCEPT ![b] = "freed"] /\ fifo' = fifo
    BY <1>1, <1>5 DEF FreeMemory
  <2>2. \A q \in Queue : \A k \in DOMAIN fifo[q] : ~Is(fifo[q][k], "use", b)
    BY <1>2, <1>5, NoneAssumption
  <2>3. Grows({"use", "keep"})
    BY <1>0, <2>1, StandsStill
  <2>4. Types'
    BY <1>0, <1>3, <2>1 DEF Types
  <2>5. \A d \in Buffer : memory'[d] # memory[d] => d = b /\ memory'[d] = "freed"
    BY <1>0, <2>1 DEF Types
  <2>6. FreeOps'
    BY <1>0, <2>1, <2>5 DEF IInv, FreeOps
  <2> QED
    BY <1>4, <2>1, <2>2, <2>3, <2>4, <2>5, <2>6
<1>6. CASE home[b] # None
  <2>0. PICK h \in Queue : h = home[b] /\ h \in Made
    BY <1>0, <1>6 DEF IInv, Types, Registered
  <2>1. Push(h, Op("free", b, t)) /\ memory' = memory
    BY <1>1, <1>6, <2>0 DEF FreeMemory
  <2>2. Op("free", b, t) \in OpType /\ Op("free", b, t).kind \notin {"use", "keep"}
    BY DEF Op, OpType, Kinds
  <2>3. /\ fifo' \in [Queue -> Seq(OpType)] /\ Grows({"use", "keep"})
        /\ Len(fifo'[h]) = Len(fifo[h]) + 1 /\ fifo'[h][Len(fifo'[h])] = Op("free", b, t)
        /\ \A q \in Queue : q # h => fifo'[q] = fifo[q]
    BY <1>0, <2>1, <2>2, Pushes
  <2>4. Types'
    BY <1>0, <1>3, <2>1, <2>3 DEF Types
  <2>5. \A q \in Queue :
          /\ DOMAIN fifo[q] = 1 .. Len(fifo[q]) /\ DOMAIN fifo'[q] = 1 .. Len(fifo'[q])
          /\ Len(fifo[q]) \in Nat /\ Len(fifo'[q]) \in Nat
          /\ \A k \in DOMAIN fifo'[q] :
               \/ k \in DOMAIN fifo[q] /\ fifo'[q][k] = fifo[q][k]
               \/ k > Len(fifo[q]) /\ fifo'[q][k].kind \notin {"use", "keep"}
    BY <1>0, <2>3, <2>4, Extended
  <2>6. FreeOps'
    <3> SUFFICES ASSUME NEW q \in Queue, NEW k \in DOMAIN fifo'[q], NEW d \in Buffer,
                        Is(fifo'[q][k], "free", d)
                 PROVE  /\ bufferRefs'[d] = {} /\ memory'[d] # "none"
                        /\ \A p \in Queue : \A j \in DOMAIN fifo'[p] :
                             Is(fifo'[p][j], "use", d) => p = q /\ j < k
      BY DEF FreeOps
    <3>1. \A p \in Queue : \A j \in DOMAIN fifo'[p] : Is(fifo'[p][j], "use", d) =>
            j \in DOMAIN fifo[p] /\ Is(fifo[p][j], "use", d)
      BY <2>5 DEF Is
    <3>2. CASE k \in DOMAIN fifo[q] /\ fifo'[q][k] = fifo[q][k]
      <4>1. /\ bufferRefs[d] = {} /\ memory[d] # "none"
            /\ \A p \in Queue : \A j \in DOMAIN fifo[p] : Is(fifo[p][j], "use", d) => p = q /\ j < k
        BY <3>2 DEF IInv, FreeOps
      <4> QED
        BY <3>1, <4>1, <1>0, <2>1
    <3>3. CASE k > Len(fifo[q])
      <4>1. q = h /\ k = Len(fifo'[h]) /\ d = b
        <5>1. q = h
          BY <2>3, <2>5, <3>3
        <5>2. k = Len(fifo'[h])
          BY <2>3, <2>5, <3>3, <5>1
        <5> QED
          BY <2>3, <5>1, <5>2 DEF Is, Op
      <4>2. \A p \in Queue : \A j \in DOMAIN fifo'[p] : Is(fifo'[p][j], "use", d) => p = q /\ j < k
        BY <1>2, <2>0, <2>5, <3>1, <3>3, <4>1
      <4> QED
        BY <1>0, <1>2, <2>1, <4>1, <4>2
    <3> QED
      BY <2>5, <3>2, <3>3
  <2>7. \A q \in Queue : fifo'[q] # <<>> => fifo[q] # <<>> \/ q \in Made
    BY <2>0, <2>3
  <2> QED
    BY <1>4, <2>1, <2>3, <2>4, <2>6, <2>7
<1> QED
  BY <1>5, <1>6

-----------------------------------------------------------------------------
(* The calls of the program.                                                *)

\* Nothing is recorded that the device does not know.
LEMMA RegisteredStays ==
  ASSUME IInv, Types', Made \subseteq Made',
         \A q \in Queue : queueRefs'[q] # {} => queueRefs[q] # {} \/ q \in Made',
         \A q \in Queue : fifo'[q] # <<>> => fifo[q] # <<>> \/ q \in Made',
         \A b \in Buffer : home'[b] # home[b] => home'[b] \in Made',
         \A b \in Buffer : actions'[b] # actions[b] =>
           \A i \in DOMAIN actions'[b] : actions'[b][i] \in Made',
         \A t \in Thread : todo'[t] # todo[t] => \A n \in DOMAIN todo'[t] :
           todo'[t][n].do \notin {"free", "return"} => todo'[t][n].queue \in Made'
  PROVE  Registered'
<1>0. Registered
  BY DEF IInv
<1>1. \A q \in Queue : queueRefs'[q] # {} \/ fifo'[q] # <<>> => q \in Made'
  BY <1>0 DEF Registered
<1>2. \A b \in Buffer : /\ home'[b] # None => home'[b] \in Made'
                        /\ \A i \in DOMAIN actions'[b] : actions'[b][i] \in Made'
  BY <1>0 DEF Registered
<1>3. \A t \in Thread : \A n \in DOMAIN todo'[t] :
        todo'[t][n].do \notin {"free", "return"} => todo'[t][n].queue \in Made'
  BY <1>0 DEF Registered
<1> QED
  BY <1>1, <1>2, <1>3 DEF Registered

LEMMA BusyStays ==
  ASSUME IInv, Types', Grows({}), running' = running
  PROVE  Busy'
<1> SUFFICES ASSUME NEW q \in Queue, running[q] PROVE fifo'[q] # <<>>
  BY DEF Busy
<1>1. Len(fifo[q]) # 0 /\ Len(fifo[q]) \in Nat /\ Len(fifo'[q]) \in Nat
  BY DEF IInv, Busy, Types
<1> QED
  BY <1>1 DEF Grows

LEMMA BuffersUntouched ==
  ASSUME IInv, Types', UNCHANGED <<fifo, held, bufferVars>>
  PROVE  /\ Grows({}) /\ Grows({"free"}) /\ Abandons /\ Protects
         /\ Uses' /\ FreeOps' /\ Keeps' /\ Referenced'
<1>0. Types /\ Referenced /\ UNCHANGED <<bufferRefs, memory, home, actions>>
  BY DEF IInv, bufferVars
<1>1. Grows({}) /\ Grows({"free"}) /\ Grows({"keep"})
  BY <1>0, StandsStill
<1>2. \A q \in Queue : \A k \in 1 .. Len(fifo'[q]) : ~(k > Len(fifo[q]))
  BY <1>0 DEF Types
<1>3. Abandons /\ Protects
  BY <1>0, <1>2 DEF Abandons, Protects
<1>4. Uses' /\ FreeOps'
  BY <1>1, <1>3, UsesStay, FreeOpsStay
<1>5. Keeps'
  BY <1>0, <1>1, KeepsStay
<1>6. Referenced'
  BY <1>0 DEF Referenced
<1> QED
  BY <1>1, <1>3, <1>4, <1>5, <1>6

LEMMA MakeQueueStep ==
  ASSUME IInv, NEW c \in Client, NEW q \in Queue, MakeQueue(c, q), UNCHANGED program
  PROVE  IInv'
<1>0. /\ Types /\ Registered /\ q \notin Made /\ queues' = Append(queues, q)
      /\ queueRefs' = [queueRefs EXCEPT ![q] = Handles]
      /\ UNCHANGED <<program, bufferVars, fifo, held, running, todo, owed>>
      /\ UNCHANGED <<bufferRefs, memory, home, actions>>
  BY DEF IInv, MakeQueue, workerVars, callVars, bufferVars
<1>1. Handles \subseteq Ref
  BY <1>0, ProgramAssumption DEF Types, Handles, Handle, Ref, Tagged, Thread
<1>2. queues' \in Seq(Queue) /\ queueRefs' \in [Queue -> SUBSET Ref]
  BY <1>0, <1>1 DEF Types
<1>3. Types'
  BY <1>0, <1>2 DEF Types
<1>4. Made \subseteq Made' /\ q \in Made'
  <2>1. /\ Len(queues') = Len(queues) + 1 /\ queues'[Len(queues) + 1] = q
        /\ \A k \in 1 .. Len(queues) : queues'[k] = queues[k]
        /\ DOMAIN queues = 1 .. Len(queues) /\ DOMAIN queues' = 1 .. Len(queues')
        /\ Len(queues) \in Nat
    BY <1>0, <1>2 DEF Types
  <2>2. \A k \in DOMAIN queues : k \in DOMAIN queues' /\ queues'[k] = queues[k]
    BY <2>1
  <2>3. Len(queues) + 1 \in DOMAIN queues'
    BY <2>1
  <2> QED
    BY <2>1, <2>2, <2>3 DEF Made
<1>5. \A p \in Queue : p # q => queueRefs'[p] = queueRefs[p]
  BY <1>0 DEF Types
<1>6. /\ Grows({}) /\ Abandons
      /\ Uses' /\ FreeOps' /\ Keeps' /\ Referenced'
  BY <1>0, <1>3, BuffersUntouched
<1>7. Registered'
  BY <1>0, <1>3, <1>4, <1>5, RegisteredStays
<1>8. Busy'
  BY <1>0, <1>3, <1>6, BusyStays
<1>9. Freeing'
  BY <1>0, <1>3, <1>6, FreeingStays
<1>10. Debts'
  <2>1. \A p \in Made : queueRefs[p] = {} => queueRefs'[p] = {}
    BY <1>0, <1>5 DEF Made, Types
  <2> QED
    BY <1>0, <1>3, <1>4, <1>6, <2>1, DebtsStay
<1> QED
  BY <1>3, <1>6, <1>7, <1>8, <1>9, <1>10 DEF IInv

\* A buffer without references is given memory.
LEMMA AllocateStep ==
  ASSUME IInv, Types', NEW b \in Buffer, memory[b] = "none",
         memory' = [memory EXCEPT ![b] = "live"],
         \A d \in Buffer : d # b => bufferRefs'[d] = bufferRefs[d] /\ home'[d] = home[d],
         home'[b] # home[b] => home'[b] \in Made,
         \A q \in Queue : queueRefs[q] = {} <=> queueRefs'[q] = {},
         \A q \in Queue : Keeper(q) \in bufferRefs[b] => Keeper(q) \in bufferRefs'[b],
         UNCHANGED <<queues, actions, fifo, held, running, todo, owed>>
  PROVE  IInv'
<1>0. Types /\ Referenced /\ Uses
  BY DEF IInv
<1>1. Grows({}) /\ Grows({"keep"}) /\ Grows({"free"})
  BY <1>0, StandsStill
<1>2. /\ memory'[b] = "live"
      /\ \A d \in Buffer : d # b => memory'[d] = memory[d]
  BY <1>0 DEF Types
<1>3. \A q \in Queue : \A k \in 1 .. Len(fifo'[q]) : ~(k > Len(fifo[q]))
  BY <1>0 DEF Types
<1>4. \A q \in Queue : \A k \in DOMAIN fifo[q] : ~Is(fifo[q][k], "use", b)
  BY <1>0 DEF Uses, Protected
<1>5. Abandons
  BY <1>2, <1>3 DEF Abandons
<1>6. Protects
  BY <1>2, <1>3, <1>4 DEF Protects
<1>7. Made' = Made
  BY DEF Made
<1>8. Uses' /\ FreeOps'
  BY <1>1, <1>5, <1>6, UsesStay, FreeOpsStay
<1>9. Keeps'
  BY <1>1, KeepsStay
<1>10. Referenced'
  BY <1>0, <1>2 DEF Referenced
<1>11. Registered'
  BY <1>7, RegisteredStays
<1>12. Busy'
  BY <1>1, BusyStays
<1>13. Freeing'
  BY <1>1, <1>5, FreeingStays
<1>14. Debts'
  <2>1. \A q \in Made : q \in Queue
    BY <1>0 DEF Made, Types
  <2> QED
    BY <1>1, <1>7, <2>1, DebtsStay
<1> QED
  BY <1>8, <1>9, <1>10, <1>11, <1>12, <1>13, <1>14 DEF IInv

LEMMA AllocStep ==
  ASSUME IInv, NEW c \in Client, NEW b \in Buffer, Alloc(c, b), UNCHANGED program
  PROVE  IInv'
<1>0. /\ Types /\ Referenced /\ memory[b] = "none" /\ memory' = [memory EXCEPT ![b] = "live"]
      /\ bufferRefs' = [bufferRefs EXCEPT ![b] = Handles]
      /\ UNCHANGED <<program, queues, queueRefs, home, actions, fifo, held, running, todo, owed>>
  BY DEF IInv, Alloc, workerVars, callVars, queueVars
<1>1. Handles \subseteq Ref
  BY <1>0, ProgramAssumption DEF Types, Handles, Handle, Ref, Tagged, Thread
<1>2. Types'
  BY <1>0, <1>1 DEF Types
<1>3. bufferRefs[b] = {} /\ \A d \in Buffer : d # b => bufferRefs'[d] = bufferRefs[d]
  BY <1>0 DEF Types, Referenced
<1> QED
  BY <1>0, <1>2, <1>3, AllocateStep

LEMMA AllocDeferredStep ==
  ASSUME IInv, NEW c \in Client, NEW q \in Queue, NEW b \in Buffer,
         AllocDeferred(c, q, b), UNCHANGED program
  PROVE  IInv'
<1>0. /\ Types /\ Referenced /\ Registered /\ Holds(c, q)
      /\ memory[b] = "none" /\ memory' = [memory EXCEPT ![b] = "live"]
      /\ bufferRefs' = [bufferRefs EXCEPT ![b] = Handles]
      /\ home' = [home EXCEPT ![b] = q]
      /\ queueRefs' = [queueRefs EXCEPT ![q] = @ \cup {FreeOp(b)}]
      /\ UNCHANGED <<program, queues, actions, fifo, held, running, todo, owed>>
  BY DEF IInv, AllocDeferred, workerVars, callVars
<1>1. Handles \subseteq Ref /\ FreeOp(b) \in Ref
  BY <1>0, ProgramAssumption DEF Types, Handles, Handle, FreeOp, Ref, Tagged, Thread
<1>2. Types'
  BY <1>0, <1>1 DEF Types
<1>3. bufferRefs[b] = {}
  BY <1>0 DEF Referenced
<1>4. \A d \in Buffer : d # b => bufferRefs'[d] = bufferRefs[d] /\ home'[d] = home[d]
  BY <1>0 DEF Types
<1>5. queueRefs[q] # {} /\ q \in Made
  BY <1>0 DEF Registered, Holds
<1>6. \A p \in Queue : queueRefs[p] = {} <=> queueRefs'[p] = {}
  BY <1>0, <1>5 DEF Types
<1>7. home'[b] \in Made
  BY <1>0, <1>5 DEF Types
<1> QED
  BY <1>0, <1>2, <1>3, <1>4, <1>6, <1>7, AllocateStep

LEMMA UseStep ==
  ASSUME IInv, NEW c \in Client, NEW q \in Queue, NEW b \in Buffer, Use(c, q, b), UNCHANGED program
  PROVE  IInv'
<1>0. /\ Types /\ Referenced /\ Registered /\ Holds(c, q) /\ Owns(c, b)
      /\ Push(q, Op("use", b, c))
      /\ UNCHANGED <<program, queues, queueRefs, bufferRefs, memory, home, actions, held, running, todo, owed>>
  BY DEF IInv, Use, queueVars, bufferVars, callVars
<1>1. /\ Op("use", b, c) \in OpType /\ Op("use", b, c).kind = "use" /\ Op("use", b, c).buffer = b
      /\ Op("use", b, c).by = c /\ Op("use", b, c).kind \notin {"keep", "free"}
  BY DEF Op, OpType, Kinds, Thread
<1>2. /\ fifo' \in [Queue -> Seq(OpType)] /\ Grows({"keep", "free"})
      /\ Len(fifo'[q]) = Len(fifo[q]) + 1 /\ fifo'[q][Len(fifo'[q])] = Op("use", b, c)
      /\ \A p \in Queue : p # q => fifo'[p] = fifo[p]
  BY <1>0, <1>1, Pushes
<1>3. Grows({}) /\ Grows({"keep"}) /\ Grows({"free"})
  BY <1>2 DEF Grows
<1>4. Types'
  BY <1>0, <1>2 DEF Types
<1>5. bufferRefs[b] # {} /\ memory[b] = "live" /\ queueRefs[q] # {} /\ q \in Made /\ Made' = Made
  BY <1>0 DEF Owns, Holds, Referenced, Registered, Made
<1>6. \A p \in Queue : \A k \in 1 .. Len(fifo'[p]) : k > Len(fifo[p]) =>
        p = q /\ fifo'[p][k] = Op("use", b, c)
  <2> SUFFICES ASSUME NEW p \in Queue, NEW k \in 1 .. Len(fifo'[p]), k > Len(fifo[p])
               PROVE  p = q /\ fifo'[p][k] = Op("use", b, c)
    OBVIOUS
  <2>1. Len(fifo[p]) \in Nat /\ Len(fifo'[p]) \in Nat
    BY <1>0, <1>2 DEF Types
  <2>2. p = q
    BY <1>2, <2>1
  <2>3. k = Len(fifo'[q])
    BY <1>2, <2>1, <2>2
  <2> QED
    BY <1>2, <2>2, <2>3
<1>7. Abandons
  BY <1>0, <1>1, <1>5, <1>6 DEF Abandons
<1>8. Protects
  <2>1. ASSUME NEW p \in Queue, NEW d \in Buffer, NEW k \in 1 .. Len(fifo'[p]),
               k > Len(fifo[p]), Is(fifo'[p][k], "use", d)
        PROVE  Protected(p, d, k)'
    <3>1. fifo'[p][k] = Op("use", b, c) /\ d = b
      BY <1>1, <1>6, <2>1 DEF Is
    <3> QED
      BY <1>0, <1>1, <1>5, <3>1 DEF Protected, Owns
  <2> QED
    BY <1>0, <2>1 DEF Protects
<1>9. Uses' /\ FreeOps' /\ Freeing'
  BY <1>0, <1>3, <1>4, <1>7, <1>8, UsesStay, FreeOpsStay, FreeingStays
<1>10. Keeps' /\ Busy'
  BY <1>0, <1>3, <1>4, KeepsStay, BusyStays
<1>11. Referenced'
  BY <1>0 DEF Referenced
<1>12. Registered'
  BY <1>0, <1>2, <1>4, <1>5, RegisteredStays
<1>13. Debts'
  BY <1>0, <1>3, <1>4, <1>5, DebtsStay
<1> QED
  BY <1>4, <1>9, <1>10, <1>11, <1>12, <1>13 DEF IInv

LEMMA KeepAliveStep ==
  ASSUME IInv, NEW c \in Client, NEW q \in Queue, NEW b \in Buffer, KeepAlive(c, q, b), UNCHANGED program
  PROVE  IInv'
<1>0. /\ Types /\ Referenced /\ Registered /\ Keeps /\ Holds(c, q) /\ Owns(c, b)
      /\ Keeper(q) \notin bufferRefs[b]
      /\ bufferRefs' = [bufferRefs EXCEPT ![b] = @ \cup {Keeper(q)}]
      /\ Push(q, Op("keep", b, c))
      /\ UNCHANGED <<program, queues, queueRefs, memory, home, actions, held, running, todo, owed>>
  BY DEF IInv, KeepAlive, queueVars, callVars
<1>1. /\ Op("keep", b, c) \in OpType /\ Op("keep", b, c).kind = "keep" /\ Op("keep", b, c).buffer = b
      /\ Op("keep", b, c).kind \notin {"use", "free"}
  BY DEF Op, OpType, Kinds, Thread
<1>2. /\ fifo' \in [Queue -> Seq(OpType)] /\ Grows({"use", "free"})
      /\ Len(fifo'[q]) = Len(fifo[q]) + 1 /\ fifo'[q][Len(fifo'[q])] = Op("keep", b, c)
      /\ \A p \in Queue : p # q => fifo'[p] = fifo[p]
  BY <1>0, <1>1, Pushes
<1>3. Grows({}) /\ Grows({"free"}) /\ Grows({"use"})
  BY <1>2 DEF Grows
<1>4. bufferRefs' \in [Buffer -> SUBSET Ref]
  <2>1. Keeper(q) \in Ref
    BY DEF Keeper, Ref, Tagged, Thread
  <2> QED
    BY <2>1, <1>0 DEF Types
<1>5. Types'
  BY <1>0, <1>2, <1>4 DEF Types
<1>6. /\ bufferRefs[b] # {} /\ memory[b] = "live" /\ q \in Made /\ Made' = Made
      /\ bufferRefs'[b] = bufferRefs[b] \cup {Keeper(q)}
      /\ \A d \in Buffer : d # b => bufferRefs'[d] = bufferRefs[d]
  BY <1>0 DEF Owns, Holds, Referenced, Registered, Made, Types
<1>7. \A p \in Queue : \A k \in 1 .. Len(fifo'[p]) : k > Len(fifo[p]) => fifo'[p][k].kind # "use"
  BY <1>3 DEF Grows
<1>8. Abandons
  BY <1>0, <1>6, <1>7 DEF Abandons
<1>9. Protects
  BY <1>0, <1>6, <1>7 DEF Protects, Is
<1>10. Uses' /\ FreeOps' /\ Freeing'
  BY <1>0, <1>3, <1>5, <1>8, <1>9, UsesStay, FreeOpsStay, FreeingStays
<1>11. Busy'
  BY <1>0, <1>3, <1>5, BusyStays
<1>12. Referenced'
  BY <1>0, <1>6 DEF Referenced
<1>13. Registered'
  BY <1>0, <1>2, <1>5, <1>6, RegisteredStays
<1>14. Debts'
  BY <1>0, <1>3, <1>5, <1>6, DebtsStay
<1>15. Keeps'
  <2>1. \A p \in Queue : \A k \in DOMAIN fifo'[p] :
          \/ k \in DOMAIN fifo[p] /\ fifo'[p][k] = fifo[p][k]
          \/ p = q /\ k = Len(fifo'[q]) /\ fifo'[p][k] = Op("keep", b, c)
    <3> SUFFICES ASSUME NEW p \in Queue, NEW k \in DOMAIN fifo'[p]
                 PROVE  \/ k \in DOMAIN fifo[p] /\ fifo'[p][k] = fifo[p][k]
                        \/ p = q /\ k = Len(fifo'[q]) /\ fifo'[p][k] = Op("keep", b, c)
      OBVIOUS
    <3>1. /\ DOMAIN fifo'[p] = 1 .. Len(fifo'[p]) /\ Len(fifo[p]) \in Nat /\ Len(fifo'[p]) \in Nat
          /\ \/ k \in DOMAIN fifo[p] /\ fifo'[p][k] = fifo[p][k]
             \/ k > Len(fifo[p])
      BY <1>0, <1>3, <1>5, Extended
    <3>2. k > Len(fifo[p]) => p = q /\ k = Len(fifo'[q])
      BY <1>2, <3>1
    <3> QED
      BY <1>2, <3>1, <3>2
  <2>2. \A k \in DOMAIN fifo[q] : ~Is(fifo[q][k], "keep", b)
    BY <1>0 DEF Keeps
  <2>3. held[q] # None => ~Is(held[q], "keep", b)
    BY <1>0 DEF Keeps
  <2> SUFFICES ASSUME NEW p \in Queue, NEW d \in Buffer
               PROVE  /\ \A k \in DOMAIN fifo'[p] : Is(fifo'[p][k], "keep", d) =>
                           /\ Keeper(p) \in bufferRefs'[d]
                           /\ ~(held[p] # None /\ Is(held[p], "keep", d))
                           /\ \A j \in DOMAIN fifo'[p] : Is(fifo'[p][j], "keep", d) => j = k
                      /\ held[p] # None /\ Is(held[p], "keep", d) => Keeper(p) \in bufferRefs'[d]
    BY <1>0 DEF Keeps
  <2>4. CASE p = q /\ d = b
    BY <2>1, <2>2, <2>3, <2>4, <1>6
  <2>5. CASE ~(p = q /\ d = b)
    <3>1. \A k \in DOMAIN fifo'[p] : Is(fifo'[p][k], "keep", d) =>
            k \in DOMAIN fifo[p] /\ Is(fifo[p][k], "keep", d)
      BY <2>1, <2>5, <1>1 DEF Is
    <3>2. Keeper(p) \in bufferRefs[d] => Keeper(p) \in bufferRefs'[d]
      BY <1>6
    <3> QED
      BY <3>1, <3>2, <1>0 DEF Keeps
  <2> QED
    BY <2>4, <2>5
<1> QED
  BY <1>5, <1>10, <1>11, <1>12, <1>13, <1>14, <1>15 DEF IInv

LEMMA DestructorWaitForStep ==
  ASSUME IInv, NEW c \in Client, NEW q \in Queue, NEW b \in Buffer,
         DestructorWaitFor(c, q, b), UNCHANGED program
  PROVE  IInv'
<1>0. /\ Types /\ Referenced /\ Registered /\ Holds(c, q) /\ Owns(c, b)
      /\ actions' = [actions EXCEPT ![b] = Append(@, q)]
      /\ queueRefs' = [queueRefs EXCEPT ![q] = @ \cup {Action(b, Len(actions[b]) + 1)}]
      /\ UNCHANGED <<program, queues, bufferRefs, memory, home, fifo, held, running, todo, owed>>
  BY DEF IInv, DestructorWaitFor, workerVars, callVars
<1>1. /\ actions'[b] = Append(actions[b], q) /\ actions[b] \in Seq(Queue)
      /\ \A d \in Buffer : d # b => actions'[d] = actions[d]
  BY <1>0 DEF Types
<1>2. /\ actions' \in [Buffer -> Seq(Queue)]
      /\ DOMAIN actions[b] = 1 .. Len(actions[b]) /\ Len(actions[b]) \in Nat
      /\ DOMAIN actions'[b] = 1 .. Len(actions[b]) + 1
      /\ actions'[b][Len(actions[b]) + 1] = q
      /\ \A i \in 1 .. Len(actions[b]) : actions'[b][i] = actions[b][i]
  BY <1>0, <1>1 DEF Types
<1>3. queueRefs' \in [Queue -> SUBSET Ref]
  <2>1. Action(b, Len(actions[b]) + 1) \in Ref
    BY <1>2 DEF Action, Ref
  <2> QED
    BY <1>0, <2>1 DEF Types
<1>4. Types'
  BY <1>0, <1>2, <1>3 DEF Types
<1>5. /\ bufferRefs[b] # {} /\ queueRefs[q] # {} /\ q \in Made /\ Made' = Made
      /\ \A p \in Queue : p # q => queueRefs'[p] = queueRefs[p]
  BY <1>0 DEF Owns, Holds, Registered, Made, Types
<1>6. Grows({}) /\ Grows({"free"}) /\ Grows({"keep"})
  BY <1>0, StandsStill
<1>7. \A p \in Queue : \A k \in 1 .. Len(fifo'[p]) : ~(k > Len(fifo[p]))
  BY <1>0 DEF Types
<1>8. Abandons
  BY <1>0, <1>7 DEF Abandons
<1>9. Protects
  <2>1. \A d \in Buffer : \A i \in DOMAIN actions[d] : i \in DOMAIN actions'[d] /\ actions'[d][i] = actions[d][i]
    <3> SUFFICES ASSUME NEW d \in Buffer, NEW i \in DOMAIN actions[d]
                 PROVE  i \in DOMAIN actions'[d] /\ actions'[d][i] = actions[d][i]
      OBVIOUS
    <3>1. CASE d = b
      BY <3>1, <1>2
    <3>2. CASE d # b
      BY <3>2, <1>1
    <3> QED
      BY <3>1, <3>2
  <2> QED
    BY <1>0, <1>7, <2>1 DEF Protects
<1>10. Uses' /\ FreeOps' /\ Freeing'
  BY <1>0, <1>4, <1>6, <1>8, <1>9, UsesStay, FreeOpsStay, FreeingStays
<1>11. Keeps' /\ Busy'
  BY <1>0, <1>4, <1>6, KeepsStay, BusyStays
<1>12. Referenced'
  BY <1>0 DEF Referenced
<1>13. Registered'
  <2>1. \A i \in DOMAIN actions'[b] : actions'[b][i] \in Made'
    <3> SUFFICES ASSUME NEW i \in DOMAIN actions'[b] PROVE actions'[b][i] \in Made'
      OBVIOUS
    <3>1. i \in 1 .. Len(actions[b]) \/ i = Len(actions[b]) + 1
      BY <1>2
    <3> QED
      BY <3>1, <1>0, <1>2, <1>5 DEF Registered
  <2> QED
    BY <1>0, <1>1, <1>4, <1>5, <2>1, RegisteredStays
<1>14. Debts'
  <2>1. \A p \in Made : queueRefs[p] = {} => queueRefs'[p] = {}
    BY <1>0, <1>5 DEF Made, Types
  <2> QED
    BY <1>0, <1>4, <1>5, <1>6, <2>1, DebtsStay
<1> QED
  BY <1>4, <1>10, <1>11, <1>12, <1>13, <1>14 DEF IInv

\* ~ManagedDealloc waits for the queues of the actions and then frees.
LEMMA DeallocSteps ==
  ASSUME IInv, NEW b \in Buffer
  PROVE  LET n == Len(actions[b]) IN
         /\ Dealloc(b) \in Seq(StepType)
         /\ \A i \in 1 .. n : i \in DOMAIN Dealloc(b)
                              /\ Dealloc(b)[i].do = "wait" /\ Dealloc(b)[i].queue = actions[b][i]
         /\ \A m \in DOMAIN Dealloc(b) :
              /\ Dealloc(b)[m].do = "free" => m = n + 1 /\ Dealloc(b)[m].buffer = b
              /\ Dealloc(b)[m].do # "free" => Dealloc(b)[m].queue \in Made
              /\ Dealloc(b)[m].do # "return"
<1>0. /\ Types /\ actions[b] \in Seq(Queue) /\ Len(actions[b]) \in Nat
      /\ \A i \in 1 .. Len(actions[b]) : actions[b][i] \in Queue /\ actions[b][i] \in Made
      /\ home[b] \in Queue \cup {None} /\ (home[b] # None => home[b] \in Made)
  BY DEF IInv, Types, Registered
<1> DEFINE n == Len(actions[b])
           waits == [i \in 1 .. n |-> Step("wait", actions[b][i], None, None)]
           frees == <<Step("free", home[b], b, None)>>
           releases == [i \in 1 .. n |-> Step("release", actions[b][i], None, Action(b, i))]
           last == IF home[b] = None THEN <<>>
                   ELSE <<Step("release", home[b], None, FreeOp(b))>>
<1>1. None \in Ref /\ FreeOp(b) \in Ref /\ \A i \in 1 .. n : Action(b, i) \in Ref
  BY DEF Ref, FreeOp, Action, Tagged
<1>2. /\ waits \in Seq(StepType) /\ Len(waits) = n
      /\ \A i \in 1 .. n : waits[i].do = "wait" /\ waits[i].queue = actions[b][i]
  <2>1. \A i \in 1 .. n : Step("wait", actions[b][i], None, None) \in StepType
    BY <1>0, <1>1, StepsAreTyped DEF Dos
  <2> QED
    BY <2>1, <1>0 DEF Step
<1>3. /\ releases \in Seq(StepType) /\ Len(releases) = n
      /\ \A i \in 1 .. n : releases[i].do = "release" /\ releases[i].queue = actions[b][i]
  <2>1. \A i \in 1 .. n : Step("release", actions[b][i], None, Action(b, i)) \in StepType
    BY <1>0, <1>1, StepsAreTyped DEF Dos
  <2> QED
    BY <2>1, <1>0 DEF Step
<1>4. /\ frees \in Seq(StepType) /\ Len(frees) = 1
      /\ frees[1].do = "free" /\ frees[1].buffer = b
  BY <1>0, <1>1 DEF Step, StepType, Dos
<1>5. /\ last \in Seq(StepType) /\ Len(last) \in Nat
      /\ \A i \in 1 .. Len(last) : last[i].do = "release" /\ last[i].queue \in Made
  <2>1. CASE home[b] = None
    BY <2>1
  <2>2. CASE home[b] # None
    <3>1. Step("release", home[b], None, FreeOp(b)) \in StepType
      BY <2>2, <1>0, <1>1, StepsAreTyped DEF Dos
    <3> QED
      BY <3>1, <2>2, <1>0 DEF Step
  <2> QED
    BY <2>1, <2>2
<1>6. Dealloc(b) = ((waits \o frees) \o releases) \o last
  BY DEF Dealloc
<1>13. n \in Nat
  BY <1>0
<1> HIDE DEF waits, frees, releases, last, n
<1>7. PICK x : x = waits \o frees
  OBVIOUS
<1>8. /\ x \in Seq(StepType) /\ Len(x) = n + 1
      /\ \A m \in 1 .. n + 1 : x[m] = IF m <= n THEN waits[m] ELSE frees[m - n]
  <2>1. /\ x \in Seq(StepType) /\ Len(x) = Len(waits) + Len(frees)
        /\ \A m \in 1 .. Len(waits) + Len(frees) :
             x[m] = IF m <= Len(waits) THEN waits[m] ELSE frees[m - Len(waits)]
    <3>1. waits \in Seq(StepType) /\ frees \in Seq(StepType)
      BY <1>2, <1>4
    <3> QED
      BY <3>1, <1>7, ConcatProperties, Zenon
  <2>2. Len(waits) = n /\ Len(frees) = 1
    BY <1>2, <1>4
  <2> QED
    BY <2>1, <2>2
<1>9. PICK y : y = x \o releases
  OBVIOUS
<1>10. /\ y \in Seq(StepType) /\ Len(y) = n + 1 + n
       /\ \A m \in 1 .. n + 1 + n : y[m] = IF m <= n + 1 THEN x[m] ELSE releases[m - (n + 1)]
  <2>1. /\ y \in Seq(StepType) /\ Len(y) = Len(x) + Len(releases)
        /\ \A m \in 1 .. Len(x) + Len(releases) : y[m] = IF m <= Len(x) THEN x[m] ELSE releases[m - Len(x)]
    <3>1. x \in Seq(StepType) /\ releases \in Seq(StepType)
      BY <1>3, <1>8
    <3> QED
      BY <3>1, <1>9, ConcatProperties, Zenon
  <2>2. Len(x) = n + 1 /\ Len(releases) = n
    BY <1>3, <1>8
  <2> QED
    BY <2>1, <2>2
<1>11. PICK z : z = Dealloc(b)
  OBVIOUS
<1>12. /\ z \in Seq(StepType) /\ Len(z) = n + 1 + n + Len(last)
       /\ DOMAIN z = 1 .. Len(z)
       /\ \A m \in 1 .. Len(z) : z[m] = IF m <= n + 1 + n THEN y[m] ELSE last[m - (n + 1 + n)]
  <2>1. /\ z \in Seq(StepType) /\ Len(z) = Len(y) + Len(last)
        /\ \A m \in 1 .. Len(y) + Len(last) :
             z[m] = IF m <= Len(y) THEN y[m] ELSE last[m - Len(y)]
    <3>1. y \in Seq(StepType) /\ last \in Seq(StepType) /\ z = y \o last
      BY <1>5, <1>6, <1>7, <1>9, <1>10, <1>11
    <3> QED
      BY <3>1, ConcatProperties, Zenon
  <2>2. Len(y) = n + 1 + n
    BY <1>10
  <2>3. DOMAIN z = 1 .. Len(z)
    BY <2>1
  <2> QED
    BY <2>1, <2>2, <2>3
<1>14. \A i \in 1 .. n : i \in DOMAIN z /\ z[i] = waits[i]
  <2> TAKE i \in 1 .. n
  <2>1. i \in 1 .. Len(z) /\ i <= n + 1 + n /\ i <= n + 1 /\ i <= n /\ i \in 1 .. n + 1 + n /\ i \in 1 .. n + 1
    BY <1>5, <1>12, <1>13
  <2> QED
    BY <2>1, <1>8, <1>10, <1>12
<1>15. \A m \in DOMAIN z :
         /\ z[m].do = "free" => m = n + 1 /\ z[m].buffer = b
         /\ z[m].do # "free" => z[m].queue \in Made
         /\ z[m].do # "return"
  <2> TAKE m \in DOMAIN z
  <2>0. m \in 1 .. Len(z) /\ m \in Nat /\ m >= 1
    BY <1>12
  <2>1. CASE m <= n
    <3>1. m \in 1 .. n
      BY <2>0, <2>1, <1>13
    <3> QED
      BY <3>1, <1>0, <1>2, <1>14 DEF n
  <2>2. CASE m = n + 1
    <3>1. m \in 1 .. n + 1 + n /\ m <= n + 1 + n /\ m \in 1 .. n + 1 /\ ~(m <= n) /\ m - n = 1 /\ m <= n + 1
      BY <2>0, <2>2, <1>13
    <3>2. z[m] = frees[1]
      BY <3>1, <2>0, <1>8, <1>10, <1>12
    <3> QED
      BY <3>2, <2>2, <1>4
  <2>3. CASE m > n + 1 /\ m <= n + 1 + n
    <3>1. m \in 1 .. n + 1 + n /\ ~(m <= n + 1) /\ m - (n + 1) \in 1 .. n
      BY <2>0, <2>3, <1>13
    <3>2. z[m] = releases[m - (n + 1)]
      BY <3>1, <2>0, <2>3, <1>10, <1>12
    <3> QED
      BY <3>1, <3>2, <1>0, <1>3 DEF n
  <2>4. CASE m > n + 1 + n
    <3>1. ~(m <= n + 1 + n) /\ m - (n + 1 + n) \in 1 .. Len(last)
      BY <2>0, <2>4, <1>5, <1>12, <1>13
    <3>2. z[m] = last[m - (n + 1 + n)]
      BY <3>1, <2>0, <1>12
    <3> QED
      BY <3>1, <3>2, <1>5
  <2> QED
    BY <2>0, <2>1, <2>2, <2>3, <2>4, <1>13
<1> QED
  BY <1>2, <1>11, <1>12, <1>14, <1>15 DEF n

\* The destructor awaits the uses nothing but it protects any more.
LEMMA DeallocPrepares ==
  ASSUME IInv, Types', Uses', NEW t \in Thread, NEW b \in Buffer,
         todo'[t] = Dealloc(b), bufferRefs'[b] = {}, memory'[b] = "live",
         UNCHANGED <<home, actions, fifo>>,
         \A q \in Queue : \A k \in DOMAIN fifo[q] : ~Is(fifo[q][k], "keep", b)
  PROVE  Prepared(t)'
<1>0. Types
  BY DEF IInv
<1> SUFFICES ASSUME NEW m \in DOMAIN Dealloc(b), Dealloc(b)[m].do = "free"
             PROVE  /\ Dealloc(b)[m].buffer = b
                    /\ \A q \in Queue : \A k \in DOMAIN fifo[q] : Is(fifo[q][k], "use", b) =>
                         home[b] = q \/ \E i \in 1 .. (m - 1) : Awaits(todo[t][i], t, q, k)'
  BY DEF Prepared
<1>1. /\ m = Len(actions[b]) + 1 /\ Dealloc(b)[m].buffer = b
      /\ \A i \in 1 .. Len(actions[b]) :
           Dealloc(b)[i].do = "wait" /\ Dealloc(b)[i].queue = actions[b][i]
  BY DeallocSteps
<1>2. ASSUME NEW q \in Queue, NEW k \in DOMAIN fifo[q], Is(fifo[q][k], "use", b), home[b] # q
      PROVE  \E i \in 1 .. (m - 1) : Awaits(todo[t][i], t, q, k)'
  <2>1. Covered(q, b, k)'
    BY <1>2 DEF Uses, Protected
  <2>2. \A j \in DOMAIN fifo[q] : fifo[q][j] # Op("keep", b, fifo[q][k].by)
    BY DEF Is, Op
  <2>3. PICK i \in DOMAIN actions[b] : actions[b][i] = q
    BY <1>2, <2>1, <2>2 DEF Covered
  <2>4. i \in 1 .. Len(actions[b]) /\ i \in 1 .. (m - 1)
    BY <1>0, <1>1, <2>3 DEF Types
  <2>5. Awaits(todo[t][i], t, q, k)'
    BY <1>1, <2>3, <2>4 DEF Awaits
  <2> QED
    BY <2>4, <2>5
<1> QED
  BY <1>1, <1>2

\* A reference of a buffer is dropped, and with the last one the destructor runs.
LEMMA ReleaseBufferStep ==
  ASSUME IInv, NEW t \in Thread, NEW b \in Buffer, NEW ref,
         UNCHANGED <<program, queues, queueRefs, memory, home, actions, fifo, running, owed>>,
         ref \in bufferRefs[b],
         held' \in [Queue -> OpType \cup {None}],
         bufferRefs' = [bufferRefs EXCEPT ![b] = @ \ {ref}],
         todo' = [todo EXCEPT ![t] = AfterBuffer(b, ref)],
         Keeps', Protects,
         bufferRefs[b] = {ref} =>
           \A q \in Queue : \A k \in DOMAIN fifo[q] : ~Is(fifo[q][k], "keep", b)
  PROVE  IInv'
<1>0. Types /\ Referenced
  BY DEF IInv
<1>1. PICK steps : steps = AfterBuffer(b, ref)
  OBVIOUS
<1>2. /\ steps \in Seq(StepType)
      /\ \A n \in DOMAIN steps :
           /\ steps[n].do # "free" => steps[n].queue \in Made
           /\ steps[n].do # "return"
      /\ \/ steps = <<>>
         \/ bufferRefs[b] = {ref} /\ steps = Dealloc(b)
  <2>1. CASE bufferRefs[b] = {ref}
    BY <2>1, <1>1, DeallocSteps DEF AfterBuffer
  <2>2. CASE bufferRefs[b] # {ref}
    BY <2>2, <1>1 DEF AfterBuffer
  <2> QED
    BY <2>1, <2>2
<1>3. todo'[t] = steps /\ \A u \in Thread : u # t => todo'[u] = todo[u]
  BY <1>0, <1>1 DEF Types
<1>4. /\ bufferRefs'[b] = bufferRefs[b] \ {ref}
      /\ \A d \in Buffer : d # b => bufferRefs'[d] = bufferRefs[d]
  BY <1>0 DEF Types
<1>5. Types'
  BY <1>0, <1>1, <1>2 DEF Types
<1>6. Grows({}) /\ Grows({"free"})
  BY <1>0, StandsStill
<1>7. \A q \in Queue : \A k \in 1 .. Len(fifo'[q]) : ~(k > Len(fifo[q]))
  BY <1>0 DEF Types
<1>8. Abandons
  BY <1>4, <1>7 DEF Abandons
<1>9. Uses' /\ FreeOps'
  BY <1>5, <1>6, <1>8, UsesStay, FreeOpsStay
<1>10. Freeing'
  <2>1. Prepared(t)'
    <3>1. CASE steps = <<>>
      BY <1>3, <3>1 DEF Prepared
    <3>2. CASE bufferRefs[b] = {ref} /\ steps = Dealloc(b)
      <4>1. bufferRefs'[b] = {} /\ memory'[b] = "live"
        BY <1>0, <1>4, <3>2 DEF Referenced
      <4> QED
        BY <4>1, <3>2, <1>3, <1>5, <1>9, DeallocPrepares
    <3> QED
      BY <1>2, <3>1, <3>2
  <2> QED
    BY <2>1, <1>3, <1>5, <1>6, <1>8, FreeingStays
<1>11. Referenced'
  BY <1>0, <1>4 DEF Referenced
<1>12. Made' = Made
  BY DEF Made
<1>13. Registered'
  BY <1>2, <1>3, <1>5, <1>12, RegisteredStays
<1>14. Busy'
  BY <1>5, <1>6, BusyStays
<1>15. Debts'
  <2>1. \A c \in Client : \/ todo'[c] = todo[c]
                          \/ \A n \in DOMAIN todo'[c] : todo'[c][n].do # "return"
    BY <1>2, <1>3 DEF Thread
  <2> QED
    BY <2>1, <1>5, <1>6, <1>12, DebtsStay
<1> QED
  BY <1>5, <1>9, <1>10, <1>11, <1>13, <1>14, <1>15 DEF IInv

LEMMA DropBufferStep ==
  ASSUME IInv, NEW c \in Client, NEW b \in Buffer, DropBuffer(c, b), UNCHANGED program
  PROVE  IInv'
<1>0. /\ Types /\ Owns(c, b) /\ c \in Thread
      /\ \A q \in Queue : \A k \in DOMAIN fifo[q] :
           fifo[q][k] = Op("use", b, c) => Covered(q, b, k)
      /\ bufferRefs' = [bufferRefs EXCEPT ![b] = @ \ {Handle(c)}]
      /\ todo' = [todo EXCEPT ![c] = AfterBuffer(b, Handle(c))]
      /\ UNCHANGED <<program, queues, queueRefs, memory, home, actions, fifo, held, running, owed>>
  BY DEF IInv, DropBuffer, queueVars, workerVars, Thread
<1>1. /\ bufferRefs'[b] = bufferRefs[b] \ {Handle(c)}
      /\ \A d \in Buffer : d # b => bufferRefs'[d] = bufferRefs[d]
      /\ bufferRefs' \in [Buffer -> SUBSET Ref] /\ Handle(c) \in bufferRefs[b]
      /\ held' \in [Queue -> OpType \cup {None}]
  BY <1>0 DEF Types, Owns
<1>2. \A q \in Queue : Keeper(q) # Handle(c)
  BY DEF Keeper, Handle
<1>3. Keeps'
  <2>1. \A q \in Queue, d \in Buffer : Keeper(q) \in bufferRefs[d] => Keeper(q) \in bufferRefs'[d]
    BY <1>1, <1>2
  <2> QED
    BY <2>1, <1>0 DEF IInv, Keeps
<1>4. Protects
  <2>1. \A q \in Queue : \A k \in 1 .. Len(fifo'[q]) : ~(k > Len(fifo[q]))
    BY <1>0 DEF Types
  <2>2. ASSUME NEW q \in Queue, NEW d \in Buffer, NEW k \in DOMAIN fifo[q],
               Is(fifo[q][k], "use", d), Handle(fifo[q][k].by) \in bufferRefs[d]
        PROVE  Handle(fifo[q][k].by) \in bufferRefs'[d] \/ Covered(q, d, k)
    <3>1. CASE d = b /\ Handle(fifo[q][k].by) = Handle(c)
      <4>1. fifo[q][k] \in OpType /\ fifo[q][k].by = c
        BY <3>1, <1>0 DEF Types, Handle
      <4>2. fifo[q][k] = Op("use", b, c)
        BY <3>1, <4>1, <2>2 DEF Is, Op, OpType
      <4> QED
        BY <4>2, <3>1, <1>0
    <3> QED
      BY <3>1, <2>2, <1>1
  <2> QED
    BY <1>0, <2>1, <2>2 DEF Protects
<1>5. bufferRefs[b] = {Handle(c)} =>
        \A q \in Queue : \A k \in DOMAIN fifo[q] : ~Is(fifo[q][k], "keep", b)
  BY <1>2 DEF IInv, Keeps
<1> QED
  BY <1>0, <1>1, <1>3, <1>4, <1>5, ReleaseBufferStep

LEMMA DropQueueStep ==
  ASSUME IInv, NEW c \in Client, NEW q \in Queue, DropQueue(c, q), UNCHANGED program
  PROVE  IInv'
<1>0. /\ Types /\ Registered /\ Holds(c, q) /\ c \in Thread
      /\ queueRefs' = [queueRefs EXCEPT ![q] = @ \ {Handle(c)}]
      /\ todo' = [todo EXCEPT ![c] = AfterQueue(q, Handle(c))]
      /\ UNCHANGED <<program, queues, bufferVars, fifo, held, running, owed>>
      /\ UNCHANGED <<bufferRefs, memory, home, actions>>
  BY DEF IInv, DropQueue, bufferVars, workerVars, Thread
<1>1. PICK steps : steps = AfterQueue(q, Handle(c))
  OBVIOUS
<1>2. q \in Made /\ Made' = Made
  BY <1>0 DEF Holds, Registered, Made
<1>3. /\ steps \in Seq(StepType)
      /\ \A n \in DOMAIN steps : steps[n].do \notin {"free", "return"} /\ steps[n].queue \in Made
  <2>1. CASE queueRefs[q] = {Handle(c)}
    <3>1. steps = <<Step("wait", q, None, None), Step("end", q, None, None)>>
      BY <1>1, <2>1 DEF AfterQueue, Destroy
    <3>2. /\ steps \in Seq(StepType) /\ DOMAIN steps = 1 .. 2
          /\ steps[1].do = "wait" /\ steps[1].queue = q
          /\ steps[2].do = "end" /\ steps[2].queue = q
      BY <3>1, StepsAreTyped DEF Dos, Step, Ref
    <3> QED
      BY <3>2, <1>2
  <2>2. CASE queueRefs[q] # {Handle(c)}
    BY <2>2, <1>1 DEF AfterQueue
  <2> QED
    BY <2>1, <2>2
<1>4. todo'[c] = steps /\ \A u \in Thread : u # c => todo'[u] = todo[u]
  BY <1>0, <1>1 DEF Types
<1>5. /\ queueRefs' \in [Queue -> SUBSET Ref]
      /\ \A p \in Queue : queueRefs[p] = {} => queueRefs'[p] = {}
  BY <1>0 DEF Types
<1>6. Types'
  BY <1>0, <1>1, <1>3, <1>5 DEF Types
<1>7. Grows({}) /\ Abandons /\ Uses' /\ FreeOps' /\ Keeps' /\ Referenced'
  BY <1>0, <1>6, BuffersUntouched
<1>8. Freeing'
  <2>1. Prepared(c)'
    BY <1>3, <1>4 DEF Prepared
  <2> QED
    BY <2>1, <1>4, <1>6, <1>7, FreeingStays
<1>9. Registered'
  BY <1>0, <1>2, <1>3, <1>4, <1>5, <1>6, RegisteredStays
<1>10. Busy'
  BY <1>0, <1>6, <1>7, BusyStays
<1>11. Debts'
  <2>1. \A d \in Client : \/ todo'[d] = todo[d]
                          \/ \A n \in DOMAIN todo'[d] : todo'[d][n].do # "return"
    BY <1>3, <1>4 DEF Thread
  <2>2. \A p \in Made : queueRefs[p] = {} => queueRefs'[p] = {}
    BY <1>0, <1>5 DEF Made, Types
  <2> QED
    BY <1>0, <1>2, <1>6, <1>7, <2>1, <2>2, DebtsStay
<1> QED
  BY <1>6, <1>7, <1>8, <1>9, <1>10, <1>11 DEF IInv

LEMMA DeviceWaitStep ==
  ASSUME IInv, NEW c \in Client, DeviceWait(c), UNCHANGED program
  PROVE  IInv'
<1> DEFINE locks == [k \in DOMAIN queues |-> Step("lock", queues[k], None, None)]
           returns == <<Step("return", None, None, None)>>
<1>0. /\ Types /\ Registered /\ Debts /\ c \in Thread
      /\ todo' = [todo EXCEPT ![c] = locks \o returns]
      /\ owed' = [owed EXCEPT ![c] = [q \in Queue |-> Len(fifo[q])]]
      /\ UNCHANGED <<program, queues, queueRefs, bufferVars, fifo, held, running>>
      /\ UNCHANGED <<bufferRefs, memory, home, actions>>
  BY DEF IInv, DeviceWait, queueVars, bufferVars, workerVars, Thread
<1>1. PICK n : n = Len(queues)
  OBVIOUS
<1>2. n \in Nat /\ DOMAIN queues = 1 .. n /\ \A k \in 1 .. n : queues[k] \in Queue /\ queues[k] \in Made
  <2>1. queues \in Seq(Queue)
    BY <1>0 DEF Types
  <2>2. n \in Nat /\ DOMAIN queues = 1 .. n
    BY <2>1, <1>1
  <2>3. \A k \in 1 .. n : queues[k] \in Queue
    BY <2>1, <1>1
  <2> QED
    BY <2>2, <2>3 DEF Made
<1>3. /\ locks \in Seq(StepType) /\ Len(locks) = n
      /\ \A k \in 1 .. n : locks[k].do = "lock" /\ locks[k].queue = queues[k]
  <2>1. \A k \in 1 .. n : Step("lock", queues[k], None, None) \in StepType
    BY <1>2, StepsAreTyped DEF Dos, Ref
  <2> QED
    BY <2>1, <1>2 DEF Step
<1>4. returns \in Seq(StepType) /\ Len(returns) = 1 /\ returns[1].do = "return"
  BY DEF Step, StepType, Dos, Ref
<1>5. PICK steps : steps = locks \o returns
  OBVIOUS
<1> HIDE DEF locks, returns
<1>6. /\ steps \in Seq(StepType) /\ Len(steps) = n + 1 /\ DOMAIN steps = 1 .. n + 1
      /\ \A k \in 1 .. n : steps[k].do = "lock" /\ steps[k].queue = queues[k]
      /\ steps[n + 1].do = "return"
  <2>1. /\ steps \in Seq(StepType) /\ Len(steps) = Len(locks) + Len(returns)
        /\ \A m \in 1 .. Len(locks) + Len(returns) :
             steps[m] = IF m <= Len(locks) THEN locks[m] ELSE returns[m - Len(locks)]
    <3>1. locks \in Seq(StepType) /\ returns \in Seq(StepType)
      BY <1>3, <1>4
    <3> QED
      BY <3>1, <1>5, ConcatProperties, Zenon
  <2>2. DOMAIN steps = 1 .. Len(steps)
    BY <2>1
  <2> QED
    BY <2>1, <2>2, <1>2, <1>3, <1>4
<1>7. todo'[c] = steps /\ \A u \in Thread : u # c => todo'[u] = todo[u]
  BY <1>0, <1>5 DEF Types
<1>8. /\ owed' \in [Client -> [Queue -> Nat]]
      /\ \A q \in Queue : owed'[c][q] = Len(fifo[q])
      /\ \A d \in Client : d # c => owed'[d] = owed[d]
  BY <1>0 DEF Types
<1>9. Types'
  BY <1>0, <1>5, <1>6, <1>8 DEF Types
<1>10. Grows({}) /\ Abandons /\ Uses' /\ FreeOps' /\ Keeps' /\ Referenced'
  BY <1>0, <1>9, BuffersUntouched
<1>11. Freeing'
  <2>1. \A m \in DOMAIN steps : steps[m].do # "free"
    BY <1>2, <1>6
  <2>2. Prepared(c)'
    BY <2>1, <1>7 DEF Prepared
  <2> QED
    BY <2>2, <1>7, <1>9, <1>10, FreeingStays
<1>12. Made' = Made
  BY <1>0 DEF Made
<1>13. Registered'
  <2>1. \A m \in DOMAIN steps : steps[m].do \notin {"free", "return"} => steps[m].queue \in Made
    BY <1>2, <1>6
  <2> QED
    BY <2>1, <1>0, <1>7, <1>9, <1>12, RegisteredStays
<1>14. Busy'
  BY <1>0, <1>9, <1>10, BusyStays
<1>15. Debts'
  <2>1. \A d \in Client, q \in Queue : owed'[d][q] <= Len(fifo'[q])
    <3> SUFFICES ASSUME NEW d \in Client, NEW q \in Queue PROVE owed'[d][q] <= Len(fifo'[q])
      OBVIOUS
    <3>1. Len(fifo[q]) \in Nat /\ fifo' = fifo
      BY <1>0 DEF Types
    <3> QED
      BY <3>1, <1>0, <1>8 DEF Debts
  <2>2. ASSUME NEW d \in Client, NEW m \in DOMAIN todo'[d], todo'[d][m].do = "return", NEW q \in Queue
        PROVE  \/ owed'[d][q] = 0
               \/ q \in Made' /\ queueRefs'[q] = {}
               \/ \E i \in 1 .. (m - 1) :
                    \/ todo'[d][i].queue = q /\ todo'[d][i].do = "lock"
                    \/ Awaits(todo[d][i], d, q, owed[d][q])'
    <3>1. CASE d = c
      <4>1. m = n + 1
        BY <1>2, <1>6, <1>7, <2>2, <3>1
      <4>2. CASE q \in Made
        <5>1. PICK i \in 1 .. n : queues[i] = q
          BY <4>2, <1>2 DEF Made
        <5>2. i \in 1 .. (m - 1) /\ steps[i].queue = q /\ steps[i].do = "lock"
          BY <5>1, <4>1, <1>2, <1>6
        <5> QED
          BY <5>2, <3>1, <1>7
      <4>3. CASE q \notin Made
        BY <4>3, <3>1, <1>0, <1>8 DEF Registered
      <4> QED
        BY <4>2, <4>3
    <3>2. CASE d # c
      <4>0. PICK k : k = owed[d][q]
        OBVIOUS
      <4>1. todo'[d] = todo[d] /\ owed'[d][q] = k /\ d \in Thread
        BY <4>0, <3>2, <1>7, <1>8 DEF Thread
      <4>2. \/ k = 0
            \/ q \in Made /\ queueRefs[q] = {}
            \/ \E i \in 1 .. (m - 1) :
                 \/ todo[d][i].queue = q /\ todo[d][i].do = "lock"
                 \/ Awaits(todo[d][i], d, q, k)
        BY <4>0, <4>1, <1>0, <2>2 DEF Debts
      <4>3. \A i : Awaits(todo[d][i], d, q, k) => Awaits(todo[d][i], d, q, owed[d][q])'
        BY <4>1, <1>0 DEF Awaits
      <4> QED
        BY <4>1, <4>2, <4>3, <1>0, <1>12
    <3> QED
      BY <3>1, <3>2
  <2> QED
    BY <2>1, <2>2 DEF Debts
<1> QED
  BY <1>9, <1>10, <1>11, <1>13, <1>14, <1>15 DEF IInv

-----------------------------------------------------------------------------
(* The steps of a worker.                                                   *)

LEMMA WorkerPopStep ==
  ASSUME IInv, NEW q \in Queue, WorkerPop(q), running[q], UNCHANGED program
  PROVE  IInv'
<1> DEFINE op == Head(fifo[q])
           d(p) == IF p = q THEN 1 ELSE 0
<1>0. /\ Types /\ Registered /\ Busy /\ Keeps /\ Referenced /\ Uses /\ Freeing /\ FreeOps /\ Debts
      /\ running' = [running EXCEPT ![q] = FALSE]
      /\ held' = [held EXCEPT ![q] = op]
      /\ fifo' = [fifo EXCEPT ![q] = Tail(@)]
      /\ memory' = IF op.kind = "free" THEN [memory EXCEPT ![op.buffer] = "freed"] ELSE memory
      /\ owed' = [c \in Client |-> [owed[c] EXCEPT ![q] = IF @ > 0 THEN @ - 1 ELSE 0]]
      /\ UNCHANGED <<program, queues, queueRefs, bufferRefs, home, actions, todo>>
  BY DEF IInv, WorkerPop, queueVars
<1>1. /\ fifo[q] \in Seq(OpType) /\ fifo[q] # <<>> /\ op = fifo[q][1] /\ 1 \in DOMAIN fifo[q]
      /\ op \in OpType
  BY <1>0 DEF Types, Busy
<1>2. /\ fifo' \in [Queue -> Seq(OpType)]
      /\ \A p \in Queue :
           /\ Len(fifo[p]) \in Nat /\ DOMAIN fifo[p] = 1 .. Len(fifo[p])
           /\ Len(fifo'[p]) = Len(fifo[p]) - d(p) /\ DOMAIN fifo'[p] = 1 .. Len(fifo[p]) - d(p)
           /\ \A k \in 1 .. Len(fifo[p]) - d(p) : fifo'[p][k] = fifo[p][k + d(p)]
  <2>1. /\ Tail(fifo[q]) \in Seq(OpType) /\ Len(Tail(fifo[q])) = Len(fifo[q]) - 1
        /\ DOMAIN Tail(fifo[q]) = 1 .. Len(fifo[q]) - 1
        /\ \A k \in 1 .. Len(fifo[q]) - 1 : Tail(fifo[q])[k] = fifo[q][k + 1]
    BY <1>1
  <2>2. fifo'[q] = Tail(fifo[q]) /\ \A p \in Queue : p # q => fifo'[p] = fifo[p]
    BY <1>0 DEF Types
  <2>3. fifo' \in [Queue -> Seq(OpType)]
    BY <2>1, <1>0 DEF Types
  <2>4. ASSUME NEW p \in Queue
        PROVE  /\ Len(fifo[p]) \in Nat /\ DOMAIN fifo[p] = 1 .. Len(fifo[p])
               /\ Len(fifo'[p]) = Len(fifo[p]) - d(p) /\ DOMAIN fifo'[p] = 1 .. Len(fifo[p]) - d(p)
               /\ \A k \in 1 .. Len(fifo[p]) - d(p) : fifo'[p][k] = fifo[p][k + d(p)]
    <3>0. fifo[p] \in Seq(OpType)
      BY <1>0 DEF Types
    <3>1. CASE p = q
      BY <3>0, <3>1, <2>1, <2>2
    <3>2. CASE p # q
      BY <3>0, <3>2, <2>2
    <3> QED
      BY <3>1, <3>2
  <2> QED
    BY <2>3, <2>4
<1>d. \A p \in Queue : d(p) \in {0, 1} /\ (d(p) = 1 <=> p = q)
  OBVIOUS
<1> HIDE DEF d
<1>3. \A p \in Queue : \A k \in DOMAIN fifo'[p] :
        k \in Nat /\ k + d(p) \in DOMAIN fifo[p] /\ fifo'[p][k] = fifo[p][k + d(p)]
  <2> SUFFICES ASSUME NEW p \in Queue, NEW k \in DOMAIN fifo'[p]
               PROVE  k \in Nat /\ k + d(p) \in DOMAIN fifo[p] /\ fifo'[p][k] = fifo[p][k + d(p)]
    OBVIOUS
  <2>1. d(p) \in {0, 1} /\ Len(fifo[p]) \in Nat /\ k \in 1 .. Len(fifo[p]) - d(p)
    BY <1>2, <1>d
  <2>2. k \in Nat /\ k + d(p) \in 1 .. Len(fifo[p])
    BY <2>1
  <2> QED
    BY <2>1, <2>2, <1>2
<1>4. \A p \in Queue : \A k \in Nat : \A j \in DOMAIN fifo[p] : j > k + d(p) =>
        j - d(p) \in DOMAIN fifo'[p] /\ j - d(p) > k /\ fifo'[p][j - d(p)] = fifo[p][j]
  <2> SUFFICES ASSUME NEW p \in Queue, NEW k \in Nat, NEW j \in DOMAIN fifo[p], j > k + d(p)
               PROVE  j - d(p) \in DOMAIN fifo'[p] /\ j - d(p) > k /\ fifo'[p][j - d(p)] = fifo[p][j]
    OBVIOUS
  <2>1. d(p) \in {0, 1} /\ Len(fifo[p]) \in Nat /\ j \in 1 .. Len(fifo[p])
    BY <1>2, <1>d
  <2>2. j - d(p) \in 1 .. Len(fifo[p]) - d(p) /\ j - d(p) > k /\ (j - d(p)) + d(p) = j
    BY <2>1
  <2>3. fifo'[p][j - d(p)] = fifo[p][(j - d(p)) + d(p)]
    BY <2>2, <1>2
  <2> QED
    BY <2>2, <2>3, <1>2
<1>5. \A s, t, k : \A p \in Queue : k \in Nat /\ Awaits(s, t, p, k + d(p)) => Awaits(s, t, p, k)'
  <2> SUFFICES ASSUME NEW s, NEW t, NEW p \in Queue, NEW k \in Nat, Awaits(s, t, p, k + d(p))
               PROVE  Awaits(s, t, p, k)'
    OBVIOUS
  <2>1. CASE s.do \in {"wait", "mark"}
    BY <2>1 DEF Awaits
  <2>2. CASE s.do = "await"
    <3>1. PICK j \in DOMAIN fifo[p] : j > k + d(p) /\ fifo[p][j] = Op("marker", None, t)
      BY <2>2 DEF Awaits
    <3>2. j - d(p) \in DOMAIN fifo'[p] /\ j - d(p) > k /\ fifo'[p][j - d(p)] = Op("marker", None, t)
      BY <3>1, <1>4
    <3> QED
      BY <3>2, <2>2 DEF Awaits
  <2> QED
    BY <2>1, <2>2 DEF Awaits
<1>6. /\ held' \in [Queue -> OpType \cup {None}] /\ held'[q] = op
      /\ \A p \in Queue : p # q => held'[p] = held[p]
  BY <1>0, <1>1 DEF Types
<1>7. op.kind = "free" => op.buffer \in Buffer
  BY <1>1 DEF OpType
<1>8. \A b \in Buffer : memory'[b] # memory[b] => Is(op, "free", b) /\ memory'[b] = "freed"
  BY <1>0, <1>7 DEF Types, Is
<1>9. memory' \in [Buffer -> {"none", "live", "freed"}]
  BY <1>0, <1>7 DEF Types
<1>10. /\ owed' \in [Client -> [Queue -> Nat]]
       /\ \A c \in Client, p \in Queue : /\ owed[c][p] = 0 => owed'[c][p] = 0
                                         /\ owed[c][p] > 0 => owed'[c][p] = owed[c][p] - d(p)
  <2>1. \A c \in Client : \A p \in Queue : owed[c][p] \in Nat
    BY <1>0 DEF Types
  <2>2. \A c \in Client : \A p \in Queue :
          owed'[c][p] = IF p = q THEN (IF owed[c][q] > 0 THEN owed[c][q] - 1 ELSE 0) ELSE owed[c][p]
    BY <1>0 DEF Types
  <2>3. owed' \in [Client -> [Queue -> Nat]]
    <3>1. \A c \in Client : owed[c] \in [Queue -> Nat]
      BY <1>0 DEF Types
    <3>2. \A c \in Client : [owed[c] EXCEPT ![q] = IF @ > 0 THEN @ - 1 ELSE 0] \in [Queue -> Nat]
      BY <3>1
    <3> QED
      BY <3>2, <1>0
  <2> QED
    BY <2>1, <2>2, <2>3 DEF d
<1> HIDE DEF op
<1>11. running' \in [Queue -> BOOLEAN] /\ \A p \in Queue : running'[p] => p # q /\ running[p]
  BY <1>0 DEF Types
<1>12. Types'
  BY <1>0, <1>2, <1>6, <1>9, <1>10, <1>11 DEF Types
<1>13. Made' = Made
  BY <1>0 DEF Made
<1>14. Registered'
  <2>1. \A p \in Queue : fifo'[p] # <<>> => fifo[p] # <<>>
    BY <1>0, <1>1
  <2> QED
    BY <2>1, <1>0, <1>12, <1>13, RegisteredStays
<1>15. Busy'
  BY <1>0, <1>11 DEF Busy
<1>16. \A b \in Buffer : Is(op, "free", b) =>
         /\ bufferRefs[b] = {}
         /\ \A p \in Queue : \A j \in DOMAIN fifo[p] : ~Is(fifo[p][j], "use", b)
  <2> SUFFICES ASSUME NEW b \in Buffer, Is(op, "free", b)
               PROVE  /\ bufferRefs[b] = {}
                      /\ \A p \in Queue : \A j \in DOMAIN fifo[p] : ~Is(fifo[p][j], "use", b)
    OBVIOUS
  <2>1. /\ bufferRefs[b] = {}
        /\ \A p \in Queue : \A j \in DOMAIN fifo[p] : Is(fifo[p][j], "use", b) => p = q /\ j < 1
    BY <1>0, <1>1 DEF FreeOps
  <2> QED
    BY <2>1, <1>2
<1>17. Referenced'
  BY <1>0, <1>8, <1>16 DEF Referenced
<1>18. Keeps'
  <2> SUFFICES ASSUME NEW p \in Queue, NEW b \in Buffer
               PROVE  /\ \A k \in DOMAIN fifo'[p] : Is(fifo'[p][k], "keep", b) =>
                           /\ Keeper(p) \in bufferRefs[b]
                           /\ ~(held'[p] # None /\ Is(held'[p], "keep", b))
                           /\ \A j \in DOMAIN fifo'[p] : Is(fifo'[p][j], "keep", b) => j = k
                      /\ held'[p] # None /\ Is(held'[p], "keep", b) => Keeper(p) \in bufferRefs[b]
    BY <1>0 DEF Keeps
  <2>1. ASSUME NEW k \in DOMAIN fifo'[p], Is(fifo'[p][k], "keep", b)
        PROVE  /\ Keeper(p) \in bufferRefs[b]
               /\ ~(held'[p] # None /\ Is(held'[p], "keep", b))
               /\ \A j \in DOMAIN fifo'[p] : Is(fifo'[p][j], "keep", b) => j = k
    <3>1. k + d(p) \in DOMAIN fifo[p] /\ Is(fifo[p][k + d(p)], "keep", b) /\ k \in Nat /\ k >= 1
      BY <2>1, <1>2, <1>3, <1>12, Domains DEF Types
    <3>2. /\ Keeper(p) \in bufferRefs[b]
          /\ ~(held[p] # None /\ Is(held[p], "keep", b))
          /\ \A j \in DOMAIN fifo[p] : Is(fifo[p][j], "keep", b) => j = k + d(p)
      BY <3>1, <1>0 DEF Keeps
    <3>3. \A j \in DOMAIN fifo'[p] : Is(fifo'[p][j], "keep", b) => j = k
      <4> SUFFICES ASSUME NEW j \in DOMAIN fifo'[p], Is(fifo'[p][j], "keep", b) PROVE j = k
        OBVIOUS
      <4>1. j + d(p) = k + d(p) /\ j \in Nat /\ d(p) \in {0, 1}
        BY <3>2, <1>3, <1>d
      <4> QED
        BY <4>1, <3>1
    <3>4. p = q => ~Is(held'[p], "keep", b)
      BY <3>1, <3>2, <1>1, <1>6, <1>d
    <3> QED
      BY <3>2, <3>3, <3>4, <1>6
  <2>2. held'[p] # None /\ Is(held'[p], "keep", b) => Keeper(p) \in bufferRefs[b]
    BY <1>0, <1>1, <1>6 DEF Keeps
  <2> QED
    BY <2>1, <2>2
<1>19. Uses'
  <2> SUFFICES ASSUME NEW p \in Queue, NEW b \in Buffer, NEW k \in DOMAIN fifo'[p],
                      Is(fifo'[p][k], "use", b)
               PROVE  Protected(p, b, k)'
    BY DEF Uses
  <2>1. /\ k + d(p) \in DOMAIN fifo[p] /\ fifo'[p][k] = fifo[p][k + d(p)]
        /\ Is(fifo[p][k + d(p)], "use", b) /\ k \in Nat
    BY <1>3
  <2>2. Protected(p, b, k + d(p))
    BY <2>1, <1>0 DEF Uses
  <2>3. memory'[b] = "live"
    BY <2>1, <2>2, <1>8, <1>16 DEF Protected
  <2>4. Covered(p, b, k + d(p)) => Covered(p, b, k)'
    BY <2>1, <1>0, <1>4 DEF Covered
  <2> QED
    BY <2>1, <2>2, <2>3, <2>4, <1>0 DEF Protected
<1>20. \A b \in Buffer : memory[b] # "none" => memory'[b] # "none"
  BY <1>8
<1>21. Freeing'
  <2> SUFFICES ASSUME NEW t \in Thread, NEW n \in DOMAIN todo'[t], NEW b \in Buffer,
                      todo'[t][n].do = "free", todo'[t][n].buffer = b
               PROVE  /\ bufferRefs'[b] = {} /\ memory'[b] # "none"
                      /\ \A p \in Queue : \A k \in DOMAIN fifo'[p] : Is(fifo'[p][k], "use", b) =>
                           home'[b] = p \/ \E m \in 1 .. (n - 1) : Awaits(todo[t][m], t, p, k)'
    BY DEF Freeing
  <2>0. todo' = todo /\ home' = home /\ bufferRefs' = bufferRefs
    BY <1>0
  <2>1. /\ bufferRefs[b] = {} /\ memory[b] # "none"
        /\ \A p \in Queue : \A k \in DOMAIN fifo[p] : Is(fifo[p][k], "use", b) =>
             home[b] = p \/ \E m \in 1 .. (n - 1) : Awaits(todo[t][m], t, p, k)
    <3>1. /\ todo[t][n].do = "free" /\ todo[t][n].buffer = b /\ n \in DOMAIN todo[t]
          /\ Freeing
      BY <2>0, <1>0
    <3> QED
      BY <3>1 DEF Freeing
  <2>2. ASSUME NEW p \in Queue, NEW k \in DOMAIN fifo'[p], Is(fifo'[p][k], "use", b)
        PROVE  home'[b] = p \/ \E m \in 1 .. (n - 1) : Awaits(todo[t][m], t, p, k)'
    <3>1. k + d(p) \in DOMAIN fifo[p] /\ Is(fifo[p][k + d(p)], "use", b) /\ k \in Nat
      BY <2>2, <1>3
    <3>2. home[b] = p \/ \E m \in 1 .. (n - 1) : Awaits(todo[t][m], t, p, k + d(p))
      BY <2>1, <3>1
    <3>3. ASSUME NEW m, Awaits(todo[t][m], t, p, k + d(p))
          PROVE  Awaits(todo[t][m], t, p, k)'
      <4>1. PICK s : s = todo[t][m]
        OBVIOUS
      <4>2. Awaits(s, t, p, k)'
        BY <3>1, <3>3, <4>1, <1>5
      <4> QED
        BY <2>0, <4>1, <4>2 DEF Awaits
    <3> QED
      BY <2>0, <3>2, <3>3
  <2> QED
    BY <2>0, <2>1, <2>2, <1>20
<1>22. FreeOps'
  <2> SUFFICES ASSUME NEW p \in Queue, NEW k \in DOMAIN fifo'[p], NEW b \in Buffer,
                      Is(fifo'[p][k], "free", b)
               PROVE  /\ bufferRefs[b] = {} /\ memory'[b] # "none"
                      /\ \A r \in Queue : \A j \in DOMAIN fifo'[r] :
                           Is(fifo'[r][j], "use", b) => r = p /\ j < k
    BY <1>0 DEF FreeOps
  <2>1. k + d(p) \in DOMAIN fifo[p] /\ Is(fifo[p][k + d(p)], "free", b) /\ k \in Nat
    BY <1>3
  <2>2. /\ bufferRefs[b] = {} /\ memory[b] # "none"
        /\ \A r \in Queue : \A j \in DOMAIN fifo[r] : Is(fifo[r][j], "use", b) => r = p /\ j < k + d(p)
    BY <2>1, <1>0 DEF FreeOps
  <2>3. ASSUME NEW r \in Queue, NEW j \in DOMAIN fifo'[r], Is(fifo'[r][j], "use", b)
        PROVE  r = p /\ j < k
    <3>1. j + d(r) \in DOMAIN fifo[r] /\ Is(fifo[r][j + d(r)], "use", b) /\ j \in Nat
      BY <2>3, <1>3
    <3>2. r = p /\ j + d(r) < k + d(p) /\ d(p) \in {0, 1}
      BY <3>1, <2>2, <1>d
    <3> QED
      BY <3>1, <3>2, <2>1
  <2> QED
    BY <2>2, <2>3, <1>20
<1>23. Debts'
  <2>1. \A c \in Client, p \in Queue : owed'[c][p] <= Len(fifo'[p])
    <3> SUFFICES ASSUME NEW c \in Client, NEW p \in Queue PROVE owed'[c][p] <= Len(fifo'[p])
      OBVIOUS
    <3>1. owed[c][p] <= Len(fifo[p]) /\ owed[c][p] \in Nat
      BY <1>0 DEF Debts, Types
    <3>2. Len(fifo'[p]) = Len(fifo[p]) - d(p) /\ Len(fifo[p]) \in Nat /\ Len(fifo'[p]) \in Nat
      BY <1>2, <1>12 DEF Types
    <3>3. d(p) \in {0, 1}
      BY <1>d
    <3> QED
      BY <3>1, <3>2, <3>3, <1>10
  <2>2. ASSUME NEW c \in Client, NEW n \in DOMAIN todo[c], todo[c][n].do = "return", NEW p \in Queue
        PROVE  \/ owed'[c][p] = 0
               \/ p \in Made' /\ queueRefs[p] = {}
               \/ \E m \in 1 .. (n - 1) :
                    \/ todo[c][m].queue = p /\ todo[c][m].do = "lock"
                    \/ Awaits(todo[c][m], c, p, owed[c][p])'
    <3>0. PICK k \in Nat : k = owed'[c][p]
      BY <1>10
    <3>1. \/ owed[c][p] = 0
          \/ p \in Made /\ queueRefs[p] = {}
          \/ \E m \in 1 .. (n - 1) :
               \/ todo[c][m].queue = p /\ todo[c][m].do = "lock"
               \/ Awaits(todo[c][m], c, p, owed[c][p])
      BY <2>2, <1>0 DEF Debts
    <3>2. owed[c][p] # 0 => owed[c][p] = k + d(p)
      <4>1. owed[c][p] \in Nat /\ d(p) \in {0, 1}
        BY <1>0, <1>d DEF Types
      <4> QED
        BY <4>1, <3>0, <1>10
    <3>3. ASSUME NEW m, Awaits(todo[c][m], c, p, k + d(p))
          PROVE  Awaits(todo[c][m], c, p, k)'
      <4>1. PICK s : s = todo[c][m]
        OBVIOUS
      <4>2. Awaits(s, c, p, k)'
        BY <3>3, <4>1, <1>5
      <4> QED
        BY <1>0, <4>1, <4>2 DEF Awaits
    <3>4. \A m : Awaits(todo[c][m], c, p, k)' => Awaits(todo[c][m], c, p, owed[c][p])'
      BY <3>0 DEF Awaits
    <3> QED
      BY <3>1, <3>2, <3>3, <3>4, <1>10, <1>13
  <2> QED
    BY <2>1, <2>2, <1>0 DEF Debts
<1> QED
  BY <1>12, <1>14, <1>15, <1>17, <1>18, <1>19, <1>21, <1>22, <1>23 DEF IInv

LEMMA WorkerDropCaptureStep ==
  ASSUME IInv, NEW q \in Queue, WorkerDropCapture(q), UNCHANGED program
  PROVE  IInv'
<1>0. /\ Types /\ Keeps /\ held[q] # None /\ held[q].kind = "keep" /\ q \in Thread
      /\ held' = [held EXCEPT ![q] = Op("dropped", None, held[q].by)]
      /\ UNCHANGED <<program, queues, queueRefs, memory, home, actions, fifo, running, owed>>
  BY DEF IInv, WorkerDropCapture, queueVars, Thread
<1>1. PICK b \in Buffer : b = held[q].buffer
  BY <1>0 DEF Types, OpType
<1>2. /\ bufferRefs' = [bufferRefs EXCEPT ![b] = @ \ {Keeper(q)}]
      /\ todo' = [todo EXCEPT ![q] = AfterBuffer(b, Keeper(q))]
  BY <1>1 DEF WorkerDropCapture
<1>3. Is(held[q], "keep", b)
  BY <1>0, <1>1 DEF Is
<1>4. /\ Keeper(q) \in bufferRefs[b]
      /\ \A k \in DOMAIN fifo[q] : ~Is(fifo[q][k], "keep", b)
  BY <1>0, <1>3 DEF Keeps
<1>5. /\ bufferRefs'[b] = bufferRefs[b] \ {Keeper(q)}
      /\ \A d \in Buffer : d # b => bufferRefs'[d] = bufferRefs[d]
  BY <1>0, <1>2 DEF Types
<1>6. /\ held' \in [Queue -> OpType \cup {None}]
      /\ ~Is(held'[q], "keep", b) /\ \A d : ~Is(held'[q], "keep", d)
      /\ \A p \in Queue : p # q => held'[p] = held[p]
  <2>1. held[q] \in OpType
    BY <1>0 DEF Types
  <2>2. Op("dropped", None, held[q].by) \in OpType /\ Op("dropped", None, held[q].by).kind = "dropped"
    BY <2>1 DEF Op, OpType, Kinds
  <2> QED
    BY <2>2, <1>0 DEF Types, Is
<1>7. \A p \in Queue : (Keeper(p) = Keeper(q) <=> p = q) /\ \A u : Handle(u) # Keeper(p)
  BY DEF Keeper, Handle
<1>8. Keeps'
  <2> SUFFICES ASSUME NEW p \in Queue, NEW d \in Buffer
               PROVE  /\ \A k \in DOMAIN fifo[p] : Is(fifo[p][k], "keep", d) =>
                           /\ Keeper(p) \in bufferRefs'[d]
                           /\ ~(held'[p] # None /\ Is(held'[p], "keep", d))
                           /\ \A j \in DOMAIN fifo[p] : Is(fifo[p][j], "keep", d) => j = k
                      /\ held'[p] # None /\ Is(held'[p], "keep", d) => Keeper(p) \in bufferRefs'[d]
    BY <1>0 DEF Keeps
  <2>1. CASE p = q /\ d = b
    BY <2>1, <1>4, <1>6
  <2>2. CASE ~(p = q /\ d = b)
    <3>1. Keeper(p) \in bufferRefs[d] => Keeper(p) \in bufferRefs'[d]
      BY <2>2, <1>5, <1>7
    <3>2. held'[p] # None /\ Is(held'[p], "keep", d) => held[p] # None /\ Is(held[p], "keep", d)
      BY <1>6
    <3> QED
      BY <3>1, <3>2, <1>0 DEF Keeps
  <2> QED
    BY <2>1, <2>2
<1>9. Protects
  <2>1. \A p \in Queue : \A k \in 1 .. Len(fifo'[p]) : ~(k > Len(fifo[p]))
    BY <1>0 DEF Types
  <2>2. \A d \in Buffer : \A u : Handle(u) \in bufferRefs[d] => Handle(u) \in bufferRefs'[d]
    BY <1>5, <1>7
  <2> QED
    BY <1>0, <2>1, <2>2 DEF Protects
<1>10. bufferRefs[b] = {Keeper(q)} =>
         \A p \in Queue : \A k \in DOMAIN fifo[p] : ~Is(fifo[p][k], "keep", b)
  BY <1>0, <1>4, <1>7 DEF Keeps
<1> QED
  BY <1>0, <1>2, <1>4, <1>6, <1>8, <1>9, <1>10, ReleaseBufferStep

\* The worker starts an operation, or sets a promise: nothing else changes.
LEMMA WorkerStands ==
  ASSUME IInv, UNCHANGED <<program, queueVars, bufferVars, fifo, callVars>>,
         running' \in [Queue -> BOOLEAN], held' \in [Queue -> OpType \cup {None}],
         \A q \in Queue : running'[q] => fifo[q] # <<>>,
         \A q \in Queue : held'[q] = held[q] \/ held'[q] = None
  PROVE  IInv'
<1>0. /\ Types /\ Referenced /\ UNCHANGED <<queues, queueRefs, bufferRefs, memory, home, actions, todo, owed>>
  BY DEF IInv, queueVars, bufferVars, callVars
<1>1. Types'
  BY <1>0 DEF Types
<1>2. Grows({}) /\ Grows({"free"}) /\ Grows({"keep"})
  BY <1>0, StandsStill
<1>3. \A q \in Queue : \A k \in 1 .. Len(fifo'[q]) : ~(k > Len(fifo[q]))
  BY <1>0 DEF Types
<1>4. Abandons /\ Protects
  BY <1>0, <1>3 DEF Abandons, Protects
<1>5. Uses' /\ FreeOps' /\ Freeing'
  BY <1>0, <1>1, <1>2, <1>4, UsesStay, FreeOpsStay, FreeingStays
<1>6. Keeps'
  BY <1>0, <1>1, <1>2, KeepsStay
<1>7. Referenced' /\ Busy' /\ Made' = Made
  BY <1>0 DEF Referenced, Busy, Made
<1>8. Registered'
  BY <1>0, <1>1, <1>7, RegisteredStays
<1>9. Debts'
  <2>1. \A q \in Made : queueRefs[q] = {} => queueRefs'[q] = {}
    BY <1>0
  <2> QED
    BY <1>0, <1>1, <1>2, <1>7, <2>1, DebtsStay
<1> QED
  BY <1>1, <1>5, <1>6, <1>7, <1>8, <1>9 DEF IInv

LEMMA WorkerRunStep ==
  ASSUME IInv, NEW q \in Queue, WorkerRun(q), UNCHANGED program
  PROVE  IInv'
<1>1. /\ UNCHANGED <<program, queueVars, bufferVars, fifo, held, callVars>>
      /\ fifo[q] # <<>> /\ running' = [running EXCEPT ![q] = TRUE] /\ Types /\ Busy
  BY DEF IInv, WorkerRun
<1>2. /\ running' \in [Queue -> BOOLEAN] /\ held' \in [Queue -> OpType \cup {None}]
      /\ \A p \in Queue : running'[p] => fifo[p] # <<>>
  BY <1>1 DEF Types, Busy
<1> QED
  BY <1>1, <1>2, WorkerStands

LEMMA WorkerSetPromiseStep ==
  ASSUME IInv, NEW q \in Queue, WorkerSetPromise(q), UNCHANGED program
  PROVE  IInv'
<1>1. /\ UNCHANGED <<program, queueVars, bufferVars, fifo, running, callVars>>
      /\ held' = [held EXCEPT ![q] = None] /\ Types /\ Busy
  BY DEF IInv, WorkerSetPromise
<1>2. /\ running' \in [Queue -> BOOLEAN] /\ held' \in [Queue -> OpType \cup {None}]
      /\ \A p \in Queue : running'[p] => fifo[p] # <<>>
      /\ \A p \in Queue : held'[p] = held[p] \/ held'[p] = None
  BY <1>1 DEF Types, Busy
<1> QED
  BY <1>1, <1>2, WorkerStands

LEMMA Stuttering ==
  ASSUME IInv, UNCHANGED vars
  PROVE  IInv'
<1>1. /\ UNCHANGED <<program, queueVars, bufferVars, fifo, held, running, callVars>> /\ Types /\ Busy
  BY DEF IInv, vars, workerVars
<1>2. /\ running' \in [Queue -> BOOLEAN] /\ held' \in [Queue -> OpType \cup {None}]
      /\ \A p \in Queue : running'[p] => fifo[p] # <<>>
  BY <1>1 DEF Types, Busy
<1> QED
  BY <1>1, <1>2, WorkerStands

-----------------------------------------------------------------------------
(* The theorems.                                                            *)

LEMMA InitiallyInv == Init => IInv
<1> SUFFICES ASSUME Init PROVE IInv
  OBVIOUS
<1>1. /\ program \in Program /\ queues = <<>> /\ queueRefs = [q \in Queue |-> {}]
      /\ bufferRefs = [b \in Buffer |-> {}]
      /\ memory = [b \in Buffer |-> "none"] /\ home = [b \in Buffer |-> None]
      /\ actions = [b \in Buffer |-> <<>>] /\ fifo = [q \in Queue |-> <<>>]
      /\ held = [q \in Queue |-> None] /\ running = [q \in Queue |-> FALSE]
      /\ todo = [t \in Thread |-> <<>>] /\ owed = [c \in Client |-> [q \in Queue |-> 0]]
  BY DEF Init
<1>2. Types
  BY <1>1 DEF Types
<1>3. Registered /\ Busy /\ Keeps /\ Referenced
  BY <1>1 DEF Registered, Busy, Keeps, Referenced, Thread
<1>4. Uses /\ Freeing /\ FreeOps
  BY <1>1 DEF Uses, Freeing, FreeOps
<1>5. Debts
  BY <1>1 DEF Debts, Thread
<1> QED
  BY <1>2, <1>3, <1>4, <1>5 DEF IInv

LEMMA ClientCallStep ==
  ASSUME IInv, NEW c \in program.threads, ClientCall(c)
  PROVE  IInv'
<1>1. c \in Client /\ program.queues \subseteq Queue /\ UNCHANGED program
  BY ProgramAssumption DEF IInv, Types, ClientCall
<1>2. CASE \E q \in program.queues : MakeQueue(c, q) \/ DropQueue(c, q)
  BY <1>1, <1>2, MakeQueueStep, DropQueueStep
<1>3. CASE \E b \in Buffer : Alloc(c, b) \/ DropBuffer(c, b)
  BY <1>1, <1>3, AllocStep, DropBufferStep
<1>4. CASE \E q \in Queue, b \in Buffer :
             AllocDeferred(c, q, b) \/ Use(c, q, b) \/ KeepAlive(c, q, b) \/ DestructorWaitFor(c, q, b)
  BY <1>1, <1>4, AllocDeferredStep, UseStep, KeepAliveStep, DestructorWaitForStep
<1>5. CASE DeviceWait(c)
  BY <1>1, <1>5, DeviceWaitStep
<1> QED
  BY <1>2, <1>3, <1>4, <1>5 DEF ClientCall

LEMMA ThreadStepStep ==
  ASSUME IInv, NEW t \in Thread, ThreadStep(t)
  PROVE  IInv'
<1>1. UNCHANGED program
  BY DEF ThreadStep
<1>2. CASE LockQueue(t)
  BY <1>1, <1>2, LockQueueStep
<1>3. CASE WaitQueue(t)
  BY <1>1, <1>3, WaitQueueStep
<1>4. CASE MarkQueue(t)
  BY <1>1, <1>4, MarkQueueStep
<1>5. CASE AwaitMarker(t)
  BY <1>1, <1>5, AwaitMarkerStep
<1>6. CASE FreeMemory(t)
  BY <1>1, <1>6, FreeMemoryStep
<1>7. CASE ReleaseQueue(t)
  BY <1>1, <1>7, ReleaseQueueStep
<1>8. CASE EndQueue(t)
  BY <1>1, <1>8, EndQueueStep
<1>9. CASE t \in Client /\ ReturnFromWait(t)
  BY <1>1, <1>9, ReturnFromWaitStep
<1> QED
  BY <1>2, <1>3, <1>4, <1>5, <1>6, <1>7, <1>8, <1>9 DEF ThreadStep

LEMMA WorkerStepStep ==
  ASSUME IInv, NEW q \in Queue, WorkerStep(q)
  PROVE  IInv'
<1>1. UNCHANGED program
  BY DEF WorkerStep
<1>2. CASE WorkerRun(q)
  BY <1>1, <1>2, WorkerRunStep
<1>3. CASE WorkerPop(q)
  <2>1. running[q]
    BY <1>3 DEF WorkerPop
  <2> QED
    BY <1>1, <1>3, <2>1, WorkerPopStep
<1>4. CASE WorkerDropCapture(q)
  BY <1>1, <1>4, WorkerDropCaptureStep
<1>5. CASE WorkerSetPromise(q)
  BY <1>1, <1>5, WorkerSetPromiseStep
<1> QED
  BY <1>2, <1>3, <1>4, <1>5 DEF WorkerStep

(* The inductive invariant: every use of a buffer is protected, a step of a *)
(* destructor in front of freeOp() awaits each use the queue of the buffer  *)
(* does not order, and what Device::wait() owes is still ahead of it.       *)
THEOREM Invariance == Spec => []IInv
<1>1. ASSUME IInv, [Next]_vars PROVE IInv'
  <2>1. CASE \E c \in program.threads : ClientCall(c)
    BY <1>1, <2>1, ClientCallStep
  <2>2. CASE \E t \in Thread : ThreadStep(t)
    BY <1>1, <2>2, ThreadStepStep
  <2>3. CASE \E q \in Queue : WorkerStep(q)
    BY <1>1, <2>3, WorkerStepStep
  <2>4. CASE UNCHANGED vars
    BY <1>1, <2>4, Stuttering
  <2> QED
    BY <1>1, <2>1, <2>2, <2>3, <2>4 DEF Next, Terminated
<1> QED
  BY <1>1, InitiallyInv, PTL DEF Spec

(* No operation of a queue accesses memory that has been freed, whoever     *)
(* drops the last reference of the buffer and in whatever order the         *)
(* destructors and the workers run (ManagedDealloc.hpp:34-39).              *)
THEOREM MemoryOutlivesUses == Spec => []NoUseAfterFree
<1>1. IInv => NoUseAfterFree
  <2> SUFFICES ASSUME IInv, NEW q \in Queue, running[q], Head(fifo[q]).kind = "use"
               PROVE  memory[Head(fifo[q]).buffer] = "live"
    BY DEF NoUseAfterFree
  <2>1. /\ fifo[q] \in Seq(OpType) /\ fifo[q] # <<>>
    BY DEF IInv, Types, Busy
  <2>2. Head(fifo[q]) = fifo[q][1] /\ 1 \in DOMAIN fifo[q] /\ fifo[q][1] \in OpType
    BY <2>1
  <2>3. fifo[q][1].buffer \in Buffer /\ Is(fifo[q][1], "use", fifo[q][1].buffer)
    BY <2>2 DEF OpType, Is
  <2>4. Protected(q, fifo[q][1].buffer, 1)
    BY <2>2, <2>3 DEF IInv, Uses
  <2> QED
    BY <2>2, <2>4 DEF Protected
<1> QED
  BY <1>1, Invariance, PTL

(* When Device::wait() is about to return, what preceded the call is over   *)
(* in every queue somebody still has a handle of (Device.hpp:65-82).        *)
THEOREM DeviceWaitCovers == Spec => []DeviceWaitCoversHeldQueues
<1>1. IInv => DeviceWaitCoversHeldQueues
  <2> SUFFICES ASSUME IInv, NEW c \in Client, At(c, "return"), NEW q \in Queue, queueRefs[q] # {}
               PROVE  owed[c][q] = 0
    BY DEF DeviceWaitCoversHeldQueues
  <2>1. c \in Thread /\ todo[c] # <<>> /\ Head(todo[c]).do = "return"
    BY DEF At, Thread
  <2>2. 1 \in DOMAIN todo[c] /\ todo[c][1].do = "return"
    BY <2>1, HeadOf
  <2>3. \/ owed[c][q] = 0
        \/ \E m \in 1 .. (1 - 1) :
             \/ todo[c][m].queue = q /\ todo[c][m].do = "lock"
             \/ Awaits(todo[c][m], c, q, owed[c][q])
    BY <2>2 DEF IInv, Debts
  <2> QED
    BY <2>3
<1> QED
  BY <1>1, Invariance, PTL

-----------------------------------------------------------------------------
\* Induction over the naturals, for a set: from the library's well-founded order.
LEMMA SetInduction ==
    ASSUME NEW S, 0 \in S, \A n \in Nat : n \in S => n + 1 \in S
    PROVE  Nat \subseteq S
<1> DEFINE T == Nat \ S
           Below == {p \in Nat \X Nat : p[1] < p[2]}
<1> SUFFICES ASSUME T # {} PROVE FALSE
  OBVIOUS
<1>1. IsWellFoundedOn(Below, Nat)
  BY NatLessThanWellFounded DEF OpToRel
<1>2. PICK x \in T : \A y \in T : ~ (<<y, x>> \in Below)
  BY <1>1, WFMin
<1>3. x \in Nat /\ x # 0 /\ x - 1 \in Nat /\ x = (x - 1) + 1
  OBVIOUS
<1>4. <<x - 1, x>> \in Below
  BY <1>3
<1>5. x - 1 \in S
  BY <1>2, <1>3, <1>4
<1> QED
  BY <1>3, <1>5

(***************************************************************************)
(* LaneOps. Whatever the packs hold, the scalars beside them hold the same; *)
(* a lane of a mask is stored in one of two ways, as its type demands.      *)
(***************************************************************************)
Lanes == [1 .. packJob.width -> Packs!Word]

Truth == IF Packs!Blends THEN Ones ELSE 1

\* What the scalars say when these are the packs.
ScalarsOf(p, m, earlier) ==
    [a |-> p["a"], b |-> p["b"], mask |-> [l \in 1 .. packJob.width |-> m[l] # 0], memory |-> earlier]

LanesInv ==
    /\ packJob \in PackJobs
    /\ pack \in [{"a", "b"} -> Lanes]
    /\ mask \in [1 .. packJob.width -> {0, Truth}]
    /\ cells \in Seq(Packs!Word) /\ Len(cells) = Len(packJob.memory)
    /\ scalar = ScalarsOf(pack, mask, cells)
    /\ out.got = out.expected
    /\ ~fault

LEMMA PacksAgree == LanesInv => Packs!PacksAreLanewise
  BY DEF LanesInv, Packs!PacksAreLanewise, ScalarsOf, Packs!IsTrue

\* The steps below speak of constants.
LEMMA Words ==
    /\ Ones \in Nat \ {0} /\ Ones >= 3 /\ 0 \in Packs!Word /\ 1 \in Packs!Word /\ Ones \in Packs!Word
    /\ Truth \in Packs!Word /\ Truth # 0
  BY WordsAssumption DEF Packs!WordsAreBinary, Packs!Word, Truth

LEMMA ScalarIsWord ==
    ASSUME NEW op \in {"+", "-", "*", "=", "min", "neg"}, NEW x \in Packs!Word, NEW y \in Packs!Word
    PROVE  Packs!Scalar(op, x, y) \in Packs!Word
<1>1. PICK w \in Nat : w = Ones + 1 /\ w > 0 /\ Packs!Word = 0 .. w - 1
  BY Words DEF Packs!Word
<1>2. x \in Int /\ y \in Int /\ x * y \in Int
  BY <1>1
<1>3. \A z \in Int : z % w \in 0 .. w - 1
  BY <1>1
<1>4. /\ (x + y) % (Ones + 1) \in Packs!Word /\ (x - y) % (Ones + 1) \in Packs!Word
      /\ (x * y) % (Ones + 1) \in Packs!Word /\ (-x) % (Ones + 1) \in Packs!Word
  <2>1. PICK p \in Int, s \in Int, d \in Int, m \in Int : p = x * y /\ s = x + y /\ d = x - y /\ m = -x
    BY <1>2
  <2>2. p % w \in Packs!Word /\ s % w \in Packs!Word /\ d % w \in Packs!Word /\ m % w \in Packs!Word
    BY <1>1, <1>3
  <2> QED
    BY <1>1, <2>1, <2>2
<1> QED
  BY <1>4 DEF Packs!Scalar

\* Parts of sequences and their concatenation, lane by lane.
LanesOf(n) == [1 .. n -> Packs!Word]

LEMMA SeqIsFunction ==
    ASSUME NEW n \in Nat, NEW s \in Seq(Packs!Word), Len(s) = n
    PROVE  s \in LanesOf(n)
  BY LenProperties DEF LanesOf

IsPart(p, s, from, k) ==
    p \in LanesOf(k) /\ \A i \in 1 .. k : p[i] = s[from + i - 1]

LEMMA PartOf ==
    ASSUME NEW n \in Nat, NEW s \in LanesOf(n),
           NEW from \in Int, NEW to \in Int, NEW k \in Nat, from >= 1, to <= n, k = to - from + 1
    PROVE  IsPart(SubSeq(s, from, to), s, from, k)
<1>1. s \in Seq(Packs!Word) /\ \A i \in from .. to : s[i] \in Packs!Word
  BY DEF LanesOf
<1>2. /\ SubSeq(s, from, to) \in Seq(Packs!Word)
      /\ Len(SubSeq(s, from, to)) = IF from <= to THEN to - from + 1 ELSE 0
      /\ \A i \in 1 .. to - from + 1 : SubSeq(s, from, to)[i] = s[from + i - 1]
  BY <1>1, SubSeqProperties
<1>3. PICK t \in Seq(Packs!Word) : /\ t = SubSeq(s, from, to) /\ Len(t) = IF from <= to THEN to - from + 1 ELSE 0
                          /\ \A i \in 1 .. to - from + 1 : t[i] = s[from + i - 1]
  BY <1>2
<1>4. Len(t) = k
  BY <1>3
<1>5. t \in LanesOf(k)
  BY <1>4, SeqIsFunction
<1> QED
  BY <1>3, <1>5 DEF IsPart

IsJoin(j, s, m, t, k) ==
    j \in LanesOf(k) /\ \A i \in 1 .. k : j[i] = IF i <= m THEN s[i] ELSE t[i - m]

LEMMA JoinOf ==
    ASSUME NEW m \in Nat, NEW n \in Nat, NEW s \in LanesOf(m), NEW t \in LanesOf(n),
           NEW k \in Nat, k = m + n
    PROVE  IsJoin(s \o t, s, m, t, k)
<1>1. s \in Seq(Packs!Word) /\ t \in Seq(Packs!Word) /\ Len(s) = m /\ Len(t) = n
  BY DEF LanesOf
<1>2. /\ s \o t \in Seq(Packs!Word) /\ Len(s \o t) = Len(s) + Len(t)
      /\ \A i \in 1 .. Len(s) + Len(t) : (s \o t)[i] = IF i <= Len(s) THEN s[i] ELSE t[i - Len(s)]
  BY <1>1, ConcatProperties
<1>3. PICK j \in Seq(Packs!Word) : /\ j = s \o t /\ Len(j) = k
                          /\ \A i \in 1 .. k : j[i] = IF i <= m THEN s[i] ELSE t[i - m]
  BY <1>1, <1>2
<1>4. j \in LanesOf(k)
  BY <1>3, SeqIsFunction
<1> QED
  BY <1>3, <1>4 DEF IsJoin

LEMMA Overwritten ==
    ASSUME NEW n \in Nat, NEW w \in Nat, NEW at \in Nat, at + w <= n,
           NEW earlier \in LanesOf(n), NEW lanes \in LanesOf(w)
    PROVE  Packs!Stored(earlier, at, lanes) = SubSeq(earlier, 1, at) \o lanes \o SubSeq(earlier, at + w + 1, n)
<1> DEFINE stored == Packs!Stored(earlier, at, lanes)
<1>1. PICK m \in Nat, k \in Nat, from \in Int, one \in Int, to \in Int :
         /\ m = at + w /\ k = n - m /\ from = m + 1 /\ one = 1 /\ to = n /\ at \in Int
         /\ one >= 1 /\ at <= n /\ at = at - one + 1
         /\ from >= 1 /\ to <= n /\ k = to - from + 1 /\ n = m + k
  OBVIOUS
<1>2. IsPart(SubSeq(earlier, one, at), earlier, one, at)
  BY <1>1, PartOf
<1>3. PICK x \in LanesOf(at) : x = SubSeq(earlier, one, at) /\ \A i \in 1 .. at : x[i] = earlier[one + i - 1]
  BY <1>2 DEF IsPart
<1>4. IsPart(SubSeq(earlier, from, to), earlier, from, k)
  BY <1>1, PartOf
<1>5. PICK z \in LanesOf(k) : z = SubSeq(earlier, from, to) /\ \A i \in 1 .. k : z[i] = earlier[from + i - 1]
  BY <1>4 DEF IsPart
<1>6. IsJoin(x \o lanes, x, at, lanes, m)
  <2>1. m = at + w
    BY <1>1
  <2> QED
    BY <2>1, JoinOf
<1>7. PICK y \in LanesOf(m) : y = x \o lanes /\ \A i \in 1 .. m : y[i] = IF i <= at THEN x[i] ELSE lanes[i - at]
  BY <1>6 DEF IsJoin
<1>8. IsJoin(y \o z, y, m, z, n)
  <2>1. n = m + k
    BY <1>1
  <2> QED
    BY <2>1, JoinOf
<1>9. PICK r \in LanesOf(n) : r = y \o z /\ \A i \in 1 .. n : r[i] = IF i <= m THEN y[i] ELSE z[i - m]
  BY <1>8 DEF IsJoin
<1>10. ASSUME NEW i \in 1 .. n PROVE stored[i] = r[i]
  <2>1. stored[i] = IF i - at \in 1 .. w THEN lanes[i - at] ELSE earlier[i]
    BY DEF LanesOf, Packs!Stored
  <2> HIDE DEF stored
  <2>2. CASE i <= at
    BY <1>1, <1>3, <1>7, <1>9, <2>1, <2>2
  <2>3. CASE i > at /\ i <= m
    <3>1. i - at \in 1 .. w /\ i \in 1 .. m /\ ~(i <= at)
      BY <1>1, <2>3
    <3> QED
      BY <1>7, <1>9, <2>1, <2>3, <3>1
  <2>4. CASE i > m
    <3>1. ~(i - at \in 1 .. w) /\ i - m \in 1 .. k /\ ~(i <= m) /\ from + (i - m) - 1 = i
      BY <1>1, <2>4
    <3> QED
      BY <1>5, <1>9, <2>1, <3>1
  <2> QED
    BY <1>1, <2>2, <2>3, <2>4
<1>11. DOMAIN stored = 1 .. n /\ stored = [i \in 1 .. n |-> stored[i]]
  BY DEF LanesOf, Packs!Stored
<1> HIDE DEF stored
<1>12. stored = r
  BY <1>10, <1>11 DEF LanesOf
<1>13. r = SubSeq(earlier, 1, at) \o lanes \o SubSeq(earlier, at + w + 1, n)
  BY <1>1, <1>3, <1>5, <1>7, <1>9
<1> QED
  BY <1>12, <1>13 DEF stored

LEMMA LaneProgramsAreLegal ==
    ASSUME LanesInv
    PROVE  /\ packJob.width \in Nat \ {0} /\ packJob.width <= Len(packJob.memory)
           /\ packJob.memory \in Seq(Packs!Word) /\ packJob.align \in Nat \ {0}
           /\ packJob.wordMask \in BOOLEAN /\ packJob.sycl \in BOOLEAN
           /\ (packJob.storage = "vec" => ~packJob.wordMask)
<1>1. Packs!Legal(packJob)
  BY PackJobsAssumption DEF LanesInv
<1>2. Len(packJob.memory) \in Nat
  BY <1>1 DEF Packs!Legal
<1> QED
  BY <1>1, <1>2 DEF Packs!Legal

LEMMA LanesBegin == Packs!Init => LanesInv
<1> SUFFICES ASSUME Packs!Init PROVE LanesInv
  OBVIOUS
<1>1. packJob.memory \in Seq(Packs!Word)
  BY PackJobsAssumption DEF Packs!Init, Packs!Legal
<1>2. pack \in [{"a", "b"} -> Lanes] /\ mask \in [1 .. packJob.width -> {0, Truth}]
  BY Words DEF Packs!Init, Lanes
<1>3. scalar = ScalarsOf(pack, mask, cells)
  BY DEF Packs!Init, ScalarsOf
<1> QED
  BY <1>1, <1>2, <1>3 DEF Packs!Init, LanesInv

\* A step that changes one of the packs, and the scalars of its lanes alike.
LEMMA PackChanges ==
    ASSUME LanesInv, packJob' = packJob, NEW r \in {"a", "b"}, NEW lanes \in Lanes,
           pack' = [pack EXCEPT ![r] = lanes], scalar' = [scalar EXCEPT ![r] = lanes],
           mask' = mask, cells' = cells, out'.got = out'.expected, ~fault'
    PROVE  LanesInv'
<1>1. pack' \in [{"a", "b"} -> Lanes]
  BY DEF LanesInv
<1>2. scalar' = ScalarsOf(pack', mask, cells)
  <2>1. CASE r = "a"
    BY <2>1 DEF LanesInv, ScalarsOf
  <2>2. CASE r = "b"
    BY <2>2 DEF LanesInv, ScalarsOf
  <2> QED
    BY <2>1, <2>2
<1> QED
  BY <1>1, <1>2 DEF LanesInv, Lanes, Truth, ScalarsOf, Packs!Blends

LEMMA MaskChanges ==
    ASSUME LanesInv, packJob' = packJob, NEW m \in [1 .. packJob.width -> {0, Truth}],
           mask' = m, scalar' = [scalar EXCEPT !.mask = [l \in 1 .. packJob.width |-> m[l] # 0]],
           pack' = pack, cells' = cells, out' = out, fault' = fault
    PROVE  LanesInv'
<1>1. scalar' = ScalarsOf(pack, m, cells)
  BY DEF LanesInv, ScalarsOf
<1> QED
  BY <1>1 DEF LanesInv, Lanes, Truth, ScalarsOf, Packs!Blends

\* An aligned access begins at a multiple of the width.
LEMMA AccessesAreAligned ==
    ASSUME LanesInv, NEW moved \in BOOLEAN, NEW at \in Packs!Positions(moved)
    PROVE  ~Packs!Faults(at, moved)
<1>1. PICK w \in Nat \ {0} : w = packJob.width
  BY LaneProgramsAreLegal
<1>2. at \in Nat /\ (moved \/ at % w = 0) /\ at % 1 = 0
  BY <1>1 DEF Packs!Positions
<1>3. CASE Packs!OptimalAlignment(w) = 1
  BY <1>1, <1>2, <1>3 DEF Packs!Faults
<1>4. CASE Packs!OptimalAlignment(w) # 1
  <2>1. Packs!OptimalAlignment(w) = w /\ w > 1
    BY <1>4 DEF Packs!OptimalAlignment
  <2>2. 1 % w = 1
    BY <2>1
  <2> QED
    BY <1>1, <1>2, <2>1, <2>2 DEF Packs!Faults, Packs!AlignedAccess, Packs!PtrAlignment
<1> QED
  BY <1>3, <1>4

LEMMA LoadKeeps ==
    ASSUME LanesInv, NEW r \in {"a", "b"}, Packs!Load(r)
    PROVE  LanesInv'
<1>1. PICK moved \in BOOLEAN : \E at \in Packs!Positions(moved) :
         /\ pack' = [pack EXCEPT ![r] = Packs!LoadAsSimd(at)]
         /\ scalar' = [scalar EXCEPT ![r] = SubSeq(scalar.memory, at + 1, at + packJob.width)]
         /\ fault' = (fault \/ Packs!Faults(at, moved))
  BY DEF Packs!Load
<1>2. PICK at \in Packs!Positions(moved) :
         /\ pack' = [pack EXCEPT ![r] = Packs!LoadAsSimd(at)]
         /\ scalar' = [scalar EXCEPT ![r] = SubSeq(scalar.memory, at + 1, at + packJob.width)]
         /\ fault' = (fault \/ Packs!Faults(at, moved))
  BY <1>1
<1>3. PICK w \in Nat \ {0} : w = packJob.width
  BY LaneProgramsAreLegal
<1>4. at \in Nat /\ at + w <= Len(cells) /\ Len(cells) \in Nat
  BY <1>3 DEF Packs!Positions, LanesInv
<1>5. SubSeq(cells, at + 1, at + w) = Packs!LoadAsSimd(at)
  BY <1>3, <1>4 DEF Packs!LoadAsSimd
<1>6. Packs!LoadAsSimd(at) \in Lanes
  <2>1. \A l \in 1 .. w : cells[at + l] \in Packs!Word
    BY <1>4 DEF LanesInv
  <2> QED
    BY <1>3, <2>1 DEF Packs!LoadAsSimd, Lanes
<1>7. ~Packs!Faults(at, moved)
  BY AccessesAreAligned
<1>8. scalar.memory = cells
  BY DEF LanesInv, ScalarsOf
<1> QED
  BY <1>2, <1>3, <1>5, <1>6, <1>7, <1>8, PackChanges DEF Packs!Load, Packs!Operation, LanesInv

LEMMA StoreKeeps ==
    ASSUME LanesInv, Packs!Store
    PROVE  LanesInv'
<1>1. PICK moved \in BOOLEAN : \E at \in Packs!Positions(moved) :
         /\ cells' = Packs!Stored(cells, at, pack.a)
         /\ scalar' = [scalar EXCEPT !.memory =
                SubSeq(@, 1, at) \o scalar.a \o SubSeq(@, at + packJob.width + 1, Len(@))]
         /\ fault' = (fault \/ Packs!Faults(at, moved))
  BY DEF Packs!Store
<1>2. PICK at \in Packs!Positions(moved) :
         /\ cells' = Packs!Stored(cells, at, pack.a)
         /\ scalar' = [scalar EXCEPT !.memory =
                SubSeq(@, 1, at) \o scalar.a \o SubSeq(@, at + packJob.width + 1, Len(@))]
         /\ fault' = (fault \/ Packs!Faults(at, moved))
  BY <1>1
<1>3. PICK w \in Nat \ {0}, n \in Nat : w = packJob.width /\ n = Len(cells)
  BY LaneProgramsAreLegal DEF LanesInv
<1>4. PICK earlier \in LanesOf(n), lanes \in LanesOf(w) : earlier = cells /\ lanes = pack["a"]
  BY <1>3 DEF LanesInv, Lanes, LanesOf
<1>5. at \in Nat /\ at + w <= n
  BY <1>3 DEF Packs!Positions, LanesInv
<1> DEFINE stored == Packs!Stored(earlier, at, lanes)
<1>6. stored \in [1 .. n -> Packs!Word]
  BY <1>3, <1>4, <1>5 DEF Packs!Stored, LanesOf
<1>7. stored \in Seq(Packs!Word) /\ Len(stored) = n
  <2> HIDE DEF stored
  <2> QED
    BY <1>6
<1>8. stored = SubSeq(earlier, 1, at) \o lanes \o SubSeq(earlier, at + w + 1, n)
  BY <1>5, Overwritten
<1>9. cells' = stored /\ scalar' = ScalarsOf(pack, mask, stored)
  BY <1>2, <1>3, <1>4, <1>8 DEF LanesInv, ScalarsOf
<1>10. ~fault'
  BY <1>2, AccessesAreAligned DEF LanesInv
<1> HIDE DEF stored
<1> QED
  BY <1>3, <1>7, <1>9, <1>10 DEF Packs!Store, Packs!Operation, LanesInv, Lanes, Truth, ScalarsOf, Packs!Blends

LEMMA OperateKeeps ==
    ASSUME LanesInv, NEW op \in {"+", "-", "*", "=", "min", "neg"}, Packs!Operate(op)
    PROVE  LanesInv'
<1>1. PICK x \in Lanes, y \in Lanes : x = pack["a"] /\ y = pack["b"]
  BY DEF LanesInv
<1>2. Packs!Operated(op, x, y) \in Lanes
  BY ScalarIsWord DEF Packs!Operated, Lanes
<1>3. scalar.a = x /\ scalar.b = y
  BY <1>1 DEF LanesInv, ScalarsOf
<1>4. pack' = [pack EXCEPT !["a"] = Packs!Operated(op, x, y)] /\ scalar' = [scalar EXCEPT !["a"] = Packs!Operated(op, x, y)]
  BY <1>1, <1>3 DEF Packs!Operate
<1> QED
  BY <1>2, <1>4, PackChanges DEF Packs!Operate, Packs!Operation, LanesInv

LEMMA AssignValueKeeps ==
    ASSUME LanesInv, NEW op \in {"+", "="}, NEW value \in Packs!Word, Packs!AssignValue(op, value)
    PROVE  LanesInv'
<1>1. PICK x \in Lanes : x = pack["a"] /\ scalar.a = x
  BY DEF LanesInv, ScalarsOf
<1> DEFINE z == [l \in 1 .. packJob.width |-> Packs!Scalar(op, x[l], value)]
<1>2. z \in Lanes
  BY ScalarIsWord DEF Lanes
<1>3. pack' = [pack EXCEPT !["a"] = z] /\ scalar' = [scalar EXCEPT !["a"] = z]
  <2>1. DOMAIN x = 1 .. packJob.width
    BY DEF Lanes
  <2> QED
    BY <1>1, <2>1 DEF Packs!AssignValue, Packs!Operated
<1> QED
  BY <1>2, <1>3, PackChanges DEF Packs!AssignValue, Packs!Operation, LanesInv

LEMMA NamesDiffer ==
    /\ DOMAIN Packs!Names = 1 .. 4
    /\ \A n \in 1 .. 4 : Packs!Names[n] # "none" /\ \A k \in 1 .. 4 : Packs!Names[k] = Packs!Names[n] => k = n
<1>1. DOMAIN Packs!Names = 1 .. 4
  BY DEF Packs!Names
<1>2. ASSUME NEW n \in 1 .. 4, NEW k \in 1 .. 4, Packs!Names[k] = Packs!Names[n] PROVE k = n
  <2>1. n \in {1, 2, 3, 4} /\ k \in {1, 2, 3, 4}
    OBVIOUS
  <2> QED
    BY <1>2, <2>1 DEF Packs!Names
<1>3. ASSUME NEW n \in 1 .. 4 PROVE Packs!Names[n] # "none"
  <2>1. n \in {1, 2, 3, 4}
    OBVIOUS
  <2> QED
    BY <2>1 DEF Packs!Names
<1> QED
  BY <1>1, <1>2, <1>3

LEMMA SetNamedLaneKeeps ==
    ASSUME LanesInv, NEW n \in DOMAIN Packs!Names, NEW value \in Packs!Word,
           Packs!SetNamedLane(Packs!Names[n], value)
    PROVE  LanesInv'
<1>1. PICK w \in Nat \ {0} : w = packJob.width
  BY LaneProgramsAreLegal
<1>2. PICK x \in [1 .. w -> Packs!Word] : x = pack["a"] /\ scalar.a = x
  BY <1>1 DEF LanesInv, ScalarsOf, Lanes
<1>3. PICK name : name = Packs!Names[n]
  OBVIOUS
<1>4. n \in 1 .. 4 /\ \A k \in 1 .. 4 : Packs!Names[k] = name => k = n
  BY <1>3, NamesDiffer
<1>5. (CHOOSE k \in 1 .. 4 : Packs!Names[k] = name) = n
  BY <1>3, <1>4
<1> DEFINE names == [k \in 1 .. w |-> IF k \in 1 .. 4 THEN Packs!Names[k] ELSE "none"]
           order == IF Packs!IsSimd THEN names ELSE Packs!Reverse(names)
           set   == [l \in 1 .. w |-> IF order[l] = name THEN value ELSE x[l]]
<1>6. PICK lane \in 1 .. w : /\ lane = Packs!LaneOf(name)
                             /\ lane = IF Packs!IsSimd THEN n ELSE w + 1 - n
  BY <1>1, <1>3, <1>4, <1>5 DEF Packs!SetNamedLane, Packs!LaneOf, Packs!SimdLaneOf, Packs!VecLaneOf
<1>7. \A k \in 1 .. w : names[k] = name <=> k = n
  BY <1>3, <1>4, NamesDiffer
<1>8. \A l \in 1 .. w : order[l] = name <=> l = lane
  <2> DEFINE ordered == order
  <2>1. Len(names) = w
    BY <1>1
  <2>2. \A l \in 1 .. w : order[l] = IF Packs!IsSimd THEN names[l] ELSE names[w - l + 1]
    BY <2>1 DEF Packs!Reverse
  <2> HIDE DEF names, order
  <2> QED
    BY <1>4, <1>6, <1>7, <2>2
<1>9. [x EXCEPT ![lane] = value] = set
  <2> HIDE DEF order
  <2> QED
    BY <1>2, <1>6, <1>8
<1>10. set \in Lanes
  <2> HIDE DEF order
  <2> QED
    BY <1>1, <1>2 DEF Lanes
<1>11. pack' = [pack EXCEPT !["a"] = set] /\ scalar' = [scalar EXCEPT !["a"] = set]
  <2>1. pack' = [pack EXCEPT !["a"] = [x EXCEPT ![lane] = value]]
    BY <1>2, <1>3, <1>6 DEF Packs!SetNamedLane
  <2>2. scalar' = [scalar EXCEPT !["a"] = set]
    <3>1. DOMAIN x = 1 .. packJob.width
      BY <1>1, <1>2
    <3> QED
      BY <1>1, <1>2, <1>3, <3>1, NamesDiffer DEF Packs!SetNamedLane
  <2> QED
    BY <1>9, <2>1, <2>2
<1> HIDE DEF set
<1> QED
  BY <1>10, <1>11, PackChanges DEF Packs!SetNamedLane, Packs!Operation, LanesInv


\* References assigned one after the other: no two of them to the same component.
Selects(sel, k, w, pos) ==
    sel \in [1 .. k -> 1 .. w] /\ Packs!IsInjective(sel) /\ \A i \in 1 .. k : pos[sel[i]] = i

AssignedTo(op, w, k, x, sel, v, pos) ==
    [l \in 1 .. w |-> IF \E i \in 1 .. k : sel[i] = l THEN Packs!Scalar(op, x[l], v[pos[l]]) ELSE x[l]]

LEMMA AssignedOnce ==
    ASSUME NEW op, NEW w \in Nat, NEW k \in Nat, NEW x \in LanesOf(w), NEW sel, NEW v, NEW pos,
           Selects(sel, k, w, pos)
    PROVE  Packs!AssignedRefs(op, x, sel, v) = AssignedTo(op, w, k, x, sel, v, pos)
<1> DEFINE Body(f) == [i \in 0 .. Len(sel) |->
                          IF i = 0 THEN x ELSE [f[i - 1] EXCEPT ![sel[i]] = Packs!Scalar(op, @, v[i])]]
           after == CHOOSE f : f = Body(f)
           Part(i) == [l \in 1 .. w |-> IF \E j \in 1 .. i : sel[j] = l
                                        THEN Packs!Scalar(op, x[l], v[pos[l]]) ELSE x[l]]
           parts == [i \in 0 .. k |-> Part(i)]
<1> USE DEF LanesOf, Selects
<1>1. Len(sel) = k
  OBVIOUS
<1>2. Packs!AssignedRefs(op, x, sel, v) = after[Len(sel)]
  BY DEF Packs!AssignedRefs
<1>3. Part(0) = x
  OBVIOUS
<1>4. ASSUME NEW i \in 1 .. k
      PROVE  Part(i) = [Part(i - 1) EXCEPT ![sel[i]] = Packs!Scalar(op, @, v[i])]
  <2>1. /\ i \in Nat /\ i - 1 \in Nat /\ sel[i] \in 1 .. w /\ pos[sel[i]] = i
        /\ \A j \in 1 .. i : j \in 1 .. k /\ (j = i \/ j \in 1 .. i - 1)
        /\ \A j \in 1 .. i - 1 : j \in 1 .. i /\ j # i
    OBVIOUS
  <2>2. ~ \E j \in 1 .. i - 1 : sel[j] = sel[i]
    BY <2>1 DEF Packs!IsInjective
  <2>3. Part(i - 1)[sel[i]] = x[sel[i]]
    BY <2>1, <2>2
  <2>4. ASSUME NEW l \in 1 .. w
        PROVE  Part(i)[l] = IF l = sel[i] THEN Packs!Scalar(op, Part(i - 1)[l], v[i]) ELSE Part(i - 1)[l]
    <3>1. CASE l = sel[i]
      BY <2>1, <2>3, <3>1
    <3>2. CASE l # sel[i]
      <4>1. (\E j \in 1 .. i : sel[j] = l) <=> (\E j \in 1 .. i - 1 : sel[j] = l)
        BY <2>1, <3>2
      <4> QED
        BY <4>1, <3>2
    <3> QED
      BY <3>1, <3>2
  <2>5. DOMAIN Part(i) = 1 .. w /\ DOMAIN Part(i - 1) = 1 .. w /\ Part(i) = [l \in 1 .. w |-> Part(i)[l]]
    OBVIOUS
  <2> HIDE DEF Part
  <2> QED
    BY <2>4, <2>5
<1>5. parts = Body(parts)
  <2>1. \A i \in 0 .. k : i = 0 \/ (i \in 1 .. k /\ i - 1 \in 0 .. k)
    OBVIOUS
  <2>2. ASSUME NEW i \in 0 .. k PROVE parts[i] = Body(parts)[i]
    <3> HIDE DEF Part
    <3> QED
      BY <1>1, <1>3, <1>4, <2>1
  <2>3. DOMAIN parts = 0 .. k /\ parts = [i \in 0 .. k |-> parts[i]]
    OBVIOUS
  <2>4. DOMAIN Body(parts) = 0 .. k /\ Body(parts) = [i \in 0 .. k |-> Body(parts)[i]]
    BY <1>1
  <2> HIDE DEF parts, Body
  <2> QED
    BY <2>2, <2>3, <2>4
<1>6. after = Body(after)
  <2> HIDE DEF parts, Body
  <2> QED
    BY <1>5
<1>7. after[0] = x /\ \A i \in 1 .. k : after[i] = [after[i - 1] EXCEPT ![sel[i]] = Packs!Scalar(op, @, v[i])]
  <2>1. 0 \in 0 .. Len(sel) /\ \A i \in 1 .. k : i \in 0 .. Len(sel) /\ i # 0
    BY <1>1
  <2> HIDE DEF after
  <2>2. after[0] = Body(after)[0] /\ \A i \in 1 .. k : after[i] = Body(after)[i]
    <3> HIDE DEF Body
    <3> QED
      BY <1>6
  <2>3. ASSUME NEW i \in 1 .. k
        PROVE  Body(after)[i] = [after[i - 1] EXCEPT ![sel[i]] = Packs!Scalar(op, @, v[i])]
    BY <2>1
  <2>4. Body(after)[0] = x
    BY <2>1
  <2> HIDE DEF Body
  <2> QED
    BY <2>2, <2>3, <2>4
<1> DEFINE T == {i \in Nat : i <= k => after[i] = Part(i)}
<1>8. 0 \in T
  BY <1>3, <1>7
<1>9. ASSUME NEW i \in Nat, i \in T PROVE i + 1 \in T
  <2>1. CASE i + 1 <= k
    <3>1. i + 1 \in 1 .. k /\ (i + 1) - 1 = i /\ after[i] = Part(i)
      BY <1>9, <2>1
    <3>2. after[i + 1] = [after[i] EXCEPT ![sel[i + 1]] = Packs!Scalar(op, @, v[i + 1])]
      BY <1>7, <3>1
    <3>3. Part(i + 1) = [Part((i + 1) - 1) EXCEPT ![sel[i + 1]] = Packs!Scalar(op, @, v[i + 1])]
      BY <1>4, <3>1
    <3>4. Part((i + 1) - 1) = Part(i)
      BY <3>1
    <3> HIDE DEF after, Part
    <3> QED
      BY <3>1, <3>2, <3>3, <3>4
  <2>2. CASE ~(i + 1 <= k)
    BY <2>2
  <2> QED
    BY <2>1, <2>2
<1>10. k \in T
  <2> HIDE DEF T
  <2> QED
    BY <1>8, <1>9, SetInduction
<1>11. after[k] = Part(k)
  <2> HIDE DEF after, Part
  <2> QED
    BY <1>10
<1> QED
  BY <1>1, <1>2, <1>11 DEF AssignedTo


LEMMA AssignSelectedKeeps ==
    ASSUME LanesInv, NEW op \in {"+", "="}, Packs!AssignSelected(op)
    PROVE  LanesInv'
<1> DEFINE Assigned(sel, r) ==
        /\ pack' = [pack EXCEPT !.a = Packs!AssignedRefs(op, @, sel, Packs!Swizzle(pack[r], Packs!Reverse(sel)))]
        /\ scalar' = [scalar EXCEPT !.a =
                [l \in DOMAIN @ |-> IF \E i \in DOMAIN sel : sel[i] = l
                                    THEN LET i == CHOOSE i \in DOMAIN sel : sel[i] = l
                                         IN  Packs!Scalar(op, @[l], scalar[r][sel[Len(sel) + 1 - i]])
                                    ELSE @[l]]]
<1>1. \E sel \in {s \in Packs!Selections : Packs!IsInjective(s)}, r \in {"a", "b"} : Assigned(sel, r)
  BY DEF Packs!AssignSelected
<1>2. PICK sel \in {s \in Packs!Selections : Packs!IsInjective(s)}, r \in {"a", "b"} : Assigned(sel, r)
  <2> HIDE DEF Assigned
  <2> QED
    BY <1>1
<1>3. PICK w \in Nat \ {0} : w = packJob.width
  BY LaneProgramsAreLegal
<1>4. PICK k \in Nat : sel \in [1 .. k -> 1 .. w]
  BY <1>3, SelectionsAssumption DEF Packs!Selections
<1>5. PICK x \in [1 .. w -> Packs!Word] : x = pack["a"] /\ scalar.a = x
  BY <1>3 DEF LanesInv, ScalarsOf, Lanes
<1>6. PICK y \in [1 .. w -> Packs!Word] : y = pack[r] /\ scalar[r] = y
  <2>1. pack[r] \in [1 .. w -> Packs!Word] /\ scalar[r] = pack[r]
    BY <1>3 DEF LanesInv, ScalarsOf, Lanes
  <2> QED
    BY <2>1
<1> DEFINE pos == [l \in 1 .. w |-> CHOOSE i \in DOMAIN sel : sel[i] = l]
           v   == Packs!Swizzle(y, Packs!Reverse(sel))
           z   == [l \in 1 .. w |-> IF \E i \in 1 .. k : sel[i] = l THEN Packs!Scalar(op, x[l], v[pos[l]]) ELSE x[l]]
<1>7. Packs!IsInjective(sel) /\ DOMAIN sel = 1 .. k /\ Len(sel) = k
  BY <1>4
<1>8. ASSUME NEW l \in 1 .. w, \E i \in 1 .. k : sel[i] = l
      PROVE  pos[l] \in 1 .. k /\ sel[pos[l]] = l
  <2>1. (CHOOSE i \in DOMAIN sel : sel[i] = l) \in 1 .. k /\ sel[CHOOSE i \in DOMAIN sel : sel[i] = l] = l
    BY <1>7, <1>8
  <2> QED
    BY <2>1
<1> HIDE DEF pos
<1>9. \A i \in 1 .. k : pos[sel[i]] = i
  BY <1>4, <1>7, <1>8 DEF Packs!IsInjective
<1>10. \A i \in 1 .. k : v[i] = y[sel[k + 1 - i]] /\ v[i] \in Packs!Word
  <2>1. \A i \in 1 .. k : k - i + 1 \in 1 .. k /\ k - i + 1 = k + 1 - i
    OBVIOUS
  <2> QED
    BY <1>4, <1>7, <2>1 DEF Packs!Swizzle, Packs!Reverse
<1>11. Packs!AssignedRefs(op, x, sel, v) = z
  <2>1. x \in LanesOf(w) /\ Selects(sel, k, w, pos)
    BY <1>4, <1>7, <1>9 DEF LanesOf, Selects
  <2>2. PICK u : u = v
    OBVIOUS
  <2>3. AssignedTo(op, w, k, x, sel, u, pos) = z
    BY <2>2 DEF AssignedTo
  <2> HIDE DEF v, z
  <2>4. Packs!AssignedRefs(op, x, sel, u) = AssignedTo(op, w, k, x, sel, u, pos)
    BY <2>1, AssignedOnce
  <2> QED
    BY <2>2, <2>3, <2>4
<1>12. z \in Lanes
  <2> HIDE DEF v
  <2>1. \A l \in 1 .. w : (\E i \in 1 .. k : sel[i] = l) => Packs!Scalar(op, x[l], v[pos[l]]) \in Packs!Word
    BY <1>8, <1>10, ScalarIsWord
  <2> QED
    BY <1>3, <2>1 DEF Lanes
<1> DEFINE assigned == [l \in DOMAIN x |-> IF \E i \in DOMAIN sel : sel[i] = l
                                           THEN LET i == CHOOSE i \in DOMAIN sel : sel[i] = l
                                                IN  Packs!Scalar(op, x[l], y[sel[Len(sel) + 1 - i]])
                                           ELSE x[l]]
<1>13. assigned = z
  <2>1. ASSUME NEW l \in 1 .. w, \E i \in 1 .. k : sel[i] = l
        PROVE  y[sel[Len(sel) + 1 - (CHOOSE i \in DOMAIN sel : sel[i] = l)]] = v[pos[l]]
    <3>1. (CHOOSE i \in DOMAIN sel : sel[i] = l) = pos[l]
      BY DEF pos
    <3> HIDE DEF v
    <3> QED
      BY <1>7, <1>8, <1>10, <2>1, <3>1
  <2> HIDE DEF v
  <2> QED
    BY <1>7, <2>1
<1>14. pack' = [pack EXCEPT !["a"] = z] /\ scalar' = [scalar EXCEPT !["a"] = z]
  <2>1. pack' = [pack EXCEPT !["a"] = Packs!AssignedRefs(op, x, sel, v)]
    BY <1>2, <1>5, <1>6
  <2>2. scalar' = [scalar EXCEPT !["a"] = assigned]
    BY <1>2, <1>5, <1>6
  <2> HIDE DEF z, assigned
  <2> QED
    BY <1>11, <1>13, <2>1, <2>2
<1> HIDE DEF z, Assigned
<1> QED
  BY <1>12, <1>14, PackChanges DEF Packs!AssignSelected, Packs!Operation, LanesInv

\* The words that a mask is made of are again those of truth values.
LEMMA CastIsTruth ==
    \A c \in BOOLEAN : Packs!ValueMaskCast(c) = (IF c THEN Truth ELSE 0) /\ (Packs!ValueMaskCast(c) # 0 <=> c)
  BY Words DEF Packs!ValueMaskCast, Truth

LEMMA ComparedIsBoolean ==
    ASSUME NEW op \in {"<", ">=", "=="}, NEW x \in Packs!Word, NEW y \in Packs!Word
    PROVE  Packs!Compared(op, x, y) \in BOOLEAN /\ (x < y) \in BOOLEAN
<1>1. x \in Int /\ y \in Int
  BY Words DEF Packs!Word
<1>2. (x < y) \in BOOLEAN /\ (x >= y) \in BOOLEAN /\ (x = y) \in BOOLEAN
  BY <1>1
<1> QED
  BY <1>2 DEF Packs!Compared

LEMMA CompareKeeps ==
    ASSUME LanesInv, NEW op \in {"<", ">=", "=="}, Packs!Compare(op)
    PROVE  LanesInv'
<1>1. PICK x \in Lanes, y \in Lanes : x = pack["a"] /\ y = pack["b"] /\ scalar.a = x /\ scalar.b = y
  BY DEF LanesInv, ScalarsOf
<1> DEFINE c == [l \in 1 .. packJob.width |-> Packs!Compared(op, x[l], y[l])]
           m == [l \in 1 .. packJob.width |-> Packs!ValueMaskCast(c[l])]
<1>2. DOMAIN x = 1 .. packJob.width
  BY DEF Lanes
<1>3. c \in [1 .. packJob.width -> BOOLEAN]
  BY ComparedIsBoolean DEF Lanes
<1>4. mask' = m /\ scalar' = [scalar EXCEPT !.mask = c]
  BY <1>1, <1>2 DEF Packs!Compare, Packs!CompareMask, Packs!Comparison
<1> HIDE DEF c
<1>5. m \in [1 .. packJob.width -> {0, Truth}] /\ c = [l \in 1 .. packJob.width |-> m[l] # 0]
  BY <1>3, CastIsTruth
<1> HIDE DEF m
<1> QED
  BY <1>4, <1>5, MaskChanges DEF Packs!Compare, Packs!Operation

LEMMA CombineKeeps ==
    ASSUME LanesInv, NEW op \in {"&&", "||", "!="}, Packs!Combine(op)
    PROVE  LanesInv'
<1>1. PICK x \in Lanes, y \in Lanes : x = pack["a"] /\ y = pack["b"] /\ scalar.a = x /\ scalar.b = y
  BY DEF LanesInv, ScalarsOf
<1>2. DOMAIN x = 1 .. packJob.width /\ DOMAIN mask = 1 .. packJob.width
  BY DEF Lanes, LanesInv
<1> DEFINE less == [l \in 1 .. packJob.width |-> x[l] < y[l]]
           c == [l \in 1 .. packJob.width |-> Packs!Combined(op, mask[l] # 0, less[l])]
           m == [l \in 1 .. packJob.width |-> Packs!ValueMaskCast(c[l])]
<1>3. less \in [1 .. packJob.width -> BOOLEAN] /\ c \in [1 .. packJob.width -> BOOLEAN]
  <2>1. less \in [1 .. packJob.width -> BOOLEAN]
    BY ComparedIsBoolean DEF Lanes
  <2>2. ASSUME NEW l \in 1 .. packJob.width PROVE c[l] \in BOOLEAN
    <3>1. less[l] \in BOOLEAN /\ (mask[l] # 0) \in BOOLEAN
      BY <2>1
    <3> HIDE DEF less
    <3>2. \A p \in BOOLEAN, q \in BOOLEAN : Packs!Combined(op, p, q) \in BOOLEAN
      BY DEF Packs!Combined
    <3> QED
      BY <3>1, <3>2
  <2>3. c = [l \in 1 .. packJob.width |-> c[l]]
    OBVIOUS
  <2> HIDE DEF c
  <2> QED
    BY <2>1, <2>2, <2>3
<1>4. scalar' = [scalar EXCEPT !.mask = c]
  BY <1>1, <1>2 DEF Packs!Combine, LanesInv, ScalarsOf
<1>5. mask' = m
  <2> DEFINE cmp == Packs!CompareMask("<", x, y)
  <2>1. mask' = Packs!CombineMask(op, mask, cmp)
    BY <1>1 DEF Packs!Combine
  <2>2. ASSUME NEW l \in 1 .. packJob.width
        PROVE  (IF op = "!=" THEN mask[l] # cmp[l] ELSE Packs!Combined(op, Packs!IsTrue(mask[l]), Packs!IsTrue(cmp[l]))) = c[l]
    <3>1. cmp[l] = Packs!ValueMaskCast(less[l]) /\ less[l] \in BOOLEAN /\ mask[l] \in {0, Truth}
      BY <1>2, <1>3 DEF Packs!CompareMask, Packs!Compared, LanesInv
    <3>2. cmp[l] = (IF less[l] THEN Truth ELSE 0) /\ (cmp[l] # 0 <=> less[l]) /\ Truth # 0
      BY <3>1, CastIsTruth, Words
    <3> HIDE DEF cmp, less
    <3> QED
      BY <3>1, <3>2 DEF Packs!Combined, Packs!IsTrue
  <2> HIDE DEF cmp, c
  <2> QED
    BY <1>2, <2>1, <2>2 DEF Packs!CombineMask
<1> HIDE DEF c
<1>6. m \in [1 .. packJob.width -> {0, Truth}] /\ c = [l \in 1 .. packJob.width |-> m[l] # 0]
  BY <1>3, CastIsTruth
<1> HIDE DEF m
<1> QED
  BY <1>4, <1>5, <1>6, MaskChanges DEF Packs!Combine, Packs!Operation


LEMMA MakeMaskKeeps ==
    ASSUME LanesInv, Packs!MakeMask
    PROVE  LanesInv'
<1>1. PICK c \in [1 .. packJob.width -> BOOLEAN] :
         mask' = Packs!MaskOf(c) /\ scalar' = [scalar EXCEPT !.mask = c]
  BY DEF Packs!MakeMask
<1> DEFINE m == [l \in 1 .. packJob.width |-> Packs!ValueMaskCast(c[l])]
<1>2. mask' = m
  BY <1>1 DEF Packs!MaskOf
<1>3. m \in [1 .. packJob.width -> {0, Truth}] /\ c = [l \in 1 .. packJob.width |-> m[l] # 0]
  BY CastIsTruth
<1> HIDE DEF m
<1> QED
  BY <1>1, <1>2, <1>3, MaskChanges DEF Packs!MakeMask, Packs!Operation

LEMMA AssignedRefIsTruth ==
    ASSUME NEW op \in {"=", "|=", "&=", "^="}, NEW m \in {0, Truth}, NEW c \in BOOLEAN
    PROVE  LET u == Packs!AssignedRef(op, m, Packs!ValueMaskCast(c))
               d == CASE op = "="  -> c [] op = "|=" -> (m # 0) \/ c
                      [] op = "&=" -> (m # 0) /\ c [] op = "^=" -> (m # 0) # c
           IN  u \in {0, Truth} /\ (u # 0) = d
<1>1. PICK v \in {0, Truth} : v = Packs!ValueMaskCast(c) /\ (v # 0 <=> c)
  BY CastIsTruth
<1>2. Truth # 0 /\ m \in Packs!Word /\ v \in Packs!Word
  BY Words
<1>3. /\ Packs!WordsAreBinary
      /\ OrBits(0, m) = m /\ OrBits(m, 0) = m /\ OrBits(m, m) = m /\ OrBits(0, v) = v /\ OrBits(v, 0) = v
      /\ AndBits(0, m) = 0 /\ AndBits(m, 0) = 0 /\ AndBits(m, m) = m /\ AndBits(0, v) = 0 /\ AndBits(v, 0) = 0
      /\ XorBits(0, m) = m /\ XorBits(m, 0) = m /\ XorBits(m, m) = 0 /\ XorBits(0, v) = v /\ XorBits(v, 0) = v
  BY <1>2, WordsAssumption DEF Packs!WordsAreBinary
<1>4. CASE m = v
  BY <1>1, <1>2, <1>3, <1>4 DEF Packs!AssignedRef
<1>5. CASE m # v
  BY <1>1, <1>2, <1>3, <1>5 DEF Packs!AssignedRef
<1> QED
  BY <1>4, <1>5

LEMMA SetLaneKeeps ==
    ASSUME LanesInv, NEW op \in {"=", "|=", "&=", "^="}, NEW c \in BOOLEAN, Packs!SetLane(op, c)
    PROVE  LanesInv'
<1>1. PICK l \in 1 .. packJob.width :
         /\ mask' = [mask EXCEPT ![l] = Packs!AssignedRef(op, @, Packs!ValueMaskCast(c))]
         /\ scalar' = [scalar EXCEPT !.mask[l] = CASE op = "="  -> c [] op = "|=" -> @ \/ c
                                                   [] op = "&=" -> @ /\ c [] op = "^=" -> @ # c]
  BY DEF Packs!SetLane
<1>2. PICK p \in {0, Truth} : p = mask[l] /\ scalar.mask[l] = (p # 0)
  BY DEF LanesInv, ScalarsOf
<1> DEFINE u == Packs!AssignedRef(op, p, Packs!ValueMaskCast(c))
           d == CASE op = "="  -> c [] op = "|=" -> (p # 0) \/ c
                  [] op = "&=" -> (p # 0) /\ c [] op = "^=" -> (p # 0) # c
           m == [mask EXCEPT ![l] = u]
<1>3. u \in {0, Truth} /\ (u # 0) = d
  BY AssignedRefIsTruth
<1>4. mask' = m /\ scalar' = [scalar EXCEPT !.mask = [scalar.mask EXCEPT ![l] = d]]
  BY <1>1, <1>2
<1> HIDE DEF u, d
<1>5. m \in [1 .. packJob.width -> {0, Truth}]
  BY <1>3 DEF LanesInv
<1>6. [scalar.mask EXCEPT ![l] = d] = [k \in 1 .. packJob.width |-> m[k] # 0]
  BY <1>3 DEF LanesInv, ScalarsOf
<1> HIDE DEF m
<1> QED
  BY <1>4, <1>5, <1>6, MaskChanges DEF Packs!SetLane, Packs!Operation

\* Words that are blended are all bits set or none.
LEMMA BlendIsChoice ==
    ASSUME Packs!Blends, NEW m \in {0, Truth}, NEW t \in Packs!Word, NEW own \in Packs!Word
    PROVE  Packs!Blend(m, t, own) = IF m # 0 THEN t ELSE own
<1>1. Truth = Ones /\ Ones # 0 /\ Ones - Ones = 0 /\ Ones - 0 = Ones
  BY Words DEF Truth
<1>2. /\ AndBits(Ones, t) = t /\ AndBits(0, own) = 0 /\ OrBits(t, 0) = t
      /\ AndBits(0, t) = 0 /\ AndBits(Ones, own) = own /\ OrBits(0, own) = own
  BY WordsAssumption DEF Packs!WordsAreBinary
<1> QED
  BY <1>1, <1>2 DEF Packs!Blend

LEMMA WhereKeeps ==
    ASSUME LanesInv, NEW op \in {"=", "+", "-", "*"}, Packs!Where(op)
    PROVE  LanesInv'
<1> DEFINE w == packJob.width
           rhs(s, v, x) == IF s THEN [l \in 1 .. w |-> v] ELSE x
           Changed(s, v) ==
               /\ pack' = [pack EXCEPT !.a = Packs!Updated(mask, op, @, rhs(s, v, pack.b))]
               /\ scalar' = [scalar EXCEPT !.a =
                     [l \in DOMAIN @ |-> IF scalar.mask[l] THEN Packs!Scalar(op, @[l], rhs(s, v, scalar.b)[l])
                                                           ELSE @[l]]]
<1>1. \E s \in BOOLEAN, v \in {1, 2} : Changed(s, v)
  BY DEF Packs!Where
<1>2. PICK s \in BOOLEAN, v \in {1, 2} : Changed(s, v)
  <2> HIDE DEF Changed
  <2> QED
    BY <1>1
<1>3. PICK x \in Lanes, y \in Lanes : x = pack["a"] /\ y = pack["b"] /\ scalar.a = x /\ scalar.b = y
  BY DEF LanesInv, ScalarsOf
<1>4. v \in Packs!Word /\ DOMAIN x = 1 .. w
  BY Words DEF Packs!Word, Lanes
<1>5. PICK r \in [1 .. w -> Packs!Word] : r = rhs(s, v, y)
  BY <1>4 DEF Lanes
<1> DEFINE t == [l \in 1 .. w |-> Packs!Scalar(op, x[l], r[l])]
           z == [l \in 1 .. w |-> IF mask[l] # 0 THEN t[l] ELSE x[l]]
<1>6. t \in [1 .. w -> Packs!Word]
  BY ScalarIsWord DEF Lanes
<1>7. z \in Lanes
  BY <1>6 DEF Lanes
<1>8. Packs!Updated(mask, op, x, r) = z
  <2>1. Packs!Updated(mask, op, x, r)
          = [l \in 1 .. w |-> IF Packs!Blends THEN Packs!Blend(mask[l], t[l], x[l])
                              ELSE IF mask[l] # 0 THEN t[l] ELSE x[l]]
    BY <1>4 DEF Packs!Updated, Packs!IsTrue
  <2>2. ASSUME NEW l \in 1 .. w, Packs!Blends
        PROVE  Packs!Blend(mask[l], t[l], x[l]) = IF mask[l] # 0 THEN t[l] ELSE x[l]
    <3>1. mask[l] \in {0, Truth} /\ t[l] \in Packs!Word /\ x[l] \in Packs!Word
      BY <1>6 DEF LanesInv, Lanes
    <3> HIDE DEF t
    <3> QED
      BY <2>2, <3>1, BlendIsChoice
  <2> HIDE DEF t
  <2> QED
    BY <2>1, <2>2
<1>9. pack' = [pack EXCEPT !["a"] = z] /\ scalar' = [scalar EXCEPT !["a"] = z]
  <2>1. pack' = [pack EXCEPT !["a"] = Packs!Updated(mask, op, x, r)]
    BY <1>2, <1>3, <1>5
  <2>2. \A l \in 1 .. w : scalar.mask[l] = (mask[l] # 0)
    BY DEF LanesInv, ScalarsOf
  <2>3. scalar' = [scalar EXCEPT !["a"] =
                      [l \in 1 .. w |-> IF scalar.mask[l] THEN Packs!Scalar(op, x[l], r[l]) ELSE x[l]]]
    BY <1>2, <1>3, <1>4, <1>5
  <2>4. [l \in 1 .. w |-> IF scalar.mask[l] THEN Packs!Scalar(op, x[l], r[l]) ELSE x[l]] = z
    BY <2>2
  <2> HIDE DEF z
  <2> QED
    BY <1>8, <2>1, <2>3, <2>4
<1> HIDE DEF z, Changed
<1> QED
  BY <1>7, <1>9, PackChanges DEF Packs!Where, Packs!Operation, LanesInv


LEMMA GivesKeeps ==
    ASSUME LanesInv, NEW got, NEW expected, got = expected, Packs!Gives(got, expected)
    PROVE  LanesInv'
<1>1. out'.got = out'.expected
  BY DEF Packs!Gives
<1> QED
  BY <1>1 DEF Packs!Gives, Packs!Operation, LanesInv, Lanes, Truth, ScalarsOf, Packs!Blends

\* The lanes up to one of them, where the pack is repeated before its begin.
LEMMA WrappedLanes ==
    ASSUME LanesInv, NEW w \in Nat \ {0}, w = packJob.width, NEW x \in LanesOf(w), x = scalar.a,
           NEW n \in 1 .. w, NEW start \in 0 .. w - 1
    PROVE  /\ Packs!EndingAt(n, start) \in LanesOf(n)
           /\ \A l \in 1 .. n : LET p == w + start - (n - l)
                                IN  Packs!EndingAt(n, start)[l] = x[(IF p < w THEN p ELSE p - w) + 1]
<1>1. PICK two \in Nat, from \in Int, to \in Int, num \in Nat :
         /\ two = w + w /\ from = w + start + 2 - n /\ to = w + start + 1 /\ num = n
         /\ from >= 1 /\ to <= two /\ num = to - from + 1
  OBVIOUS
<1>2. IsJoin(x \o x, x, w, x, two)
  BY <1>1, JoinOf
<1>3. PICK twice \in LanesOf(two) : twice = x \o x /\ \A i \in 1 .. two : twice[i] = IF i <= w THEN x[i] ELSE x[i - w]
  BY <1>2 DEF IsJoin
<1>4. IsPart(SubSeq(twice, from, to), twice, from, num)
  BY <1>1, PartOf
<1>5. SubSeq(twice, from, to) = Packs!EndingAt(n, start)
  BY <1>1, <1>3 DEF Packs!EndingAt
<1>6. ASSUME NEW l \in 1 .. n, NEW p \in Int, p = w + start - (n - l)
      PROVE  Packs!EndingAt(n, start)[l] = x[(IF p < w THEN p ELSE p - w) + 1]
  <2>1. from + l - 1 = p + 1 /\ p + 1 \in 1 .. two /\ l \in 1 .. num
    BY <1>1, <1>6
  <2>2. twice[p + 1] = IF p + 1 <= w THEN x[p + 1] ELSE x[(p + 1) - w]
    BY <1>3, <2>1
  <2>3. Packs!EndingAt(n, start)[l] = twice[p + 1]
    BY <1>4, <1>5, <2>1 DEF IsPart
  <2>4. CASE p < w
    BY <2>2, <2>3, <2>4
  <2>5. CASE ~(p < w)
    <3>1. ~(p + 1 <= w) /\ (p + 1) - w = (p - w) + 1
      BY <2>5
    <3> QED
      BY <2>2, <2>3, <2>5, <3>1
  <2> QED
    BY <2>4, <2>5
<1>7. \A l \in 1 .. n : w + start - (n - l) \in Int
  BY <1>1
<1>8. Packs!EndingAt(n, start) \in LanesOf(n)
  BY <1>1, <1>4, <1>5 DEF IsPart
<1> QED
  BY <1>6, <1>7, <1>8

LEMMA RearrangeKeeps ==
    ASSUME LanesInv, Packs!Rearrange
    PROVE  LanesInv'
<1>1. PICK w \in Nat \ {0} : w = packJob.width
  BY LaneProgramsAreLegal
<1>2. PICK x \in LanesOf(w) : x = pack["a"] /\ scalar.a = x /\ Len(x) = w
  <2>1. pack["a"] \in LanesOf(w) /\ scalar.a = pack["a"]
    BY <1>1 DEF LanesInv, ScalarsOf, Lanes, LanesOf
  <2> QED
    BY <2>1 DEF LanesOf
<1>3. \A i : Packs!Lane(i) = x[i + 1]
  BY <1>2 DEF Packs!Lane
<1>4. CASE Packs!Gives(Packs!Revert, Packs!Reverse(scalar.a))
  <2>1. Packs!Revert = Packs!Reverse(scalar.a)
    BY <1>1, <1>2, <1>3 DEF Packs!Revert, Packs!Reverse
  <2> QED
    BY <1>4, <2>1, GivesKeeps
<1>5. CASE \E n \in 1 .. packJob.width : Packs!Gives(Packs!RShrink(n), Packs!EndingAt(n, packJob.width - 1))
  <2>1. PICK n \in 1 .. w : Packs!Gives(Packs!RShrink(n), Packs!EndingAt(n, w - 1))
    BY <1>1, <1>5
  <2>2. PICK start \in 0 .. w - 1 : start = w - 1
    OBVIOUS
  <2>3. /\ Packs!EndingAt(n, start) \in LanesOf(n)
        /\ \A l \in 1 .. n : LET p == w + start - (n - l)
                             IN  Packs!EndingAt(n, start)[l] = x[(IF p < w THEN p ELSE p - w) + 1]
    BY <1>1, <1>2, WrappedLanes
  <2>4. \A l \in 1 .. n : LET p == w + start - (n - l)
                          IN  (IF p < w THEN p ELSE p - w) + 1 = (w - 1 - (n - l)) + 1
    BY <2>2
  <2>5. \A l \in 1 .. n : Packs!EndingAt(n, start)[l] = x[(w - 1 - (n - l)) + 1]
    BY <2>3, <2>4
  <2>6. Packs!RShrink(n) = Packs!EndingAt(n, start)
    BY <1>1, <1>3, <2>3, <2>5 DEF Packs!RShrink, LanesOf
  <2> QED
    BY <2>1, <2>2, <2>6, GivesKeeps
<1>6. CASE \E n \in 1 .. packJob.width, start \in 0 .. packJob.width - 1 :
              Packs!Gives(Packs!RShrinkAt(n, start), Packs!EndingAt(n, start))
  <2>1. PICK n \in 1 .. w, start \in 0 .. w - 1 : Packs!Gives(Packs!RShrinkAt(n, start), Packs!EndingAt(n, start))
    BY <1>1, <1>6
  <2>2. /\ Packs!EndingAt(n, start) \in LanesOf(n)
        /\ \A l \in 1 .. n : LET p == w + start - (n - l)
                             IN  Packs!EndingAt(n, start)[l] = x[(IF p < w THEN p ELSE p - w) + 1]
    BY <1>1, <1>2, WrappedLanes
  <2>3. ASSUME NEW p \in 0 .. 2 * w - 1 PROVE p % w = IF p < w THEN p ELSE p - w
    <3>1. CASE p < w
      BY <3>1
    <3>2. CASE p >= w
      BY <3>2
    <3> QED
      BY <3>1, <3>2
  <2>4. \A l \in 1 .. n : w + start - (n - l) \in 0 .. 2 * w - 1
    OBVIOUS
  <2>5. \A l \in 1 .. n : Packs!EndingAt(n, start)[l] = x[((w + start - (n - l)) % w) + 1]
    BY <2>2, <2>3, <2>4
  <2>6. Packs!RShrinkAt(n, start) = Packs!EndingAt(n, start)
    BY <1>1, <1>3, <2>2, <2>5 DEF Packs!RShrinkAt, LanesOf
  <2> QED
    BY <2>1, <2>6, GivesKeeps
<1>7. CASE packJob.width > 1 /\ Packs!Gives(Packs!EraseBack, Packs!Front(scalar.a))
  <2>1. PICK one \in Int, to \in Int, k \in Nat : one = 1 /\ to = w - 1 /\ k = w - 1 /\ one >= 1 /\ to <= w /\ k = to - one + 1
    BY <1>1
  <2>2. IsPart(SubSeq(x, one, to), x, one, k)
    BY <2>1, PartOf
  <2>3. PICK y \in LanesOf(k) : y = SubSeq(x, one, to) /\ \A i \in 1 .. k : y[i] = x[one + i - 1]
    BY <2>2 DEF IsPart
  <2>4. Packs!EraseBack = y
    <3>1. \A i \in 1 .. k : y[i] = Packs!Lane(i - 1)
      <4>1. \A i \in 1 .. k : one + i - 1 = (i - 1) + 1
        BY <2>1
      <4> QED
        BY <1>3, <2>3, <4>1
    <3>2. 1 .. packJob.width - 1 = 1 .. k
      BY <1>1, <2>1
    <3> QED
      BY <3>1, <3>2 DEF Packs!EraseBack, LanesOf
  <2>5. Packs!Front(scalar.a) = SubSeq(x, one, to)
    BY <1>2, <2>1 DEF Packs!Front
  <2> QED
    BY <1>7, <2>3, <2>4, <2>5, GivesKeeps
<1>8. CASE packJob.width > 1 /\ \E lane \in 0 .. packJob.width - 1 :
              Packs!Gives(Packs!RemoveLane(lane), Packs!RemoveAt(scalar.a, lane + 1))
  <2>1. PICK lane \in 0 .. w - 1 : Packs!Gives(Packs!RemoveLane(lane), Packs!RemoveAt(x, lane + 1))
    BY <1>1, <1>2, <1>8
  <2>2. PICK one \in Int, k \in Nat, from \in Int, m \in Nat, n \in Nat :
           /\ one = 1 /\ k = lane /\ from = lane + 2 /\ m = w - 1 - lane /\ n = w - 1
           /\ one >= 1 /\ k <= w /\ k = k - one + 1 /\ k \in Int
           /\ from >= 1 /\ w <= w /\ m = w - from + 1 /\ w \in Int /\ n = k + m
    <3>1. PICK k \in Nat, m \in Nat : k = lane /\ m = w - 1 - lane
      OBVIOUS
    <3>2. PICK one \in Int, from \in Int, n \in Nat : one = 1 /\ from = k + 2 /\ n = w - 1
      BY <3>1
    <3>3. /\ one = 1 /\ k = lane /\ from = lane + 2 /\ m = w - 1 - lane /\ n = w - 1
          /\ one >= 1 /\ k <= w /\ k = k - one + 1 /\ k \in Int
          /\ from >= 1 /\ w <= w /\ m = w - from + 1 /\ w \in Int /\ n = k + m
      BY <3>1, <3>2
    <3> QED
      BY <3>3
  <2>3. IsPart(SubSeq(x, one, k), x, one, k)
    BY <2>2, PartOf
  <2>4. IsPart(SubSeq(x, from, w), x, from, m)
    BY <2>2, PartOf
  <2>5. PICK y \in LanesOf(k), z \in LanesOf(m) :
           /\ y = SubSeq(x, one, k) /\ \A i \in 1 .. k : y[i] = x[one + i - 1]
           /\ z = SubSeq(x, from, w) /\ \A i \in 1 .. m : z[i] = x[from + i - 1]
    BY <2>3, <2>4 DEF IsPart
  <2>6. IsJoin(y \o z, y, k, z, n)
    <3>1. n = k + m
      BY <2>2
    <3> QED
      BY <3>1, JoinOf
  <2>7. PICK r \in LanesOf(n) : r = y \o z /\ \A i \in 1 .. n : r[i] = IF i <= k THEN y[i] ELSE z[i - k]
    BY <2>6 DEF IsJoin
  <2>8. ASSUME NEW i \in 1 .. n PROVE r[i] = x[(IF i - 1 >= lane THEN i ELSE i - 1) + 1]
    <3>1. CASE i <= k
      <4>1. i \in 1 .. k /\ one + i - 1 = (i - 1) + 1 /\ ~(i - 1 >= lane)
        BY <2>2, <3>1
      <4> QED
        BY <2>5, <2>7, <3>1, <4>1
    <3>2. CASE ~(i <= k)
      <4>1. i - k \in 1 .. m /\ from + (i - k) - 1 = i + 1 /\ i - 1 >= lane
        BY <2>2, <3>2
      <4> QED
        BY <2>5, <2>7, <3>2, <4>1
    <3> QED
      BY <3>1, <3>2
  <2>9. Packs!RemoveLane(lane) = r
    BY <1>1, <1>3, <2>2, <2>7, <2>8 DEF Packs!RemoveLane, LanesOf
  <2>10. Packs!RemoveAt(x, lane + 1) = r
    BY <1>2, <2>2, <2>5, <2>7 DEF Packs!RemoveAt
  <2> QED
    BY <2>1, <2>9, <2>10, GivesKeeps
<1> QED
  BY <1>4, <1>5, <1>6, <1>7, <1>8 DEF Packs!Rearrange


LEMMA SingleLane ==
    ASSUME NEW t \in LanesOf(1)
    PROVE  t = <<t[1]>>
  BY DEF LanesOf

\* reduce_range joins neighbours only: whatever it halves, the lanes keep their order.
LEMMA ReductionKeepsOrder ==
    ASSUME NEW n \in Nat \ {0}, NEW lanes \in LanesOf(n), packJob.sycl \in BOOLEAN
    PROVE  Packs!ReduceRange(lanes) = lanes
<1> USE DEF LanesOf
<1> DEFINE Left(size) == IF packJob.sycl THEN size - 1 ELSE size \div 2
           Body(f) == [size \in 1 .. Len(lanes) |->
               LET left == IF packJob.sycl THEN size - 1 ELSE size \div 2
               IN  [first \in 1 .. Len(lanes) - size + 1 |->
                       IF size = 1 THEN <<lanes[first]>>
                       ELSE f[left][first] \o f[size - left][first + left]]]
           range == CHOOSE f : f = Body(f)
           Row(size) == [first \in 1 .. n - size + 1 |-> SubSeq(lanes, first, first + size - 1)]
           rows == [size \in 1 .. n |-> Row(size)]
<1>1. Len(lanes) = n /\ lanes \in Seq(Packs!Word)
  OBVIOUS
<1>2. Packs!ReduceRange(lanes) = range[n][1]
  BY <1>1 DEF Packs!ReduceRange
<1>3. ASSUME NEW size \in 1 .. n, size # 1
      PROVE  /\ Left(size) \in 1 .. size - 1 /\ size - Left(size) \in 1 .. size - 1
             /\ Left(size) \in 1 .. n /\ size - Left(size) \in 1 .. n
  <2>1. size \div 2 \in 1 .. size - 1
    BY <1>3
  <2> QED
    BY <1>3, <2>1
<1>4. ASSUME NEW size \in 1 .. n, NEW first \in 1 .. n - size + 1, size # 1
      PROVE  /\ rows[Left(size)][first] \o rows[size - Left(size)][first + Left(size)] = Row(size)[first]
             /\ first \in 1 .. n - Left(size) + 1 /\ first + Left(size) \in 1 .. n - (size - Left(size)) + 1
  <2>1. PICK left \in 1 .. size - 1 : left = Left(size) /\ left \in 1 .. n /\ size - left \in 1 .. n
    BY <1>3, <1>4
  <2>2. first \in 1 .. n - left + 1 /\ first + left \in 1 .. n - (size - left) + 1
    BY <2>1
  <2>3. PICK to \in first .. n : to = first + size - 1
    OBVIOUS
  <2>4. PICK mid \in first - 1 .. to : mid = first + left - 1 /\ first + left = mid + 1
    BY <2>1, <2>3
  <2>5. SubSeq(lanes, first, mid) \o SubSeq(lanes, mid + 1, to) = SubSeq(lanes, first, to)
    <3>1. first \in 1 .. Len(lanes) + 1 /\ to \in first - 1 .. Len(lanes)
      BY <1>1, <2>3
    <3> QED
      BY <1>1, <2>4, <3>1, ConcatAdjacentSubSeq
  <2>6. rows[left][first] = SubSeq(lanes, first, mid)
    BY <2>1, <2>2, <2>4
  <2>7. rows[size - left][first + left] = SubSeq(lanes, mid + 1, to)
    <3>1. first + left + (size - left) - 1 = to
      BY <2>1, <2>3
    <3> QED
      BY <2>1, <2>2, <2>4, <3>1
  <2>8. Row(size)[first] = SubSeq(lanes, first, to)
    BY <2>3
  <2> HIDE DEF rows, Row, Left
  <2> QED
    BY <2>1, <2>2, <2>5, <2>6, <2>7, <2>8
<1>5. ASSUME NEW first \in 1 .. n PROVE <<lanes[first]>> = SubSeq(lanes, first, first + 1 - 1)
  <2> HIDE DEF LanesOf
  <2>1. first + 1 - 1 = first
    OBVIOUS
  <2>2. PICK one \in Int, k \in Nat : one = first /\ k = 1 /\ one >= 1 /\ one <= n /\ k = one - one + 1
    OBVIOUS
  <2>3. IsPart(SubSeq(lanes, one, one), lanes, one, k)
    BY <2>2, PartOf
  <2>4. PICK t \in LanesOf(k) : t = SubSeq(lanes, one, one) /\ \A i \in 1 .. k : t[i] = lanes[one + i - 1]
    BY <2>3 DEF IsPart
  <2>5. t \in LanesOf(1) /\ t[1] = lanes[first]
    BY <2>2, <2>4
  <2>6. t = <<t[1]>>
    BY <2>5, SingleLane
  <2> QED
    BY <2>1, <2>2, <2>4, <2>5, <2>6
\* A row is made of shorter ones.
<1> DEFINE JoinedRow(f, size) == [first \in 1 .. n - size + 1 |->
                                IF size = 1 THEN <<lanes[first]>>
                                ELSE f[Left(size)][first] \o f[size - Left(size)][first + Left(size)]]
<1>6. \A f : Body(f) = [size \in 1 .. n |-> JoinedRow(f, size)]
  BY <1>1
<1>7. ASSUME NEW size \in 1 .. n, NEW f, size # 1 => f[Left(size)] = rows[Left(size)] /\ f[size - Left(size)] = rows[size - Left(size)]
      PROVE  JoinedRow(f, size) = Row(size)
  <2>1. ASSUME NEW first \in 1 .. n - size + 1 PROVE JoinedRow(f, size)[first] = Row(size)[first]
    <3>1. CASE size = 1
      <4>1. first \in 1 .. n
        BY <3>1
      <4>2. Row(size)[first] = SubSeq(lanes, first, first + 1 - 1)
        BY <3>1
      <4>3. JoinedRow(f, size)[first] = <<lanes[first]>>
        BY <3>1
      <4> QED
        BY <1>5, <4>1, <4>2, <4>3
    <3>2. CASE size # 1
      <4>1. JoinedRow(f, size)[first] = f[Left(size)][first] \o f[size - Left(size)][first + Left(size)]
        BY <3>2
      <4> HIDE DEF JoinedRow, Row, Left, rows
      <4> QED
        BY <1>4, <1>7, <3>2, <4>1
    <3> QED
      BY <3>1, <3>2
  <2>2. /\ JoinedRow(f, size) = [first \in 1 .. n - size + 1 |-> JoinedRow(f, size)[first]]
        /\ Row(size) = [first \in 1 .. n - size + 1 |-> Row(size)[first]]
    OBVIOUS
  <2> HIDE DEF JoinedRow, Row
  <2> QED
    BY <2>1, <2>2
<1>8. rows = Body(rows)
  <2>1. \A size \in 1 .. n : JoinedRow(rows, size) = Row(size)
    <3> HIDE DEF JoinedRow, Row, rows, Left
    <3> QED
      BY <1>7
  <2> HIDE DEF JoinedRow, Row, Body
  <2> QED
    BY <1>6, <2>1
<1>9. range = Body(range)
  <2> HIDE DEF Body, rows
  <2> QED
    BY <1>8
<1>10. \A size \in 1 .. n : range[size] = JoinedRow(range, size)
  <2> HIDE DEF range, JoinedRow, Body
  <2> QED
    BY <1>6, <1>9
<1> DEFINE T == {m \in Nat : \A size \in 1 .. n : size <= m => range[size] = rows[size]}
<1>11. 0 \in T
  <2> HIDE DEF range, rows
  <2> QED
    OBVIOUS
<1>12. ASSUME NEW m \in Nat, m \in T PROVE m + 1 \in T
  <2>1. ASSUME NEW size \in 1 .. n, size <= m + 1 PROVE range[size] = rows[size]
    <3>1. size # 1 => range[Left(size)] = rows[Left(size)] /\ range[size - Left(size)] = rows[size - Left(size)]
      <4>1. size # 1 => /\ Left(size) \in 1 .. n /\ Left(size) <= m
                        /\ size - Left(size) \in 1 .. n /\ size - Left(size) <= m
        <5> HIDE DEF Left
        <5> QED
          BY <1>3, <2>1
      <4> HIDE DEF range, rows, Left
      <4> QED
        BY <1>12, <4>1
    <3>2. JoinedRow(range, size) = Row(size)
      <4> HIDE DEF range, rows, JoinedRow, Row, Left
      <4> QED
        BY <1>7, <3>1
    <3> HIDE DEF range, JoinedRow, Row, Left
    <3> QED
      BY <1>10, <3>2
  <2> HIDE DEF range, rows
  <2> QED
    BY <2>1
<1>13. n \in T
  <2> HIDE DEF T
  <2> QED
    BY <1>11, <1>12, SetInduction
<1>14. range[n] = rows[n]
  <2> HIDE DEF range, rows
  <2> QED
    BY <1>13
<1>15. rows[n][1] = SubSeq(lanes, 1, n)
  BY <1>1
<1>16. SubSeq(lanes, 1, n) = lanes
  BY <1>1, SubSeqFull
<1> HIDE DEF range, rows
<1> QED
  BY <1>2, <1>14, <1>15, <1>16


LEMMA ReductionsKeep ==
    ASSUME LanesInv, Packs!ReducePack \/ Packs!ReduceMask
    PROVE  LanesInv'
<1>1. PICK w \in Nat \ {0} : w = packJob.width
  BY LaneProgramsAreLegal
<1>2. packJob.sycl \in BOOLEAN
  BY LaneProgramsAreLegal
<1>3. CASE Packs!ReducePack
  <2>1. PICK x \in LanesOf(w) : x = pack["a"] /\ scalar.a = x
    BY <1>1 DEF LanesInv, ScalarsOf, Lanes, LanesOf
  <2>2. Packs!ReduceRange(x) = x
    BY <1>2, ReductionKeepsOrder
  <2> QED
    BY <1>3, <2>1, <2>2, GivesKeeps DEF Packs!ReducePack
<1>4. CASE Packs!ReduceMask
  <2>1. mask \in LanesOf(w)
    BY <1>1, Words DEF LanesInv, LanesOf
  <2>2. PICK m \in LanesOf(w) : m = mask
    BY <2>1
  <2>3. Packs!ReduceRange(m) = m
    BY <1>2, ReductionKeepsOrder
  <2>4. [l \in 1 .. packJob.width |-> Packs!IsTrue(Packs!ReduceRange(mask)[l])] = scalar.mask
    BY <2>2, <2>3 DEF Packs!IsTrue, LanesInv, ScalarsOf
  <2> QED
    BY <1>4, <2>4, GivesKeeps DEF Packs!ReduceMask
<1> QED
  BY <1>3, <1>4

LEMMA LanesStep == LanesInv /\ [Packs!Next]_Packs!vars => LanesInv'
<1> SUFFICES ASSUME LanesInv, [Packs!Next]_Packs!vars PROVE LanesInv'
  OBVIOUS
<1>1. CASE UNCHANGED Packs!vars
  BY <1>1 DEF Packs!vars, LanesInv, Lanes, Truth, ScalarsOf, Packs!Blends
<1>2. ASSUME NEW r \in {"a", "b"}, Packs!Load(r) PROVE LanesInv'
  BY <1>2, LoadKeeps
<1>3. CASE Packs!Store
  BY <1>3, StoreKeeps
<1>4. ASSUME NEW op \in {"+", "-", "*", "=", "min", "neg"}, Packs!Operate(op) PROVE LanesInv'
  BY <1>4, OperateKeeps
<1>5. ASSUME NEW op \in {"=", "+"}, Packs!AssignSelected(op) PROVE LanesInv'
  BY <1>5, AssignSelectedKeeps
<1>6. ASSUME NEW op \in {"<", ">=", "=="}, Packs!Compare(op) PROVE LanesInv'
  BY <1>6, CompareKeeps
<1>7. ASSUME NEW op \in {"&&", "||", "!="}, Packs!Combine(op) PROVE LanesInv'
  BY <1>7, CombineKeeps
<1>8. CASE Packs!MakeMask
  BY <1>8, MakeMaskKeeps
<1>9. ASSUME NEW op \in {"=", "|=", "&=", "^="}, NEW c \in BOOLEAN, Packs!SetLane(op, c) PROVE LanesInv'
  BY <1>9, SetLaneKeeps
<1>10. ASSUME NEW op \in {"=", "+", "-", "*"}, Packs!Where(op) PROVE LanesInv'
  BY <1>10, WhereKeeps
<1>11. 3 \in Packs!Word
  BY Words DEF Packs!Word
<1>12. ASSUME NEW op \in {"+", "="}, Packs!AssignValue(op, 3) PROVE LanesInv'
  BY <1>11, <1>12, AssignValueKeeps
<1>13. ASSUME NEW n \in DOMAIN Packs!Names, Packs!SetNamedLane(Packs!Names[n], 3) PROVE LanesInv'
  BY <1>11, <1>13, SetNamedLaneKeeps
<1>14. CASE Packs!Rearrange
  BY <1>14, RearrangeKeeps
<1>15. CASE Packs!ReducePack \/ Packs!ReduceMask
  BY <1>15, ReductionsKeep
<1> QED
  BY <1>1, <1>2, <1>3, <1>4, <1>5, <1>6, <1>7, <1>8, <1>9, <1>10, <1>12, <1>13, <1>14, <1>15 DEF Packs!Next

\* Every pack does lane by lane what scalars would, for packs and memory of every
\* size, words of every width and programs of every length: a lane of a mask is
\* 0 or the truth of its type, so that a blend chooses one of two values, and
\* a reduction joins neighbours only.
THEOREM PacksStayLanewise == DataSpec => []PacksAreLanewise
<1> DEFINE Inv == PacksRun => LanesInv
<1>1. DataInit => Inv
  BY LanesBegin DEF DataInit, PacksIdle, PacksRun
<1>2. Inv /\ [DataNext]_<<viewVars, packVars>> => Inv'
  <2> SUFFICES ASSUME Inv, [DataNext]_<<viewVars, packVars>>, PacksRun' PROVE LanesInv'
    OBVIOUS
  <2>1. CASE PacksRun /\ Packs!Next
    BY <2>1, LanesStep
  <2>2. CASE UNCHANGED packVars
    <3>1. PacksRun /\ UNCHANGED Packs!vars
      BY <2>2 DEF packVars, PacksRun, Packs!vars
    <3> QED
      BY <3>1, LanesStep
  <2> QED
    BY <2>1, <2>2 DEF DataNext, packVars
<1>3. Inv => PacksAreLanewise
  BY PacksAgree DEF PacksAreLanewise
<1> QED
  BY <1>1, <1>2, <1>3, PTL DEF DataSpec
=============================================================================
