--------------------------- MODULE HostEventProofs ---------------------------
(***************************************************************************)
(* What events promise, for any number of queues, events, threads and      *)
(* operations: the four safety properties of HostEvent.                    *)
(*                                                                         *)
(* The argument: a queue finishes its operations in the order in which     *)
(* they entered it.  An event that is not complete has one signal on its   *)
(* way that carries its count, and that is the operation of m_future; what *)
(* the event stands for is in front of it in the same queue.  So whoever   *)
(* gets that future, wait() or an operation of waitFor(), finds the work   *)
(* finished, whatever happened to the event since the future was copied.   *)
(***************************************************************************)
EXTENDS HostEvent, SequenceTheorems, TLAPS

OpType == [kind : Kinds, queue : Queue, event : Event \cup {None},
           count : Nat, future : Int, after : SUBSET Nat]
EventType == [count : Nat, last : Nat, future : Int]
CallType == [at : {"idle", "lock", "execute", "wait", "relock", "waited", "submit", "get"},
             queue : Queue \cup {None}, event : Event \cup {None},
             count : Nat, future : Int, owes : SUBSET Nat]

Types ==
  /\ uses \in Sharing
  /\ ops \in Seq(OpType)
  /\ fifo \in [Queue -> Seq(Nat)]
  /\ worker \in [Queue -> {"idle", "run", "ran", "destroyed"}]
  /\ finished \subseteq DOMAIN ops
  /\ ready \subseteq finished
  /\ event \in [Event -> EventType]
  /\ call \in [Client -> CallType]
  /\ prior \in [Event -> SUBSET Nat]
  /\ owed \in [Queue -> SUBSET Nat]

Deferred(i) == i \in DOMAIN ops /\ ops[i].queue \in NonBlocking
Before(i) == {j \in DOMAIN ops : ops[j].queue = ops[i].queue /\ j < i}

\* A queue holds operations of its own, in the order in which they came, ...
Fifos ==
  \A q \in Queue :
    /\ \A k \in DOMAIN fifo[q] : Deferred(fifo[q][k]) /\ ops[fifo[q][k]].queue = q
    /\ \A k, l \in DOMAIN fifo[q] : k < l => fifo[q][k] < fifo[q][l]
    /\ worker[q] # "idle" => fifo[q] # <<>>
    /\ worker[q] \in {"ran", "destroyed"} => Front(q) \in finished

\* ... every one that is not finished, and finishes them in this order.
InOrder ==
  \A i \in DOMAIN ops : Deferred(i) =>
    IF i \in finished
      THEN Before(i) \subseteq finished
      ELSE \E k \in DOMAIN fifo[ops[i].queue] : fifo[ops[i].queue][k] = i

\* Calls are made on queues of their kind, by threads that use them.
CallFits(c) ==
  /\ At(c) \in {"lock", "execute", "get"} => call[c].queue \in BlockingQueue
  /\ At(c) \in {"lock", "execute"} => call[c].queue \in uses[c]
  /\ At(c) = "execute" => /\ call[c].future \in DOMAIN ops
                          /\ ops[call[c].future].queue = call[c].queue
  /\ At(c) = "submit" => call[c].queue \in NonBlocking
  /\ At(c) \in {"wait", "relock", "waited"} => call[c].event \in Event

Calls == \A c \in Client : CallFits(c)

\* What a blocking queue has not finished, a thread is executing.
Executing ==
  \A i \in DOMAIN ops : \/ ops[i].queue \in NonBlocking
                        \/ i \in finished
                        \/ \E c \in Client : At(c) = "execute" /\ call[c].future = i

\* A signal carries a count that no other signal of its event carries.
Signals ==
  /\ \A i \in DOMAIN ops : ops[i].kind = "signal" =>
       ops[i].event \in Event /\ ops[i].count <= event[ops[i].event].count
  /\ \A i, j \in DOMAIN ops :
       /\ ops[i].kind = "signal" /\ ops[j].kind = "signal"
       /\ ops[i].event = ops[j].event /\ ops[i].count = ops[j].count
       => i = j

\* The work w is in front of the operation whose future is f.
Covers(f, w) == Deferred(f) /\ w \subseteq Before(f)

Events ==
  \A e \in Event :
    /\ event[e].last <= event[e].count
    /\ Complete(e) => prior[e] \subseteq finished
    /\ ~Complete(e) =>
         /\ event[e].future \notin finished
         /\ Covers(event[e].future, prior[e])
         /\ ops[event[e].future].kind = "signal"
         /\ ops[event[e].future].event = e
         /\ ops[event[e].future].count = event[e].count

Waits ==
  \A c \in Client :
    /\ At(c) \in {"relock", "waited"} => call[c].owes \subseteq finished
    /\ At(c) = "wait" => \/ call[c].owes \subseteq finished
                         \/ Covers(call[c].future, call[c].owes)
    /\ At(c) \in {"submit", "get"} => Covers(call[c].future, call[c].owes)

\* The queue q has an operation in front of i that awaits x.
Awaited(q, i, x) ==
  \E a \in DOMAIN ops :
    /\ ops[a].queue = q /\ ops[a].kind = "await" /\ a \notin finished
    /\ Covers(ops[a].future, {x})
    /\ a < i

Debts ==
  /\ \A q \in Queue : \A x \in owed[q] :
       x \in finished \/ (q \in NonBlocking /\ Awaited(q, NewOp, x))
  /\ \A i \in DOMAIN ops : \A x \in ops[i].after :
       x \in finished \/ (Deferred(i) /\ Awaited(ops[i].queue, i, x))

IInv == Types /\ Fifos /\ InOrder /\ Calls /\ Executing /\ Signals /\ Events /\ Waits /\ Debts

-----------------------------------------------------------------------------
(* How steps change the operations: they add new ones behind those there    *)
(* are, and an operation that awaits a future finishes when it is set.      *)

Appends ==
  /\ DOMAIN ops \subseteq DOMAIN ops'
  /\ \A i \in DOMAIN ops : ops'[i] = ops[i]
  /\ \A j \in DOMAIN ops' \ DOMAIN ops : j = NewOp
  /\ NewOp <= NewOp'

Settles ==
  /\ finished \subseteq finished'
  /\ \A a \in finished' \ finished :
       Deferred(a) /\ ops[a].kind = "await" => IsReady(ops[a].future)

(* How a step moves the call of a thread. *)
Moves(c) ==
  /\ CallFits(c)'
  /\ \/ At(c)' \in {"idle", "lock", "execute"}
     \/ At(c)' \in {"wait", "relock", "waited"} /\ call'[c].owes \subseteq finished
     \/ At(c)' \in {"wait", "submit", "get"} /\ Covers(call'[c].future, call'[c].owes)

\* Operations are numbered from one.
LEMMA Numbers ==
  ASSUME Types
  PROVE  /\ DOMAIN ops = 1 .. Len(ops) /\ Len(ops) \in Nat
         /\ DOMAIN ops \subseteq Nat \ {0} /\ NewOp \in Nat
         /\ NewOp \notin DOMAIN ops /\ \A i \in DOMAIN ops : i < NewOp
         /\ \A i \in DOMAIN ops : ops[i] \in OpType
BY DEF Types, NewOp

\* An operation that enters a queue gets the next number.
LEMMA Entering ==
  ASSUME Types, NEW r \in OpType, ops' = Append(ops, r)
  PROVE  /\ ops' \in Seq(OpType)
         /\ DOMAIN ops' = DOMAIN ops \cup {NewOp}
         /\ ops'[NewOp] = r
         /\ Appends
<1>1. ops \in Seq(OpType)
  BY DEF Types
<1>2. /\ ops' \in Seq(OpType) /\ Len(ops') = Len(ops) + 1
      /\ \A i \in 1 .. Len(ops) : ops'[i] = ops[i]
      /\ ops'[Len(ops) + 1] = r
  BY <1>1, AppendProperties
<1>3. DOMAIN ops' = 1 .. Len(ops) + 1
  BY <1>2
<1> QED
  BY <1>2, <1>3, Numbers DEF Appends, NewOp

LEMMA NothingEnters ==
  ASSUME Types, ops' = ops
  PROVE  Appends
BY Numbers DEF Appends, NewOp

\* What is in front of an operation stays what it was.
LEMMA BeforeStays ==
  ASSUME Types, Appends, NEW i \in DOMAIN ops
  PROVE  Before(i)' = Before(i) /\ (Deferred(i)' <=> Deferred(i))
BY Numbers DEF Before, Deferred, Appends

LEMMA CoversStays ==
  ASSUME Types, Appends, NEW f, NEW w, Covers(f, w)
  PROVE  Covers(f, w)'
<1>1. f \in DOMAIN ops
  BY DEF Covers, Deferred
<1> QED
  BY <1>1, BeforeStays DEF Covers

\* Who gets the future f finds the work in front of it finished.
LEMMA ReadyCovers ==
  ASSUME Types, InOrder, NEW f, NEW w, Covers(f, w), IsReady(f)
  PROVE  w \subseteq finished
<1>1. f \in DOMAIN ops /\ Deferred(f) /\ w \subseteq Before(f)
  BY DEF Covers, Deferred
<1>2. f \in finished
  BY <1>1, Numbers DEF IsReady, Fulfilled, Types
<1> QED
  BY <1>1, <1>2 DEF InOrder

-----------------------------------------------------------------------------
(* The parts of the invariant that a step keeps if it changes calls, events *)
(* and debts only in certain ways.                                          *)

LEMMA KeepWaits ==
  ASSUME Types, Waits, Appends, finished \subseteq finished',
         \A c \in Client : call'[c] = call[c] \/ Moves(c)
  PROVE  Waits'
<1> SUFFICES ASSUME NEW c \in Client
    PROVE /\ call'[c].at \in {"relock", "waited"} => call'[c].owes \subseteq finished'
          /\ call'[c].at = "wait" => \/ call'[c].owes \subseteq finished'
                                     \/ Covers(call[c].future, call[c].owes)'
          /\ call'[c].at \in {"submit", "get"} => Covers(call[c].future, call[c].owes)'
  BY DEF Waits, At
<1>1. \A f, w : Covers(f, w) => Covers(f, w)'
  BY CoversStays
<1>2. Covers(call'[c].future, call'[c].owes) => Covers(call[c].future, call[c].owes)'
  <2>1. ASSUME NEW f, NEW w, Covers(f, w), f = call'[c].future, w = call'[c].owes
        PROVE  Covers(call[c].future, call[c].owes)'
    <3>1. Covers(f, w)'
      BY <2>1, <1>1
    <3> QED
      BY <2>1, <3>1 DEF Covers, Deferred, Before
  <2> QED
    BY <2>1
<1>3. CASE call'[c] = call[c]
  BY <1>2, <1>3 DEF Waits, At
<1>4. CASE call'[c] # call[c]
  BY <1>2, <1>4 DEF At, Moves
<1> QED
  BY <1>3, <1>4

LEMMA KeepCalls ==
  ASSUME Types, Calls, Appends, uses' = uses,
         \A c \in Client : call'[c] = call[c] \/ Moves(c)
  PROVE  Calls'
BY DEF Calls, CallFits, Moves, At, Appends

LEMMA KeepExecuting ==
  ASSUME Types, Executing, Appends, finished \subseteq finished',
         \A i \in DOMAIN ops' \ DOMAIN ops :
           \/ ops'[i].queue \in NonBlocking
           \/ \E c \in Client : At(c)' = "execute" /\ call'[c].future = i,
         \A c \in Client :
           At(c) = "execute" => call'[c] = call[c] \/ call[c].future \in finished'
  PROVE  Executing'
BY DEF Executing, At, Appends

LEMMA KeepEvents ==
  ASSUME Types, Events, Appends, finished \subseteq finished',
         \A e \in Event :
           \/ /\ event'[e] = event[e] /\ prior'[e] = prior[e]
              /\ ~Complete(e) => event[e].future \notin finished'
           \/ /\ event'[e].last = event'[e].count
              /\ prior'[e] \subseteq finished',
         Types'
  PROVE  Events'
<1> SUFFICES ASSUME NEW e \in Event
    PROVE /\ event'[e].last <= event'[e].count
          /\ event'[e].last = event'[e].count => prior'[e] \subseteq finished'
          /\ event'[e].last # event'[e].count =>
               /\ event'[e].future \notin finished'
               /\ Covers(event[e].future, prior[e])'
               /\ ops'[event'[e].future].kind = "signal"
               /\ ops'[event'[e].future].event = e
               /\ ops'[event'[e].future].count = event'[e].count
  BY DEF Events, Complete
<1>0. event[e] \in EventType
  BY DEF Types
<1>1. CASE /\ event'[e] = event[e] /\ prior'[e] = prior[e]
           /\ ~Complete(e) => event[e].future \notin finished'
  <2>1. CASE Complete(e)
    BY <1>1, <2>1 DEF Events, Complete
  <2>2. CASE ~Complete(e)
    <3>1. event[e].future \in DOMAIN ops /\ Covers(event[e].future, prior[e])
      BY <2>2 DEF Events, Covers, Deferred
    <3>2. ops'[event'[e].future] = ops[event[e].future]
      BY <1>1, <3>1 DEF Appends
    <3>3. Covers(event[e].future, prior[e])'
      BY <1>1, <3>1, BeforeStays DEF Covers, Deferred, Before
    <3> QED
      BY <1>1, <2>2, <3>2, <3>3 DEF Events, Complete
  <2> QED
    BY <2>1, <2>2
<1>2. CASE event'[e].last = event'[e].count /\ prior'[e] \subseteq finished'
  <2>1. event'[e].last <= event'[e].count
    BY <1>2 DEF Types, EventType
  <2> QED
    BY <1>2, <2>1
<1> QED
  BY <1>1, <1>2

LEMMA KeepSignals ==
  ASSUME Types, Signals, Appends,
         \A i \in DOMAIN ops' \ DOMAIN ops : ops'[i].kind # "signal",
         \A e \in Event : event[e].count <= event'[e].count,
         Types'
  PROVE  Signals'
<1>1. \A i \in DOMAIN ops' : ops'[i].kind = "signal" => i \in DOMAIN ops /\ ops'[i] = ops[i]
  BY DEF Appends
<1>2. \A e \in Event : event[e].count \in Nat /\ event'[e].count \in Nat
  BY DEF Types, EventType
<1>3. \A i \in DOMAIN ops : ops[i].count \in Nat
  BY Numbers DEF OpType
<1> QED
  BY <1>1, <1>2, <1>3 DEF Signals

LEMMA KeepDebts ==
  ASSUME Types, InOrder, Debts, Appends, Settles,
         \A q \in Queue : \A x \in owed'[q] \ owed[q] :
           x \in finished \/ (q \in NonBlocking /\ Awaited(q, NewOp, x)'),
         \A i \in DOMAIN ops' \ DOMAIN ops :
           ops'[i].queue \in Queue /\ ops'[i].after = owed[ops'[i].queue],
         Types'
  PROVE  Debts'
<1>1. ASSUME NEW q, NEW i \in Nat, NEW j \in Nat, NEW x, q \in NonBlocking,
             Awaited(q, i, x), i <= j
      PROVE  x \in finished' \/ Awaited(q, j, x)'
  <2>1. PICK a \in DOMAIN ops : /\ ops[a].queue = q /\ ops[a].kind = "await"
                                /\ a \notin finished /\ Covers(ops[a].future, {x}) /\ a < i
    BY <1>1 DEF Awaited
  <2>2. ops'[a] = ops[a] /\ a \in DOMAIN ops' /\ a \in Nat
    BY Numbers DEF Appends
  <2>3. CASE a \in finished'
    <3>1. IsReady(ops[a].future)
      BY <1>1, <2>1, <2>3 DEF Settles, Deferred
    <3>2. x \in finished
      BY <2>1, <3>1, ReadyCovers
    <3> QED
      BY <3>2 DEF Settles
  <2>4. CASE a \notin finished'
    <3>1. Covers(ops[a].future, {x})'
      <4>1. ops[a].future \in DOMAIN ops
        BY <2>1 DEF Covers, Deferred
      <4> QED
        BY <2>1, <2>2, <4>1, BeforeStays DEF Covers, Deferred, Before
    <3>2. a < j
      BY <1>1, <2>1, <2>2
    <3> QED
      BY <2>1, <2>2, <2>4, <3>1, <3>2 DEF Awaited
  <2> QED
    BY <2>3, <2>4
<1>2. NewOp \in Nat /\ NewOp' \in Nat
  BY Numbers DEF Types, NewOp
<1>3. ASSUME NEW q \in Queue, NEW x \in owed'[q]
      PROVE  x \in finished' \/ (q \in NonBlocking /\ Awaited(q, NewOp, x)')
  <2>1. CASE x \in owed[q]
    <3>1. x \in finished \/ (q \in NonBlocking /\ Awaited(q, NewOp, x))
      BY <2>1 DEF Debts
    <3>2. ASSUME q \in NonBlocking, Awaited(q, NewOp, x), NEW n \in Nat, n = NewOp'
          PROVE  x \in finished' \/ Awaited(q, NewOp, x)'
      <4>1. NewOp <= n
        BY <3>2 DEF Appends
      <4>2. x \in finished' \/ Awaited(q, n, x)'
        BY <1>1, <1>2, <3>2, <4>1
      <4> QED
        BY <3>2, <4>2 DEF Awaited
    <3> QED
      BY <1>2, <3>1, <3>2 DEF Settles
  <2> QED
    BY <1>3, <2>1 DEF Settles
<1>4. ASSUME NEW i \in DOMAIN ops', NEW x \in ops'[i].after
      PROVE  x \in finished' \/ (Deferred(i)' /\ Awaited(ops[i].queue, i, x)')
  <2>1. CASE i \in DOMAIN ops
    <3>1. ops'[i] = ops[i] /\ i \in Nat
      BY <2>1, Numbers DEF Appends
    <3>2. x \in finished \/ (Deferred(i) /\ Awaited(ops[i].queue, i, x))
      BY <1>4, <2>1, <3>1 DEF Debts
    <3>3. ASSUME Deferred(i), Awaited(ops[i].queue, i, x)
          PROVE  x \in finished' \/ (Deferred(i)' /\ Awaited(ops[i].queue, i, x)')
      <4>1. ops[i].queue \in NonBlocking /\ Deferred(i)'
        BY <3>3, <2>1, BeforeStays DEF Deferred
      <4>2. ASSUME NEW q, q = ops[i].queue
            PROVE  x \in finished' \/ Awaited(q, i, x)'
        BY <1>1, <3>1, <3>3, <4>1, <4>2
      <4> QED
        BY <3>1, <4>1, <4>2 DEF Awaited
    <3> QED
      BY <3>2, <3>3 DEF Settles
  <2>2. CASE i \notin DOMAIN ops
    <3>1. /\ ops'[i].queue \in Queue /\ x \in owed[ops'[i].queue]
          /\ i = NewOp /\ i \in Nat
      BY <1>2, <1>4, <2>2 DEF Appends
    <3>2. PICK q \in Queue : q = ops'[i].queue
      BY <3>1
    <3>3. x \in finished \/ (q \in NonBlocking /\ Awaited(q, i, x))
      BY <3>1, <3>2 DEF Debts
    <3>4. x \in finished' \/ (q \in NonBlocking /\ Awaited(q, i, x)')
      BY <1>1, <3>1, <3>3 DEF Settles
    <3> QED
      BY <1>4, <3>2, <3>4 DEF Deferred, Awaited
  <2> QED
    BY <2>1, <2>2
<1> QED
  BY <1>3, <1>4 DEF Debts

-----------------------------------------------------------------------------
(* The queues: fifo, finished and worker.                                   *)

LEMMA QueueKeeps ==
  ASSUME Types, Fifos, InOrder, Appends,
         \A i \in DOMAIN ops' \ DOMAIN ops : ops'[i].queue \notin NonBlocking,
         finished \subseteq finished',
         \A i \in finished' \ finished : i \in DOMAIN ops /\ ~Deferred(i),
         fifo' = fifo,
         \A q \in Queue : /\ worker'[q] # "idle" => fifo[q] # <<>>
                          /\ worker'[q] \in {"ran", "destroyed"} => Front(q) \in finished
  PROVE  Fifos' /\ InOrder'
<1>1. \A i \in DOMAIN ops : Deferred(i)' <=> Deferred(i)
  BY BeforeStays
<1>2. \A i : Deferred(i)' => i \in DOMAIN ops
  BY DEF Deferred, Appends
<1>3. Fifos'
  <2>1. \A q \in Queue : \A k \in DOMAIN fifo[q] :
          Deferred(fifo[q][k])' /\ ops'[fifo[q][k]].queue = q
    BY <1>1 DEF Fifos, Deferred, Appends
  <2> QED
    BY <2>1 DEF Fifos, Front, Deferred
<1>4. ASSUME NEW i \in DOMAIN ops', Deferred(i)'
      PROVE  IF i \in finished'
               THEN Before(i)' \subseteq finished'
               ELSE \E k \in DOMAIN fifo'[ops'[i].queue] : fifo'[ops'[i].queue][k] = i
  <2>1. i \in DOMAIN ops /\ Deferred(i) /\ ops'[i] = ops[i] /\ Before(i)' = Before(i)
    BY <1>1, <1>2, <1>4, BeforeStays DEF Appends
  <2>2. i \in finished' <=> i \in finished
    BY <2>1
  <2> QED
    BY <2>1, <2>2 DEF InOrder
<1> QED
  BY <1>3, <1>4 DEF InOrder

LEMMA QueueSubmits ==
  ASSUME Types, Fifos, InOrder, NEW q \in NonBlocking,
         NEW r \in OpType, r.queue = q, ops' = Append(ops, r),
         fifo' = [fifo EXCEPT ![q] = Append(@, NewOp)],
         worker' = worker, finished' = finished
  PROVE  Fifos' /\ InOrder' /\ fifo' \in [Queue -> Seq(Nat)]
<1>0. q \in Queue
  BY DEF NonBlocking
<1>1. /\ DOMAIN ops' = DOMAIN ops \cup {NewOp} /\ ops'[NewOp] = r /\ Appends
  BY Entering
<1>2. /\ NewOp \in Nat /\ NewOp \notin DOMAIN ops /\ \A i \in DOMAIN ops : i < NewOp
      /\ finished \subseteq DOMAIN ops
  BY Numbers DEF Types
<1>3. fifo \in [Queue -> Seq(Nat)]
  BY DEF Types
<1>4. fifo' \in [Queue -> Seq(Nat)]
  <2>1. Append(fifo[q], NewOp) \in Seq(Nat)
    BY <1>0, <1>2, <1>3, AppendProperties
  <2> QED
    BY <1>3, <2>1
<1>5. /\ fifo'[q] = Append(fifo[q], NewOp)
      /\ \A p \in Queue \ {q} : fifo'[p] = fifo[p]
  BY <1>0, <1>3
<1>6. /\ DOMAIN fifo'[q] = DOMAIN fifo[q] \cup {Len(fifo[q]) + 1}
      /\ \A k \in DOMAIN fifo[q] : fifo'[q][k] = fifo[q][k] /\ k <= Len(fifo[q])
      /\ fifo'[q][Len(fifo[q]) + 1] = NewOp
      /\ Len(fifo[q]) \in Nat
      /\ DOMAIN fifo[q] \subseteq Nat
      /\ fifo[q] # <<>> => fifo'[q] # <<>> /\ Head(fifo'[q]) = Head(fifo[q])
  <2>1. fifo[q] \in Seq(Nat)
    BY <1>0, <1>3
  <2>2. /\ DOMAIN fifo[q] = 1 .. Len(fifo[q]) /\ Len(fifo[q]) \in Nat
        /\ Append(fifo[q], NewOp) \in Seq(Nat)
        /\ Len(Append(fifo[q], NewOp)) = Len(fifo[q]) + 1
        /\ \A k \in 1 .. Len(fifo[q]) : Append(fifo[q], NewOp)[k] = fifo[q][k]
        /\ Append(fifo[q], NewOp)[Len(fifo[q]) + 1] = NewOp
    BY <1>2, <2>1, AppendProperties
  <2>3. DOMAIN fifo'[q] = 1 .. Len(fifo[q]) + 1
    BY <1>5, <2>2
  <2>4. fifo[q] # <<>> => fifo'[q] # <<>> /\ Head(fifo'[q]) = Head(fifo[q])
    BY <1>2, <1>5, <2>1, <2>2
  <2> QED
    BY <1>5, <2>2, <2>3, <2>4
<1>7. \A i \in DOMAIN ops : /\ Deferred(i)' <=> Deferred(i)
                            /\ ops'[i] = ops[i] /\ Before(i)' = Before(i)
  BY <1>1, BeforeStays DEF Appends
<1>8. \A i : i = NewOp => Deferred(i)'
  BY <1>1 DEF Deferred
<1>9. ASSUME NEW p \in Queue
      PROVE  /\ \A k \in DOMAIN fifo'[p] : Deferred(fifo[p][k])' /\ ops'[fifo'[p][k]].queue = p
             /\ \A k, l \in DOMAIN fifo'[p] : k < l => fifo'[p][k] < fifo'[p][l]
             /\ worker'[p] # "idle" => fifo'[p] # <<>>
             /\ worker'[p] \in {"ran", "destroyed"} => Head(fifo'[p]) \in finished'
  <2>1. \A k \in DOMAIN fifo[p] : /\ fifo[p][k] \in DOMAIN ops
                                  /\ Deferred(fifo[p][k])'
                                  /\ ops'[fifo[p][k]].queue = p
    BY <1>7 DEF Fifos, Deferred
  <2>2. CASE p # q
    BY <1>5, <2>1, <2>2 DEF Fifos, Front, Deferred
  <2>3. CASE p = q
    <3>1. \A k \in DOMAIN fifo'[q] : Deferred(fifo[q][k])' /\ ops'[fifo'[q][k]].queue = q
      <4>1. ASSUME NEW k \in DOMAIN fifo'[q]
            PROVE  \E i : /\ i = fifo'[q][k] /\ i \in DOMAIN ops'
                          /\ ops'[i].queue = q
        BY <1>1, <1>6, <2>1, <2>3
      <4> QED
        BY <4>1 DEF Deferred
    <3>2. \A k, l \in DOMAIN fifo'[q] : k < l => fifo'[q][k] < fifo'[q][l]
      <4> SUFFICES ASSUME NEW k \in DOMAIN fifo'[q], NEW l \in DOMAIN fifo'[q], k < l
          PROVE fifo'[q][k] < fifo'[q][l]
        OBVIOUS
      <4>1. CASE l \in DOMAIN fifo[q]
        <5>1. k \in DOMAIN fifo[q]
          BY <1>6, <4>1
        <5> QED
          BY <1>0, <1>6, <4>1, <5>1 DEF Fifos
      <4>2. CASE l = Len(fifo[q]) + 1
        <5>1. k \in DOMAIN fifo[q]
          BY <1>6, <4>2
        <5> QED
          BY <1>2, <1>6, <2>1, <2>3, <4>2, <5>1
      <4> QED
        BY <1>6, <4>1, <4>2
    <3>3. /\ worker'[q] # "idle" => fifo'[q] # <<>>
          /\ worker'[q] \in {"ran", "destroyed"} => Head(fifo'[q]) \in finished'
      BY <1>0, <1>6 DEF Fifos, Front
    <3> QED
      BY <2>3, <3>1, <3>2, <3>3
  <2> QED
    BY <2>2, <2>3
<1>10. Fifos'
  BY <1>9 DEF Fifos, Front
<1>11. ASSUME NEW i \in DOMAIN ops', Deferred(i)'
       PROVE  IF i \in finished'
                THEN Before(i)' \subseteq finished'
                ELSE \E k \in DOMAIN fifo'[ops'[i].queue] : fifo'[ops'[i].queue][k] = i
  <2>1. CASE i \in DOMAIN ops
    <3>1. /\ Deferred(i) /\ ops'[i] = ops[i] /\ Before(i)' = Before(i)
          /\ ops[i].queue \in Queue
      BY <1>7, <1>11, <2>1, Numbers DEF OpType
    <3>2. ASSUME NEW k \in DOMAIN fifo[ops[i].queue]
          PROVE  k \in DOMAIN fifo'[ops[i].queue] /\ fifo'[ops[i].queue][k] = fifo[ops[i].queue][k]
      BY <1>5, <1>6, <3>1
    <3> QED
      BY <2>1, <3>1, <3>2 DEF InOrder
  <2>2. CASE i = NewOp
    <3>1. ops'[i].queue = q /\ i \notin finished'
      BY <1>1, <1>2, <2>2
    <3>2. Len(fifo[q]) + 1 \in DOMAIN fifo'[q] /\ fifo'[q][Len(fifo[q]) + 1] = i
      BY <1>6, <2>2
    <3> QED
      BY <3>1, <3>2
  <2> QED
    BY <1>1, <2>1, <2>2
<1>12. InOrder'
  BY <1>11 DEF InOrder
<1> QED
  BY <1>4, <1>10, <1>12

\* The front of a queue is finished last of the operations in front of it.
LEMMA FrontIsNext ==
  ASSUME Types, Fifos, InOrder, NEW q \in Queue, fifo[q] # <<>>
  PROVE  /\ Deferred(Front(q)) /\ ops[Front(q)].queue = q /\ q \in NonBlocking
         /\ Before(Front(q)) \subseteq finished
         /\ 1 \in DOMAIN fifo[q] /\ fifo[q][1] = Front(q)
<1>1. /\ fifo[q] \in Seq(Nat) /\ DOMAIN fifo[q] = 1 .. Len(fifo[q]) /\ 1 \in DOMAIN fifo[q]
      /\ Front(q) = fifo[q][1]
  BY DEF Types, Front
<1>2. /\ Deferred(Front(q)) /\ ops[Front(q)].queue = q /\ q \in NonBlocking
  BY <1>1 DEF Fifos, Deferred
<1>3. ASSUME NEW j \in Before(Front(q)), j \notin finished
      PROVE  FALSE
  <2>1. j \in DOMAIN ops /\ Deferred(j) /\ ops[j].queue = q /\ j < Front(q)
    BY <1>2 DEF Before, Deferred
  <2>2. PICK k \in DOMAIN fifo[q] : fifo[q][k] = j
    BY <1>3, <2>1 DEF InOrder
  <2>3. k = 1 \/ 1 < k
    BY <1>1
  <2>4. Front(q) \in Nat /\ j \in Nat
    BY <1>2, <2>1, Numbers DEF Deferred
  <2>5. 1 < k => Front(q) < j
    BY <1>1, <2>2 DEF Fifos
  <2> QED
    BY <1>1, <2>1, <2>2, <2>3, <2>4, <2>5
<1> QED
  BY <1>1, <1>2, <1>3

LEMMA QueueFinishes ==
  ASSUME Types, Fifos, InOrder, NEW q \in Queue, worker[q] = "run",
         WorkerFinish(q)
  PROVE  Fifos' /\ InOrder' /\ Appends /\ finished \subseteq finished'
<1>1. /\ Deferred(Front(q)) /\ ops[Front(q)].queue = q /\ fifo[q] # <<>>
      /\ Before(Front(q)) \subseteq finished
  BY FrontIsNext DEF Fifos
<1>2. /\ ops' = ops /\ fifo' = fifo /\ finished' = finished \cup {Front(q)}
      /\ worker' = [worker EXCEPT ![q] = "ran"]
  BY DEF WorkerFinish
<1>3. \A i : (Deferred(i)' <=> Deferred(i)) /\ Before(i)' = Before(i)
  BY <1>2 DEF Deferred, Before
<1>4. Fifos'
  <2>1. \A p \in Queue : Front(p)' = Front(p)
    BY <1>2 DEF Front
  <2>2. \A p \in Queue : p # q => worker'[p] = worker[p]
    BY <1>2 DEF Types
  <2>3. \A p \in Queue : \A k \in DOMAIN fifo[p] : Deferred(fifo[p][k])'
    BY <1>2 DEF Fifos, Deferred
  <2> QED
    BY <1>1, <1>2, <2>1, <2>2, <2>3 DEF Fifos, Deferred
<1>5. InOrder'
  BY <1>1, <1>2, <1>3 DEF InOrder
<1> QED
  BY <1>2, <1>4, <1>5, NothingEnters

LEMMA QueuePops ==
  ASSUME Types, Fifos, InOrder, NEW q \in Queue, WorkerSetPromise(q)
  PROVE  Fifos' /\ InOrder' /\ fifo' \in [Queue -> Seq(Nat)]
<1>1. /\ worker[q] = "destroyed" /\ ops' = ops /\ finished' = finished
      /\ fifo' = [fifo EXCEPT ![q] = Tail(@)]
      /\ worker' = [worker EXCEPT ![q] = "idle"]
  BY DEF WorkerSetPromise
<1>2. fifo[q] # <<>> /\ Front(q) \in finished /\ 1 \in DOMAIN fifo[q] /\ fifo[q][1] = Front(q)
  BY <1>1, FrontIsNext DEF Fifos
<1>3. fifo \in [Queue -> Seq(Nat)] /\ worker \in [Queue -> {"idle", "run", "ran", "destroyed"}]
  BY DEF Types
<1>4. /\ Tail(fifo[q]) \in Seq(Nat)
      /\ DOMAIN fifo[q] \subseteq Nat \ {0}
      /\ \A k \in DOMAIN Tail(fifo[q]) : k + 1 \in DOMAIN fifo[q] /\ Tail(fifo[q])[k] = fifo[q][k + 1]
      /\ \A k \in DOMAIN fifo[q] : k # 1 => k - 1 \in DOMAIN Tail(fifo[q])
      /\ DOMAIN Tail(fifo[q]) \subseteq Nat
  <2>1. fifo[q] \in Seq(Nat) /\ DOMAIN fifo[q] = 1 .. Len(fifo[q]) /\ Len(fifo[q]) \in Nat
    BY <1>3
  <2>2. /\ Tail(fifo[q]) \in Seq(Nat) /\ Len(Tail(fifo[q])) = Len(fifo[q]) - 1
        /\ \A k \in 1 .. Len(Tail(fifo[q])) : Tail(fifo[q])[k] = fifo[q][k + 1]
    BY <1>2, <2>1, HeadTailProperties
  <2>3. DOMAIN Tail(fifo[q]) = 1 .. Len(fifo[q]) - 1
    BY <2>2
  <2> QED
    BY <2>1, <2>2, <2>3
<1>5. /\ fifo' \in [Queue -> Seq(Nat)] /\ fifo'[q] = Tail(fifo[q]) /\ worker'[q] = "idle"
      /\ \A p \in Queue \ {q} : fifo'[p] = fifo[p] /\ worker'[p] = worker[p]
  BY <1>1, <1>3, <1>4
<1>6. \A i : (Deferred(i)' <=> Deferred(i)) /\ Before(i)' = Before(i)
  BY <1>1 DEF Deferred, Before
<1>7. ASSUME NEW p \in Queue
      PROVE  /\ \A k \in DOMAIN fifo'[p] : Deferred(fifo'[p][k]) /\ ops[fifo'[p][k]].queue = p
             /\ \A k, l \in DOMAIN fifo'[p] : k < l => fifo'[p][k] < fifo'[p][l]
             /\ worker'[p] # "idle" => fifo'[p] # <<>>
             /\ worker'[p] \in {"ran", "destroyed"} => Head(fifo'[p]) \in finished
  <2>1. CASE p # q
    BY <1>5, <2>1 DEF Fifos, Front
  <2>2. CASE p = q
    <3>1. \A k \in DOMAIN fifo'[q] : k + 1 \in DOMAIN fifo[q] /\ fifo'[q][k] = fifo[q][k + 1] /\ k \in Nat
      BY <1>4, <1>5
    <3>2. \A k, l \in DOMAIN fifo'[q] : k < l => fifo'[q][k] < fifo'[q][l]
      <4> SUFFICES ASSUME NEW k \in DOMAIN fifo'[q], NEW l \in DOMAIN fifo'[q], k < l
          PROVE fifo'[q][k] < fifo'[q][l]
        OBVIOUS
      <4>1. k + 1 < l + 1
        BY <3>1
      <4> QED
        BY <3>1, <4>1 DEF Fifos
    <3>3. \A k \in DOMAIN fifo[q] : Deferred(fifo[q][k]) /\ ops[fifo[q][k]].queue = q
      BY DEF Fifos
    <3>4. \A k \in DOMAIN fifo'[q] : Deferred(fifo'[q][k]) /\ ops[fifo'[q][k]].queue = q
      <4> SUFFICES ASSUME NEW k \in DOMAIN fifo'[q]
          PROVE Deferred(fifo'[q][k]) /\ ops[fifo'[q][k]].queue = q
        OBVIOUS
      <4>1. fifo'[q][k] = fifo[q][k + 1] /\ k + 1 \in DOMAIN fifo[q]
        BY <3>1
      <4> QED
        BY <3>3, <4>1
    <3> QED
      BY <1>5, <2>2, <3>2, <3>4
  <2> QED
    BY <2>1, <2>2
<1>8. Fifos'
  <2>1. \A p \in Queue : \A k \in DOMAIN fifo'[p] : \E i : i = fifo'[p][k] /\ Deferred(i)'
    BY <1>6, <1>7
  <2> QED
    BY <1>1, <1>7, <2>1 DEF Fifos, Front, Deferred
<1>9. ASSUME NEW i \in DOMAIN ops, Deferred(i), i \notin finished
      PROVE  \E k \in DOMAIN fifo'[ops[i].queue] : fifo'[ops[i].queue][k] = i
  <2>1. ops[i].queue \in Queue
    BY Numbers DEF OpType
  <2>2. PICK k \in DOMAIN fifo[ops[i].queue] : fifo[ops[i].queue][k] = i
    BY <1>9 DEF InOrder
  <2>3. CASE ops[i].queue # q
    BY <1>5, <2>1, <2>2, <2>3
  <2>4. CASE ops[i].queue = q
    <3>1. k # 1 /\ k \in Nat
      BY <1>2, <1>4, <1>9, <2>2, <2>4
    <3>2. k - 1 \in DOMAIN Tail(fifo[q]) /\ Tail(fifo[q])[k - 1] = fifo[q][(k - 1) + 1]
      BY <1>4, <2>2, <2>4, <3>1
    <3>3. (k - 1) + 1 = k
      BY <3>1
    <3> QED
      BY <1>5, <2>2, <2>4, <3>2, <3>3
  <2> QED
    BY <2>3, <2>4
<1>10. InOrder'
  BY <1>1, <1>6, <1>9 DEF InOrder
<1> QED
  BY <1>5, <1>8, <1>10

-----------------------------------------------------------------------------
(* The steps.  Those that only move a call or a worker keep the rest.       *)

LEMMA QuietStep ==
  ASSUME IInv, UNCHANGED <<uses, ops, fifo, finished, ready, event, prior, owed>>,
         worker' \in [Queue -> {"idle", "run", "ran", "destroyed"}],
         \A q \in Queue : /\ worker'[q] # "idle" => fifo[q] # <<>>
                          /\ worker'[q] \in {"ran", "destroyed"} => Front(q) \in finished,
         call' \in [Client -> CallType],
         \A c \in Client : \/ call'[c] = call[c]
                           \/ At(c) # "execute" /\ Moves(c)
  PROVE  IInv'
<1> USE DEF IInv
<1>1. Types'
  BY DEF Types
<1>2. Appends
  BY NothingEnters
<1>3. Settles
  BY DEF Settles
<1>4. Fifos' /\ InOrder'
  BY <1>2, QueueKeeps
<1>5. Calls'
  BY <1>2, KeepCalls
<1>6. Executing'
  BY <1>2, KeepExecuting
<1>7. Signals'
  <2>1. \A e \in Event : event[e].count <= event'[e].count
    BY DEF Types, EventType
  <2> QED
    BY <1>1, <1>2, <2>1, KeepSignals
<1>8. Events'
  BY <1>1, <1>2, KeepEvents DEF Events
<1>9. Waits'
  BY <1>2, KeepWaits
<1>10. Debts'
  BY <1>1, <1>2, <1>3, KeepDebts
<1> QED
  BY <1>1, <1>4, <1>5, <1>6, <1>7, <1>8, <1>9, <1>10

LEMMA WorkerKept ==
  ASSUME IInv, worker' = worker
  PROVE  /\ worker' \in [Queue -> {"idle", "run", "ran", "destroyed"}]
         /\ \A q \in Queue : /\ worker'[q] # "idle" => fifo[q] # <<>>
                             /\ worker'[q] \in {"ran", "destroyed"} => Front(q) \in finished
BY DEF IInv, Types, Fifos

LEMMA IdleCall == Idle \in CallType
BY DEF Idle, CallType, NoState

LEMMA Used ==
  ASSUME IInv, NEW c \in Client, NEW q \in uses[c]
  PROVE  q \in Queue /\ (q \in NonBlocking <=> q \notin BlockingQueue)
BY SharingAssumption DEF IInv, Types, NonBlocking

LEMMA EnqueueBlockingWorkKeeps ==
  ASSUME IInv, uses' = uses, NEW c \in Client, NEW q \in uses[c], EnqueueBlockingWork(c, q)
  PROVE  IInv'
<1>1. /\ UNCHANGED <<uses, ops, fifo, worker, finished, ready, event, prior, owed>>
      /\ At(c) = "idle" /\ q \in BlockingQueue /\ q \in Queue
      /\ call' = [call EXCEPT ![c] = [Idle EXCEPT !.at = "lock", !.queue = q]]
  BY Used DEF EnqueueBlockingWork
<1>2. call \in [Client -> CallType]
  BY DEF IInv, Types
<1>3. call' \in [Client -> CallType]
  BY <1>1, <1>2, IdleCall DEF CallType, Idle
<1>4. \A d \in Client : call'[d] = call[d] \/ (At(d) # "execute" /\ Moves(d))
  <2>1. call'[c].at = "lock" /\ call'[c].queue = q
    BY <1>1, <1>2 DEF Idle
  <2>2. Moves(c)
    BY <1>1, <2>1 DEF Moves, CallFits, At
  <2> QED
    BY <1>1, <1>2, <2>2
<1> QED
  BY <1>1, <1>3, <1>4, WorkerKept, QuietStep

LEMMA WaitForBeginKeeps ==
  ASSUME IInv, uses' = uses, NEW c \in Client, NEW q \in uses[c], NEW e \in Event,
         WaitForBegin(c, q, e)
  PROVE  IInv'
<1>1. /\ UNCHANGED <<uses, ops, fifo, worker, finished, ready, event, prior, owed>>
      /\ At(c) = "idle" /\ ~Complete(e) /\ q \in Queue
      /\ q \in NonBlocking <=> q \notin BlockingQueue
  BY Used DEF WaitForBegin
<1> DEFINE begin == [at |-> IF q \in BlockingQueue THEN "get" ELSE "submit", queue |-> q,
                     event |-> e, count |-> event[e].count, future |-> event[e].future,
                     owes |-> prior[e]]
<1>2. call' = [call EXCEPT ![c] = begin]
  BY DEF WaitForBegin
<1>3. call \in [Client -> CallType] /\ event[e] \in EventType /\ prior[e] \in SUBSET Nat
  BY DEF IInv, Types
<1>4. begin \in CallType
  BY <1>1, <1>3 DEF CallType, EventType
<1>5. call'[c] = begin /\ \A d \in Client \ {c} : call'[d] = call[d]
  BY <1>2, <1>3
<1>6. Covers(event[e].future, prior[e])
  BY <1>1 DEF IInv, Events
<1>7. Moves(c)
  <2>1. CallFits(c)'
    BY <1>1, <1>5 DEF CallFits, At
  <2>2. At(c)' \in {"submit", "get"} /\ call'[c].future = event[e].future /\ call'[c].owes = prior[e]
    BY <1>5 DEF At
  <2> QED
    BY <1>6, <2>1, <2>2 DEF Moves
<1>8. call' \in [Client -> CallType]
  BY <1>2, <1>3, <1>4
<1> QED
  BY <1>1, <1>5, <1>7, <1>8, WorkerKept, QuietStep

LEMMA WaitBeginKeeps ==
  ASSUME IInv, uses' = uses, NEW c \in Client, NEW e \in Event, WaitBegin(c, e)
  PROVE  IInv'
<1>1. /\ UNCHANGED <<uses, ops, fifo, worker, finished, ready, event, prior, owed>>
      /\ At(c) = "idle"
  BY DEF WaitBegin
<1> DEFINE begin == [at |-> IF event[e].count > event[e].last THEN "wait" ELSE "waited",
                     queue |-> None, event |-> e, count |-> event[e].count,
                     future |-> event[e].future, owes |-> prior[e]]
<1>2. call' = [call EXCEPT ![c] = begin]
  BY DEF WaitBegin
<1>3. call \in [Client -> CallType] /\ event[e] \in EventType /\ prior[e] \in SUBSET Nat
  BY DEF IInv, Types
<1>4. begin \in CallType
  BY <1>3 DEF CallType, EventType
<1>5. call'[c] = begin /\ \A d \in Client \ {c} : call'[d] = call[d]
  BY <1>2, <1>3
<1>6. IF event[e].count > event[e].last THEN Covers(event[e].future, prior[e])
                                        ELSE prior[e] \subseteq finished
  BY <1>3 DEF IInv, Events, Complete, EventType
<1>7. Moves(c)
  <2>1. CallFits(c)'
    BY <1>5 DEF CallFits, At
  <2>2. /\ At(c)' \in {"wait", "waited"}
        /\ At(c)' = "wait" <=> event[e].count > event[e].last
        /\ call'[c].future = event[e].future /\ call'[c].owes = prior[e]
    BY <1>5 DEF At
  <2> QED
    BY <1>6, <2>1, <2>2 DEF Moves
<1>8. call' \in [Client -> CallType]
  BY <1>2, <1>3, <1>4
<1> QED
  BY <1>1, <1>5, <1>7, <1>8, WorkerKept, QuietStep

LEMMA WaitGetKeeps ==
  ASSUME IInv, uses' = uses, NEW c \in Client, WaitGet(c)
  PROVE  IInv'
<1>1. /\ UNCHANGED <<uses, ops, fifo, worker, finished, ready, event, prior, owed>>
      /\ At(c) = "wait" /\ IsReady(call[c].future)
      /\ call' = [call EXCEPT ![c].at = "relock"]
  BY DEF WaitGet, Goto
<1>2. call \in [Client -> CallType]
  BY DEF IInv, Types
<1>3. call'[c] = [call[c] EXCEPT !.at = "relock"] /\ \A d \in Client \ {c} : call'[d] = call[d]
  BY <1>1, <1>2
<1>4. call[c].owes \subseteq finished
  BY <1>1, ReadyCovers DEF IInv, Waits
<1>5. /\ At(c)' = "relock" /\ call'[c].owes = call[c].owes /\ call'[c].event = call[c].event
      /\ call'[c] \in CallType
  BY <1>2, <1>3 DEF At, CallType
<1>6. Moves(c)
  BY <1>1, <1>4, <1>5 DEF Moves, CallFits, At, IInv, Calls
<1>7. call' \in [Client -> CallType]
  BY <1>1, <1>2, <1>5
<1> QED
  BY <1>1, <1>3, <1>6, <1>7, WorkerKept, QuietStep

LEMMA WaitRelockKeeps ==
  ASSUME IInv, uses' = uses, NEW c \in Client, WaitRelock(c)
  PROVE  IInv'
<1>1. /\ UNCHANGED <<uses, ops, fifo, worker, finished, ready, event, prior, owed>>
      /\ At(c) = "relock"
  BY DEF WaitRelock
<1> DEFINE e == call[c].event
           place == IF call[c].count > event[e].last THEN "wait" ELSE "waited"
<1>2. call \in [Client -> CallType] /\ e \in Event /\ event[e] \in EventType
  BY <1>1 DEF IInv, Types, Calls, CallFits
<1>3. call' = [call EXCEPT ![c] = [@ EXCEPT !.at = place, !.future = event[e].future]]
  BY DEF WaitRelock
<1>4. /\ call'[c] = [call[c] EXCEPT !.at = place, !.future = event[e].future]
      /\ \A d \in Client \ {c} : call'[d] = call[d]
  BY <1>2, <1>3
<1>5. call[c].owes \subseteq finished
  BY <1>1 DEF IInv, Waits
<1>6. /\ At(c)' \in {"wait", "waited"} /\ call'[c].owes = call[c].owes /\ call'[c].event = e
      /\ call'[c] \in CallType
  <2>1. /\ call[c] \in CallType /\ event[e].future \in Int
        /\ place \in {"wait", "waited"}
    BY <1>2 DEF EventType
  <2>2. PICK m \in {"wait", "waited"}, n \in Int, r \in CallType, s \in {call'[c]} :
          m = place /\ n = event[e].future /\ r = call[c]
    BY <2>1
  <2>3. s = [r EXCEPT !.at = m, !.future = n]
    BY <1>4, <2>2
  <2>4. s \in CallType /\ s.at = m /\ s.owes = r.owes /\ s.event = r.event
    BY <2>3 DEF CallType
  <2> QED
    BY <2>2, <2>4 DEF At
<1>7. Moves(c)
  BY <1>2, <1>5, <1>6 DEF Moves, CallFits, At
<1>8. call' \in [Client -> CallType]
  BY <1>2, <1>3, <1>4, <1>6
<1> QED
  BY <1>1, <1>4, <1>7, <1>8, WorkerKept, QuietStep

LEMMA WaitReturnKeeps ==
  ASSUME IInv, uses' = uses, NEW c \in Client, WaitReturn(c)
  PROVE  IInv'
<1>1. /\ UNCHANGED <<uses, ops, fifo, worker, finished, ready, event, prior, owed>>
      /\ At(c) = "waited" /\ call' = [call EXCEPT ![c] = Idle]
  BY DEF WaitReturn, Return
<1>2. call \in [Client -> CallType]
  BY DEF IInv, Types
<1>3. call' \in [Client -> CallType]
  BY <1>1, <1>2, IdleCall
<1>4. call'[c].at = "idle" /\ \A d \in Client \ {c} : call'[d] = call[d]
  BY <1>1, <1>2 DEF Idle
<1>5. Moves(c)
  BY <1>4 DEF Moves, CallFits, At
<1> QED
  BY <1>1, <1>3, <1>4, <1>5, WorkerKept, QuietStep

LEMMA DropHandleKeeps ==
  ASSUME IInv, uses' = uses, NEW c \in Client, NEW e \in Event, DropHandle(c, e)
  PROVE  IInv'
<1>1. UNCHANGED <<uses, ops, fifo, worker, finished, ready, event, call, prior, owed>>
  BY DEF DropHandle
<1>2. call' \in [Client -> CallType]
  BY <1>1 DEF IInv, Types
<1> QED
  BY <1>1, <1>2, WorkerKept, QuietStep

LEMMA WorkerTakeKeeps ==
  ASSUME IInv, uses' = uses, NEW q \in Queue, WorkerTake(q)
  PROVE  IInv'
<1>1. /\ UNCHANGED <<uses, ops, fifo, finished, ready, event, call, prior, owed>>
      /\ fifo[q] # <<>> /\ worker' = [worker EXCEPT ![q] = "run"]
  BY DEF WorkerTake
<1>2. /\ call' \in [Client -> CallType]
      /\ worker \in [Queue -> {"idle", "run", "ran", "destroyed"}]
  BY <1>1 DEF IInv, Types
<1>3. \A p \in Queue : /\ worker'[p] # "idle" => fifo[p] # <<>>
                       /\ worker'[p] \in {"ran", "destroyed"} => Front(p) \in finished
  BY <1>1, <1>2 DEF IInv, Fifos
<1>4. worker' \in [Queue -> {"idle", "run", "ran", "destroyed"}]
  BY <1>1, <1>2
<1> QED
  BY <1>1, <1>2, <1>3, <1>4, QuietStep

LEMMA WorkerDestroyTaskKeeps ==
  ASSUME IInv, uses' = uses, NEW q \in Queue, WorkerDestroyTask(q)
  PROVE  IInv'
<1>1. /\ UNCHANGED <<uses, ops, fifo, finished, ready, event, call, prior, owed>>
      /\ worker[q] = "ran" /\ worker' = [worker EXCEPT ![q] = "destroyed"]
  BY DEF WorkerDestroyTask
<1>2. /\ call' \in [Client -> CallType]
      /\ worker \in [Queue -> {"idle", "run", "ran", "destroyed"}]
  BY <1>1 DEF IInv, Types
<1>3. \A p \in Queue : /\ worker'[p] # "idle" => fifo[p] # <<>>
                       /\ worker'[p] \in {"ran", "destroyed"} => Front(p) \in finished
  BY <1>1, <1>2 DEF IInv, Fifos
<1>4. worker' \in [Queue -> {"idle", "run", "ran", "destroyed"}]
  BY <1>1, <1>2
<1> QED
  BY <1>1, <1>2, <1>3, <1>4, QuietStep

-----------------------------------------------------------------------------
(* The steps that change queues, events or debts.                           *)

LEMMA Assemble ==
  ASSUME IInv, Types', Appends, Settles, Fifos', InOrder', uses' = uses,
         \A c \in Client : call'[c] = call[c] \/ Moves(c),
         \A i \in DOMAIN ops' \ DOMAIN ops :
           /\ ops'[i].queue \in Queue /\ ops'[i].after = owed[ops'[i].queue]
           /\ \/ ops'[i].queue \in NonBlocking
              \/ \E c \in Client : At(c)' = "execute" /\ call'[c].future = i,
         \A c \in Client :
           At(c) = "execute" => call'[c] = call[c] \/ call[c].future \in finished',
         Signals', Events',
         \A q \in Queue : \A x \in owed'[q] \ owed[q] :
           x \in finished \/ (q \in NonBlocking /\ Awaited(q, NewOp, x)')
  PROVE  IInv'
<1> USE DEF IInv
<1>1. finished \subseteq finished'
  BY DEF Settles
<1>2. Calls'
  BY KeepCalls
<1>3. Executing'
  BY <1>1, KeepExecuting
<1>4. Waits'
  BY <1>1, KeepWaits
<1>5. Debts'
  BY KeepDebts
<1> QED
  BY <1>2, <1>3, <1>4, <1>5

\* Steps that change no event, and finish no signal.
LEMMA EventsStay ==
  ASSUME IInv, Types', Appends, finished \subseteq finished',
         event' = event, prior' = prior,
         \A i \in finished' \ finished : Deferred(i) => ops[i].kind # "signal",
         \A i \in DOMAIN ops' \ DOMAIN ops : ops'[i].kind # "signal"
  PROVE  Events' /\ Signals'
<1> USE DEF IInv
<1>1. \A e \in Event : ~Complete(e) => event[e].future \notin finished'
  BY DEF Events, Covers
<1>2. \A e \in Event : event[e].count <= event'[e].count
  BY DEF Types, EventType
<1> QED
  BY <1>1, <1>2, KeepEvents, KeepSignals

LEMMA EnqueueWorkKeeps ==
  ASSUME IInv, uses' = uses, NEW c \in Client, NEW q \in uses[c], EnqueueWork(c, q)
  PROVE  IInv'
<1> DEFINE r == [kind |-> "work", queue |-> q, event |-> None, count |-> 0,
                 future |-> NoState, after |-> owed[q]]
<1>1. /\ UNCHANGED <<worker, finished, ready, event, call, prior, owed>>
      /\ q \in NonBlocking /\ q \in Queue
      /\ ops' = Append(ops, r) /\ fifo' = [fifo EXCEPT ![q] = Append(@, NewOp)]
  BY Used DEF EnqueueWork, Submit
<1>2. r \in OpType
  BY <1>1 DEF IInv, Types, OpType, Kinds, NoState
<1>3. r.queue = q /\ r.kind = "work" /\ r.after = owed[q]
  OBVIOUS
<1> HIDE DEF r
<1>4. /\ ops' \in Seq(OpType) /\ DOMAIN ops' = DOMAIN ops \cup {NewOp}
      /\ ops'[NewOp] = r /\ Appends
  BY <1>1, <1>2, Entering DEF IInv
<1>5. Fifos' /\ InOrder' /\ fifo' \in [Queue -> Seq(Nat)]
  BY <1>1, <1>2, <1>3, QueueSubmits DEF IInv
<1>6. Types'
  BY <1>1, <1>4, <1>5 DEF IInv, Types
<1>7. Settles
  BY <1>1 DEF Settles
<1>8. Events' /\ Signals'
  BY <1>1, <1>3, <1>4, <1>6, EventsStay
<1> QED
  BY <1>1, <1>3, <1>4, <1>5, <1>6, <1>7, <1>8, Assemble

LEMMA BlockingLockKeeps ==
  ASSUME IInv, uses' = uses, NEW c \in Client, BlockingLock(c)
  PROVE  IInv'
<1> DEFINE q == call[c].queue
           r == [kind |-> "work", queue |-> q, event |-> None, count |-> 0,
                 future |-> NoState, after |-> owed[q]]
<1>1. /\ UNCHANGED <<fifo, worker, finished, ready, event, prior, owed>>
      /\ At(c) = "lock" /\ ops' = Append(ops, r)
      /\ call' = [call EXCEPT ![c] = [@ EXCEPT !.at = "execute", !.future = NewOp]]
  BY DEF BlockingLock
<1>2. call \in [Client -> CallType] /\ call[c] \in CallType
  BY DEF IInv, Types
<1>3. q \in BlockingQueue /\ q \in uses[c] /\ q \in Queue /\ q \notin NonBlocking
  BY <1>1, Used, BlockingAssumption DEF IInv, Calls, CallFits, NonBlocking
<1>4. r \in OpType
  BY <1>3 DEF IInv, Types, OpType, Kinds, NoState
<1>5. r.queue = q /\ r.kind = "work" /\ r.after = owed[q]
  OBVIOUS
<1> HIDE DEF r
<1>6. /\ ops' \in Seq(OpType) /\ DOMAIN ops' = DOMAIN ops \cup {NewOp}
      /\ ops'[NewOp] = r /\ Appends
  BY <1>1, <1>4, Entering DEF IInv
<1>7. Fifos' /\ InOrder'
  <2>1. \A p \in Queue : /\ worker'[p] # "idle" => fifo[p] # <<>>
                         /\ worker'[p] \in {"ran", "destroyed"} => Front(p) \in finished
    BY <1>1, WorkerKept
  <2> QED
    BY <1>1, <1>3, <1>5, <1>6, <2>1, QueueKeeps DEF IInv
<1>8. /\ call'[c] \in CallType /\ call'[c].at = "execute" /\ call'[c].queue = q
      /\ call'[c].future = NewOp
      /\ \A d \in Client \ {c} : call'[d] = call[d]
  <2>1. NewOp \in Int
    BY Numbers DEF IInv
  <2>2. PICK n \in Int, t \in CallType, s \in {call'[c]} : n = NewOp /\ t = call[c]
    BY <1>2, <2>1
  <2>3. s = [t EXCEPT !.at = "execute", !.future = n]
    BY <1>1, <1>2, <2>2
  <2>4. s \in CallType /\ s.at = "execute" /\ s.queue = t.queue /\ s.future = n
    BY <2>3 DEF CallType
  <2> QED
    BY <1>1, <1>2, <2>2, <2>4
<1>9. Moves(c)
  BY <1>3, <1>5, <1>6, <1>8 DEF Moves, CallFits, At
<1>10. Types'
  <2>1. call' \in [Client -> CallType]
    BY <1>1, <1>2, <1>8
  <2> QED
    BY <1>1, <1>6, <2>1 DEF IInv, Types
<1>11. Settles
  BY <1>1 DEF Settles
<1>12. Events' /\ Signals'
  BY <1>1, <1>5, <1>6, <1>10, EventsStay
<1>13. At(c)' = "execute"
  BY <1>8 DEF At
<1> QED
  BY <1>1, <1>3, <1>5, <1>6, <1>7, <1>8, <1>9, <1>10, <1>11, <1>12, <1>13, Assemble

LEMMA BlockingReturnKeeps ==
  ASSUME IInv, uses' = uses, NEW c \in Client, BlockingReturn(c)
  PROVE  IInv'
<1>1. /\ UNCHANGED <<ops, fifo, worker, event, prior, owed>>
      /\ At(c) = "execute" /\ finished' = finished \cup {call[c].future}
      /\ ready' = ready \cup {call[c].future}
      /\ call' = [call EXCEPT ![c] = Idle]
  BY DEF BlockingReturn, Return
<1>2. call \in [Client -> CallType]
  BY DEF IInv, Types
<1>3. /\ call[c].future \in DOMAIN ops /\ ops[call[c].future].queue \in BlockingQueue
      /\ ~Deferred(call[c].future)
  BY <1>1 DEF IInv, Calls, CallFits, Deferred, NonBlocking
<1>4. Types'
  BY <1>1, <1>2, <1>3, IdleCall DEF IInv, Types
<1>5. Appends /\ Settles
  BY <1>1, <1>3, NothingEnters DEF IInv, Settles
<1>6. Fifos' /\ InOrder'
  <2>1. \A p \in Queue : /\ worker'[p] # "idle" => fifo[p] # <<>>
                         /\ worker'[p] \in {"ran", "destroyed"} => Front(p) \in finished
    BY <1>1, WorkerKept
  <2> QED
    BY <1>1, <1>3, <1>5, <2>1, QueueKeeps DEF IInv
<1>7. Events' /\ Signals'
  BY <1>1, <1>3, <1>4, <1>5, EventsStay
<1>8. call'[c].at = "idle" /\ \A d \in Client \ {c} : call'[d] = call[d]
  BY <1>1, <1>2 DEF Idle
<1>9. Moves(c)
  BY <1>8 DEF Moves, CallFits, At
<1> QED
  BY <1>1, <1>4, <1>5, <1>6, <1>7, <1>8, <1>9, Assemble

LEMMA EnqueueEventKeeps ==
  ASSUME IInv, uses' = uses, NEW c \in Client, NEW q \in uses[c], NEW e \in Event,
         EnqueueEvent(c, q, e)
  PROVE  IInv'
<1> DEFINE n == event[e].count + 1
           r == [kind |-> "signal", queue |-> q, event |-> e, count |-> n,
                 future |-> NoState, after |-> owed[q]]
<1>1. /\ UNCHANGED <<worker, finished, ready, call, owed>>
      /\ q \in NonBlocking /\ q \in Queue
      /\ ops' = Append(ops, r) /\ fifo' = [fifo EXCEPT ![q] = Append(@, NewOp)]
      /\ event' = [event EXCEPT ![e] = [event[e] EXCEPT !.count = n, !.future = NewOp]]
      /\ prior' = [prior EXCEPT ![e] = OpsOf(q)]
  BY Used DEF EnqueueEvent, Submit
<1>2. event \in [Event -> EventType] /\ event[e] \in EventType /\ n \in Nat
      /\ prior \in [Event -> SUBSET Nat]
  BY DEF IInv, Types, EventType
<1>3. r \in OpType
  BY <1>1, <1>2 DEF IInv, Types, OpType, Kinds, NoState
<1>4. /\ r.queue = q /\ r.kind = "signal" /\ r.after = owed[q] /\ r.event = e
      /\ r.count = n
  OBVIOUS
<1> HIDE DEF r
<1>5. /\ ops' \in Seq(OpType) /\ DOMAIN ops' = DOMAIN ops \cup {NewOp}
      /\ ops'[NewOp] = r /\ Appends
  BY <1>1, <1>3, Entering DEF IInv
<1>6. Fifos' /\ InOrder' /\ fifo' \in [Queue -> Seq(Nat)]
  BY <1>1, <1>3, <1>4, QueueSubmits DEF IInv
<1>7. /\ event'[e] \in EventType /\ event'[e].count = n /\ event'[e].future = NewOp
      /\ event'[e].last = event[e].last
      /\ \A d \in Event \ {e} : event'[d] = event[d]
  <2>1. NewOp \in Int
    BY Numbers DEF IInv
  <2>2. PICK m \in Int, k \in Nat, t \in EventType, s \in {event'[e]} :
          m = NewOp /\ k = n /\ t = event[e]
    BY <1>2, <2>1
  <2>3. s = [t EXCEPT !.count = k, !.future = m]
    BY <1>1, <1>2, <2>2
  <2>4. s \in EventType /\ s.count = k /\ s.future = m /\ s.last = t.last
    BY <2>3 DEF EventType
  <2> QED
    BY <1>1, <1>2, <2>2, <2>4
<1>8. /\ OpsOf(q) \subseteq DOMAIN ops /\ OpsOf(q) \subseteq Nat
      /\ prior'[e] = OpsOf(q) /\ \A d \in Event \ {e} : prior'[d] = prior[d]
  BY <1>1, <1>2, Numbers DEF IInv, OpsOf
<1>9. Types'
  <2>1. event' \in [Event -> EventType] /\ prior' \in [Event -> SUBSET Nat]
    BY <1>1, <1>2, <1>7, <1>8
  <2> QED
    BY <1>1, <1>5, <1>6, <2>1 DEF IInv, Types
<1>10. Settles
  BY <1>1 DEF Settles
<1>11. /\ NewOp \notin DOMAIN ops /\ NewOp \notin finished
       /\ \A i \in DOMAIN ops : ops'[i] = ops[i] /\ ops[i].count \in Nat /\ i < NewOp
  BY <1>5, Numbers DEF IInv, Types, Appends, OpType
<1>12. Signals'
  <2>1. \A i \in DOMAIN ops : ops[i].kind = "signal" => /\ ops[i].event \in Event
                                                        /\ ops[i].count <= event'[ops[i].event].count
                                                        /\ ops[i].event = e => ops[i].count < n
    <3> SUFFICES ASSUME NEW i \in DOMAIN ops, ops[i].kind = "signal"
        PROVE  /\ ops[i].event \in Event /\ ops[i].count <= event'[ops[i].event].count
               /\ ops[i].event = e => ops[i].count < n
      OBVIOUS
    <3>1. ops[i].event \in Event /\ ops[i].count <= event[ops[i].event].count
      BY DEF IInv, Signals
    <3>2. ops[i].event = e => ops[i].count <= n /\ ops[i].count < n
      BY <1>2, <1>11, <3>1 DEF EventType
    <3> QED
      BY <1>7, <3>1, <3>2
  <2>2. \A i \in DOMAIN ops' : ops'[i].kind = "signal" =>
          ops'[i].event \in Event /\ ops'[i].count <= event'[ops'[i].event].count
    BY <1>2, <1>4, <1>5, <1>7, <1>11, <2>1
  <2>3. ASSUME NEW i \in DOMAIN ops', NEW j \in DOMAIN ops',
               ops'[i].kind = "signal", ops'[j].kind = "signal",
               ops'[i].event = ops'[j].event, ops'[i].count = ops'[j].count
        PROVE  i = j
    <3>1. CASE i \in DOMAIN ops /\ j \in DOMAIN ops
      BY <1>11, <2>3, <3>1 DEF IInv, Signals
    <3>2. CASE i = NewOp /\ j \in DOMAIN ops
      BY <1>2, <1>4, <1>5, <1>11, <2>1, <2>3, <3>2
    <3>3. CASE i \in DOMAIN ops /\ j = NewOp
      BY <1>2, <1>4, <1>5, <1>11, <2>1, <2>3, <3>3
    <3> QED
      BY <1>5, <3>1, <3>2, <3>3
  <2> QED
    BY <2>2, <2>3 DEF Signals
<1>13. Events'
  <2> SUFFICES ASSUME NEW d \in Event
      PROVE /\ event'[d].last <= event'[d].count
            /\ event'[d].last = event'[d].count => prior'[d] \subseteq finished'
            /\ event'[d].last # event'[d].count =>
                 /\ event'[d].future \notin finished'
                 /\ event'[d].future \in DOMAIN ops'
                 /\ Covers(event[d].future, prior[d])'
                 /\ ops'[event'[d].future].kind = "signal"
                 /\ ops'[event'[d].future].event = d
                 /\ ops'[event'[d].future].count = event'[d].count
    BY DEF Events, Complete
  <2>1. CASE d = e
    <3>1. event[e].last <= event[e].count
      BY DEF IInv, Events
    <3>2. event'[e].last <= event'[e].count /\ event'[e].last # event'[e].count
      BY <1>2, <1>7, <3>1 DEF EventType
    <3>3. \A j \in OpsOf(q) : j \in DOMAIN ops' /\ ops'[j].queue = q /\ j < NewOp
      BY <1>5, <1>11 DEF OpsOf
    <3>4. Covers(event[e].future, prior[e])'
      BY <1>1, <1>4, <1>5, <1>7, <1>8, <3>3 DEF Covers, Deferred, Before
    <3> QED
      BY <1>1, <1>4, <1>5, <1>7, <1>11, <2>1, <3>2, <3>4
  <2>2. CASE d # e
    <3>1. event'[d] = event[d] /\ prior'[d] = prior[d]
      BY <1>7, <1>8, <2>2
    <3>2. CASE ~Complete(d)
      <4>1. event[d].future \in DOMAIN ops /\ Covers(event[d].future, prior[d])
        BY <3>2 DEF IInv, Events, Covers, Deferred
      <4>2. Covers(event[d].future, prior[d])'
        BY <1>5, <3>1, <4>1, BeforeStays DEF IInv, Covers, Deferred, Before
      <4>3. ops'[event'[d].future] = ops[event[d].future] /\ event'[d].future \in DOMAIN ops'
        BY <1>5, <1>11, <3>1, <4>1
      <4>4. /\ event[d].last <= event[d].count /\ event[d].last # event[d].count
            /\ event[d].future \notin finished
            /\ ops[event[d].future].kind = "signal" /\ ops[event[d].future].event = d
            /\ ops[event[d].future].count = event[d].count
        BY <3>2 DEF IInv, Events, Complete
      <4>5. finished' = finished
        BY <1>1
      <4> QED
        BY <3>1, <4>2, <4>3, <4>4, <4>5
    <3>3. CASE Complete(d)
      BY <1>1, <3>1, <3>3 DEF IInv, Events, Complete
    <3> QED
      BY <3>2, <3>3
  <2> QED
    BY <2>1, <2>2
<1> QED
  BY <1>1, <1>4, <1>5, <1>6, <1>9, <1>10, <1>12, <1>13, Assemble

LEMMA EnqueueEventBlockingKeeps ==
  ASSUME IInv, uses' = uses, NEW c \in Client, NEW q \in uses[c], NEW e \in Event,
         EnqueueEventBlocking(c, q, e)
  PROVE  IInv'
<1>1. /\ UNCHANGED <<ops, fifo, worker, finished, ready, call, owed>>
      /\ At(c) = "idle" /\ q \in BlockingQueue /\ q \notin NonBlocking
      /\ event' = [event EXCEPT ![e] = [count |-> @.count + 1, last |-> @.count + 1,
                                        future |-> Fulfilled]]
      /\ prior' = [prior EXCEPT ![e] = OpsOf(q)]
  BY Used DEF EnqueueEventBlocking
<1>2. /\ event \in [Event -> EventType] /\ event[e] \in EventType
      /\ prior \in [Event -> SUBSET Nat] /\ uses \in [Client -> SUBSET Queue]
  BY SharingAssumption DEF IInv, Types
<1>3. /\ event'[e] \in EventType /\ event'[e].count = event[e].count + 1
      /\ event'[e].last = event'[e].count
      /\ \A d \in Event \ {e} : event'[d] = event[d]
  BY <1>1, <1>2 DEF EventType, Fulfilled
\* The only thread that uses the queue is not executing anything.
<1>4. OpsOf(q) \subseteq finished
  <2> SUFFICES ASSUME NEW i \in OpsOf(q), i \notin finished
      PROVE  FALSE
    OBVIOUS
  <2>1. i \in DOMAIN ops /\ ops[i].queue = q
    BY DEF OpsOf
  <2>2. PICK d \in Client : At(d) = "execute" /\ call[d].future = i
    BY <1>1, <2>1 DEF IInv, Executing
  <2>3. q \in uses[d]
    BY <2>1, <2>2 DEF IInv, Calls, CallFits
  <2>4. c = d
    BY <1>1, <2>3, SharingAssumption DEF IInv, Types
  <2> QED
    BY <1>1, <2>2, <2>4
<1>5. /\ prior'[e] = OpsOf(q) /\ \A d \in Event \ {e} : prior'[d] = prior[d]
      /\ OpsOf(q) \subseteq Nat
  BY <1>1, <1>2, Numbers DEF IInv, OpsOf
<1>6. Types'
  <2>1. event' \in [Event -> EventType] /\ prior' \in [Event -> SUBSET Nat]
    BY <1>1, <1>2, <1>3, <1>5
  <2> QED
    BY <1>1, <2>1 DEF IInv, Types
<1>7. Appends /\ Settles
  BY <1>1, NothingEnters DEF IInv, Settles
<1>8. Fifos' /\ InOrder'
  BY <1>1, <1>7, WorkerKept, QueueKeeps DEF IInv
<1>9. Signals'
  <2>1. \A d \in Event : event[d].count <= event'[d].count
    BY <1>2, <1>3 DEF EventType
  <2> QED
    BY <1>1, <1>6, <1>7, <2>1, KeepSignals DEF IInv
<1>10. Events'
  <2>1. \A d \in Event \ {e} : ~Complete(d) => event[d].future \notin finished'
    BY <1>1 DEF IInv, Events
  <2> QED
    BY <1>1, <1>3, <1>4, <1>5, <1>6, <1>7, <2>1, KeepEvents DEF IInv
<1> QED
  BY <1>1, <1>6, <1>7, <1>8, <1>9, <1>10, Assemble

LEMMA WaitForReadyKeeps ==
  ASSUME IInv, uses' = uses, NEW c \in Client, NEW q \in uses[c], NEW e \in Event,
         WaitForReady(c, q, e)
  PROVE  IInv'
<1>1. /\ UNCHANGED <<ops, fifo, worker, finished, ready, event, call, prior>>
      /\ q \in Queue /\ owed' = [owed EXCEPT ![q] = @ \cup prior[e]]
  BY Used DEF WaitForReady
<1>2. prior[e] \subseteq finished
  BY DEF WaitForReady, IInv, Events
<1>3. owed \in [Queue -> SUBSET Nat] /\ prior[e] \in SUBSET Nat
  BY DEF IInv, Types
<1>4. Types'
  BY <1>1, <1>3 DEF IInv, Types
<1>5. Appends /\ Settles
  BY <1>1, NothingEnters DEF IInv, Settles
<1>6. Fifos' /\ InOrder'
  BY <1>1, <1>5, WorkerKept, QueueKeeps DEF IInv
<1>7. Events' /\ Signals'
  BY <1>1, <1>4, <1>5, EventsStay
<1>8. \A p \in Queue : \A x \in owed'[p] \ owed[p] : x \in finished
  BY <1>1, <1>2, <1>3
<1> QED
  BY <1>1, <1>4, <1>5, <1>6, <1>7, <1>8, Assemble

LEMMA WaitForGetKeeps ==
  ASSUME IInv, uses' = uses, NEW c \in Client, WaitForGet(c)
  PROVE  IInv'
<1> DEFINE q == call[c].queue
<1>1. /\ UNCHANGED <<ops, fifo, worker, finished, ready, event, prior>>
      /\ At(c) = "get" /\ IsReady(call[c].future)
      /\ owed' = [owed EXCEPT ![q] = @ \cup call[c].owes]
      /\ call' = [call EXCEPT ![c] = Idle]
  BY DEF WaitForGet, Return
<1>2. /\ call \in [Client -> CallType] /\ call[c].owes \in SUBSET Nat
      /\ owed \in [Queue -> SUBSET Nat]
  BY DEF IInv, Types, CallType
<1>3. q \in Queue
  BY <1>1, BlockingAssumption DEF IInv, Calls, CallFits
<1>4. call[c].owes \subseteq finished
  BY <1>1, ReadyCovers DEF IInv, Waits
<1>5. Types'
  <2>1. call' \in [Client -> CallType] /\ owed' \in [Queue -> SUBSET Nat]
    BY <1>1, <1>2, <1>3, IdleCall
  <2> QED
    BY <1>1, <2>1 DEF IInv, Types
<1>6. Appends /\ Settles
  BY <1>1, NothingEnters DEF IInv, Settles
<1>7. Fifos' /\ InOrder'
  BY <1>1, <1>6, WorkerKept, QueueKeeps DEF IInv
<1>8. Events' /\ Signals'
  BY <1>1, <1>5, <1>6, EventsStay
<1>9. \A p \in Queue : \A x \in owed'[p] \ owed[p] : x \in finished
  BY <1>1, <1>2, <1>4
<1>10. call'[c].at = "idle" /\ \A d \in Client \ {c} : call'[d] = call[d]
  BY <1>1, <1>2 DEF Idle
<1>11. Moves(c)
  BY <1>10 DEF Moves, CallFits, At
<1> QED
  BY <1>1, <1>5, <1>6, <1>7, <1>8, <1>9, <1>10, <1>11, Assemble

LEMMA WaitForSubmitKeeps ==
  ASSUME IInv, uses' = uses, NEW c \in Client, WaitForSubmit(c)
  PROVE  IInv'
<1> DEFINE q == call[c].queue
           f == call[c].future
           r == [kind |-> "await", queue |-> q, event |-> call[c].event, count |-> 0,
                 future |-> f, after |-> owed[q]]
<1>1. /\ UNCHANGED <<worker, finished, ready, event, prior>>
      /\ At(c) = "submit"
      /\ ops' = Append(ops, r) /\ fifo' = [fifo EXCEPT ![q] = Append(@, NewOp)]
      /\ owed' = [owed EXCEPT ![q] = @ \cup call[c].owes]
      /\ call' = [call EXCEPT ![c] = Idle]
  BY DEF WaitForSubmit, Submit, Return
<1>2. /\ call \in [Client -> CallType] /\ call[c] \in CallType
      /\ owed \in [Queue -> SUBSET Nat]
  BY DEF IInv, Types
<1>3. q \in NonBlocking /\ q \in Queue
  BY <1>1 DEF IInv, Calls, CallFits, NonBlocking
<1>4. r \in OpType
  BY <1>2, <1>3 DEF OpType, Kinds, CallType
<1>5. r.queue = q /\ r.kind = "await" /\ r.after = owed[q] /\ r.future = f
  OBVIOUS
<1> HIDE DEF r
<1>6. /\ ops' \in Seq(OpType) /\ DOMAIN ops' = DOMAIN ops \cup {NewOp}
      /\ ops'[NewOp] = r /\ Appends
  BY <1>1, <1>4, Entering DEF IInv
<1>7. Fifos' /\ InOrder' /\ fifo' \in [Queue -> Seq(Nat)]
  BY <1>1, <1>3, <1>4, <1>5, QueueSubmits DEF IInv
<1>8. Types'
  <2>1. call' \in [Client -> CallType] /\ owed' \in [Queue -> SUBSET Nat]
    BY <1>1, <1>2, <1>3, IdleCall DEF CallType
  <2> QED
    BY <1>1, <1>6, <1>7, <2>1 DEF IInv, Types
<1>9. Settles
  BY <1>1 DEF Settles
<1>10. Events' /\ Signals'
  BY <1>1, <1>5, <1>6, <1>8, EventsStay
<1>11. NewOp \notin finished /\ NewOp \in Nat /\ NewOp' \in Nat /\ NewOp < NewOp'
  <2>1. NewOp \notin DOMAIN ops /\ NewOp \in Nat
    BY Numbers DEF IInv
  <2>2. NewOp' \in Nat /\ \A i \in DOMAIN ops' : i < NewOp'
    BY <1>8 DEF Types, NewOp
  <2>3. NewOp < NewOp'
    <3>1. \A i \in DOMAIN ops' : i = NewOp => i < NewOp'
      BY <2>2
    <3> QED
      BY <1>6, <3>1
  <2> QED
    BY <2>1, <2>2, <2>3 DEF IInv, Types
<1>12. Covers(f, call[c].owes)
  BY <1>1 DEF IInv, Waits
<1>13. ASSUME NEW p \in Queue, p = q, NEW x \in call[c].owes
       PROVE  Awaited(p, NewOp, x)'
  <2>1. \A g : g = f => Covers(g, {x})'
    <3>1. Covers(f, {x})
      BY <1>12 DEF Covers
    <3>2. f \in DOMAIN ops
      BY <1>12 DEF Covers, Deferred
    <3>3. Deferred(f) /\ f \in DOMAIN ops' /\ ops'[f] = ops[f] /\ {x} \subseteq Before(f)
      BY <1>6, <3>1, <3>2 DEF Covers, Appends
    <3>4. x \in DOMAIN ops /\ x \in DOMAIN ops' /\ ops'[x] = ops[x]
      BY <1>6, <3>3 DEF Before, Appends
    <3> QED
      BY <3>2, <3>3, <3>4 DEF Covers, Deferred, Before
  <2>2. PICK m \in Nat, n \in Nat, g \in {f} : m = NewOp /\ n = NewOp'
    BY <1>11
  <2>3. /\ m \in DOMAIN ops' /\ ops'[m].queue = p /\ ops'[m].kind = "await"
        /\ m \notin finished' /\ ops'[m].future = g /\ m < n
    BY <1>1, <1>5, <1>6, <1>11, <1>13, <2>2
  <2>4. Covers(g, {x})'
    BY <2>1, <2>2
  <2>5. Awaited(p, n, x)'
    BY <2>3, <2>4 DEF Awaited
  <2> QED
    BY <2>2, <2>5 DEF Awaited
<1>14. ASSUME NEW p \in Queue, NEW x \in owed'[p] \ owed[p]
       PROVE  p \in NonBlocking /\ Awaited(p, NewOp, x)'
  <2>1. p = q /\ x \in call[c].owes
    BY <1>1, <1>2, <1>14
  <2>2. Awaited(p, NewOp, x)'
    BY <1>13, <2>1
  <2> QED
    BY <1>3, <2>1, <2>2
<1>15. call'[c].at = "idle" /\ \A d \in Client \ {c} : call'[d] = call[d]
  BY <1>1, <1>2 DEF Idle
<1>16. Moves(c)
  BY <1>15 DEF Moves, CallFits, At
<1> QED
  BY <1>1, <1>3, <1>5, <1>6, <1>7, <1>8, <1>9, <1>10, <1>14, <1>15, <1>16, Assemble

LEMMA WorkerSetPromiseKeeps ==
  ASSUME IInv, uses' = uses, NEW q \in Queue, WorkerSetPromise(q)
  PROVE  IInv'
<1>1. /\ UNCHANGED <<ops, finished, event, call, prior, owed>>
      /\ worker[q] = "destroyed" /\ ready' = ready \cup {Front(q)}
      /\ worker' = [worker EXCEPT ![q] = "idle"]
  BY DEF WorkerSetPromise
<1>2. Fifos' /\ InOrder' /\ fifo' \in [Queue -> Seq(Nat)]
  BY QueuePops DEF IInv
<1>3. Front(q) \in finished
  BY <1>1 DEF IInv, Fifos
<1>4. Types'
  BY <1>1, <1>2, <1>3 DEF IInv, Types
<1>5. Appends /\ Settles
  BY <1>1, NothingEnters DEF IInv, Settles
<1>6. Events' /\ Signals'
  BY <1>1, <1>4, <1>5, EventsStay
<1> QED
  BY <1>1, <1>2, <1>4, <1>5, <1>6, Assemble

\* The end of the operation in front of a queue.
LEMMA FinishKeeps ==
  ASSUME IInv, uses' = uses, NEW q \in Queue, worker[q] = "run", WorkerFinish(q),
         event' \in [Event -> EventType], Events', Signals',
         ops[Front(q)].kind = "await" => IsReady(ops[Front(q)].future)
  PROVE  IInv'
<1>1. /\ UNCHANGED <<ops, fifo, ready, call, prior, owed>>
      /\ finished' = finished \cup {Front(q)}
      /\ worker' = [worker EXCEPT ![q] = "ran"]
  BY DEF WorkerFinish
<1>2. Fifos' /\ InOrder' /\ Appends
  BY QueueFinishes DEF IInv
<1>3. Front(q) \in DOMAIN ops
  BY FrontIsNext DEF IInv, Fifos, Deferred
<1>4. Types'
  BY <1>1, <1>3 DEF IInv, Types
<1>5. Settles
  BY <1>1 DEF Settles
<1> QED
  BY <1>1, <1>2, <1>4, <1>5, Assemble

\* The same for one that is no signal.
LEMMA NoSignalKeeps ==
  ASSUME IInv, uses' = uses, NEW q \in Queue, worker[q] = "run", WorkerFinish(q),
         event' = event, ops[Front(q)].kind # "signal",
         ops[Front(q)].kind = "await" => IsReady(ops[Front(q)].future)
  PROVE  IInv'
<1>1. /\ UNCHANGED <<ops, fifo, ready, call, prior, owed>>
      /\ finished' = finished \cup {Front(q)}
      /\ worker' = [worker EXCEPT ![q] = "ran"]
  BY DEF WorkerFinish
<1>2. Front(q) \in DOMAIN ops
  BY FrontIsNext DEF IInv, Fifos, Deferred
<1>3. Types'
  BY <1>1, <1>2 DEF IInv, Types
<1>4. Appends
  BY <1>1, NothingEnters DEF IInv
<1>5. Events' /\ Signals'
  BY <1>1, <1>3, <1>4, EventsStay
<1>6. event' \in [Event -> EventType]
  BY DEF IInv, Types
<1> QED
  BY <1>5, <1>6, FinishKeeps

LEMMA RunSignalKeeps ==
  ASSUME IInv, uses' = uses, NEW q \in Queue, RunSignal(q)
  PROVE  IInv'
<1> DEFINE f == Front(q)
           e == ops[f].event
           n == ops[f].count
<1>1. /\ worker[q] = "run" /\ ops[f].kind = "signal" /\ WorkerFinish(q)
      /\ event' = IF n = event[e].count
                    THEN [event EXCEPT ![e].last = IF n > @ THEN n ELSE @]
                    ELSE event
  BY DEF RunSignal, Signalling
<1>2. /\ UNCHANGED <<ops, fifo, ready, call, prior, owed>>
      /\ finished' = finished \cup {f}
      /\ worker' = [worker EXCEPT ![q] = "ran"]
  BY <1>1 DEF WorkerFinish
<1>3. f \in DOMAIN ops /\ Deferred(f) /\ Before(f) \subseteq finished
  BY <1>1, FrontIsNext DEF IInv, Fifos, Deferred
<1>4. /\ e \in Event /\ n <= event[e].count /\ n \in Nat
      /\ event \in [Event -> EventType] /\ event[e] \in EventType
  BY <1>1, <1>3, Numbers DEF IInv, Signals, Types, OpType
<1>5. /\ event' \in [Event -> EventType]
      /\ \A d \in Event : event'[d].count = event[d].count
      /\ n = event[e].count => event'[e].last = event'[e].count
      /\ n # event[e].count => event'[e] = event[e]
      /\ \A d \in Event \ {e} : event'[d] = event[d]
  <2>1. CASE n = event[e].count
    <3>1. event[e].last <= event[e].count
      BY <1>4 DEF IInv, Events
    <3>2. PICK g \in Event, m \in Nat : g = e /\ m = IF n > event[e].last THEN n ELSE event[e].last
      BY <1>4 DEF EventType
    <3>3. m = event[e].count
      BY <1>4, <2>1, <3>1, <3>2 DEF EventType
    <3>4. event' = [event EXCEPT ![g].last = m]
      BY <1>1, <2>1, <3>2
    <3>5. /\ event' \in [Event -> EventType]
          /\ \A d \in Event : event'[d].count = event[d].count
          /\ event'[g].last = m /\ \A d \in Event \ {g} : event'[d] = event[d]
      BY <1>4, <3>4 DEF EventType
    <3> QED
      BY <1>4, <2>1, <3>2, <3>3, <3>5
  <2>2. CASE n # event[e].count
    BY <1>1, <1>4, <2>2
  <2> QED
    BY <2>1, <2>2
<1>6. Types'
  BY <1>2, <1>3, <1>5 DEF IInv, Types
<1>7. Appends
  BY <1>2, NothingEnters DEF IInv
<1>8. Signals'
  <2>1. \A d \in Event : event[d].count <= event'[d].count
    BY <1>4, <1>5 DEF EventType
  <2> QED
    BY <1>2, <1>6, <1>7, <2>1, KeepSignals DEF IInv
\* The signal with the event's count is the one m_future belongs to.
<1>9. ASSUME n = event[e].count
      PROVE  prior[e] \subseteq finished
  <2>1. CASE Complete(e)
    BY <1>4, <2>1 DEF IInv, Events
  <2>2. CASE ~Complete(e)
    <3>1. /\ event[e].future \in DOMAIN ops /\ ops[event[e].future].kind = "signal"
          /\ ops[event[e].future].event = e /\ ops[event[e].future].count = n
          /\ prior[e] \subseteq Before(event[e].future)
      BY <1>4, <1>9, <2>2 DEF IInv, Events, Covers, Deferred
    <3>2. event[e].future = f
      BY <1>1, <1>3, <3>1 DEF IInv, Signals
    <3> QED
      BY <1>3, <3>1, <3>2
  <2> QED
    BY <2>1, <2>2
<1>10. ASSUME NEW d \in Event, event'[d] = event[d], ~Complete(d)
       PROVE  event[d].future \notin finished'
  <2>1. /\ event[d].future \notin finished
        /\ ops[event[d].future].event = d
        /\ ops[event[d].future].count = event[d].count
    BY <1>10 DEF IInv, Events
  <2>2. event[d].last # event[d].count
    BY <1>10 DEF Complete
  <2>3. event[d].future # f
    BY <1>5, <1>10, <2>1, <2>2
  <2> QED
    BY <1>2, <2>1, <2>3
<1>11. Events'
  <2>1. \A d \in Event : prior'[d] = prior[d]
    BY <1>2
  <2>2. ASSUME NEW d \in Event
        PROVE  \/ /\ event'[d] = event[d] /\ prior'[d] = prior[d]
                  /\ ~Complete(d) => event[d].future \notin finished'
               \/ /\ event'[d].last = event'[d].count
                  /\ prior'[d] \subseteq finished'
    <3>1. CASE d = e /\ n = event[e].count
      BY <1>2, <1>5, <1>9, <2>1, <3>1
    <3>2. CASE ~(d = e /\ n = event[e].count)
      BY <1>5, <1>10, <2>1, <3>2
    <3> QED
      BY <3>1, <3>2
  <2>3. finished \subseteq finished'
    BY <1>2
  <2> QED
    BY <1>6, <1>7, <2>2, <2>3, KeepEvents DEF IInv
<1> QED
  BY <1>1, <1>5, <1>8, <1>11, FinishKeeps

-----------------------------------------------------------------------------
(* The theorems.                                                            *)

LEMMA InitIInv == Init => IInv
<1> SUFFICES ASSUME Init PROVE IInv
  OBVIOUS
<1> USE DEF Init
<1>1. DOMAIN ops = {}
  OBVIOUS
<1>2. Types
  BY <1>1, IdleCall DEF Types, EventType, NoState
<1>3. \A c \in Client : call[c].at = "idle"
  BY DEF Idle
<1>4. \A e \in Event : Complete(e) /\ event[e].last = event[e].count /\ event[e].last = 0
                       /\ prior[e] = {}
  BY DEF Complete
<1>5. \A q \in Queue : DOMAIN fifo[q] = {} /\ worker[q] = "idle" /\ owed[q] = {}
  OBVIOUS
<1>6. Fifos /\ InOrder /\ Executing /\ Signals /\ Debts
  BY <1>1, <1>5 DEF Fifos, InOrder, Executing, Signals, Debts
<1>7. Calls /\ Waits
  BY <1>3 DEF Calls, CallFits, Waits, At
<1>8. Events
  BY <1>4 DEF Events
<1> QED
  BY <1>2, <1>6, <1>7, <1>8 DEF IInv

LEMMA NextIInv == IInv /\ [Next]_vars => IInv'
<1> SUFFICES ASSUME IInv, [Next]_vars PROVE IInv'
  OBVIOUS
<1>1. CASE UNCHANGED vars
  <2>1. UNCHANGED <<uses, ops, fifo, worker, finished, ready, event, call, prior, owed>>
    BY <1>1 DEF vars
  <2>2. call' \in [Client -> CallType]
    BY <2>1 DEF IInv, Types
  <2> QED
    BY <2>1, <2>2, WorkerKept, QuietStep
<1>2. ASSUME NEW c \in Client, NewCall(c)
      PROVE  IInv'
  <2>1. uses' = uses
    BY <1>2 DEF NewCall
  <2>2. ASSUME NEW q \in uses[c], EnqueueWork(c, q) \/ EnqueueBlockingWork(c, q)
        PROVE  IInv'
    BY <2>1, <2>2, EnqueueWorkKeeps, EnqueueBlockingWorkKeeps
  <2>3. ASSUME NEW q \in uses[c], NEW e \in Event,
               \/ EnqueueEvent(c, q, e) \/ EnqueueEventBlocking(c, q, e)
               \/ WaitForReady(c, q, e) \/ WaitForBegin(c, q, e)
        PROVE  IInv'
    BY <2>1, <2>3, EnqueueEventKeeps, EnqueueEventBlockingKeeps, WaitForReadyKeeps,
       WaitForBeginKeeps
  <2>4. ASSUME NEW e \in Event, WaitBegin(c, e) \/ DropHandle(c, e)
        PROVE  IInv'
    BY <2>1, <2>4, WaitBeginKeeps, DropHandleKeeps
  <2> QED
    BY <1>2, <2>2, <2>3, <2>4 DEF NewCall
<1>3. ASSUME NEW c \in Client, CallStep(c)
      PROVE  IInv'
  BY <1>3, BlockingLockKeeps, BlockingReturnKeeps, WaitForSubmitKeeps, WaitForGetKeeps,
     WaitGetKeeps, WaitRelockKeeps, WaitReturnKeeps DEF CallStep
<1>4. ASSUME NEW q \in Queue, WorkerStep(q)
      PROVE  IInv'
  <2>1. uses' = uses
    BY <1>4 DEF WorkerStep
  <2>2. ASSUME RunWork(q) \/ RunAwait(q)
        PROVE  IInv'
    <3>1. /\ worker[q] = "run" /\ WorkerFinish(q) /\ event' = event
          /\ ops[Front(q)].kind # "signal"
          /\ ops[Front(q)].kind = "await" => IsReady(ops[Front(q)].future)
      BY <2>2 DEF RunWork, RunAwait
    <3> QED
      BY <2>1, <3>1, NoSignalKeeps
  <2> QED
    BY <1>4, <2>1, <2>2, WorkerTakeKeeps, RunSignalKeeps, WorkerDestroyTaskKeeps,
       WorkerSetPromiseKeeps DEF WorkerStep
<1>5. CASE Terminated
  BY <1>1, <1>5 DEF Terminated
<1> QED
  BY <1>1, <1>2, <1>3, <1>4, <1>5 DEF Next

THEOREM Invariance == Spec => []IInv
<1> QED
  BY InitIInv, NextIInv, PTL DEF Spec

(* An event is complete only when what was in front of its last enqueue is  *)
(* finished (Event.hpp: isReady; Queue.hpp: the task of an enqueued event). *)
THEOREM EventsFollowTheirWork == Spec => []SignalledAfterPreceding
<1>1. IInv => SignalledAfterPreceding
  BY DEF IInv, Events, SignalledAfterPreceding
<1> QED
  BY <1>1, Invariance, PTL

(* wait(event) returns only when the work the event stood for when the call *)
(* began is finished, whatever was enqueued meanwhile (Event.hpp: wait).    *)
THEOREM WaitsCoverTheirWork == Spec => []WaitCoversPreceding
<1>1. IInv => WaitCoversPreceding
  BY DEF IInv, Waits, WaitCoversPreceding
<1> QED
  BY <1>1, Invariance, PTL

(* An operation behind waitFor(event) starts only when the work the event   *)
(* stood for is finished (Queue.hpp: WaitFor).                              *)
THEOREM LaterWorkAwaits == Spec => []LaterWorkAwaitsEvent
<1>1. IInv => LaterWorkAwaitsEvent
  <2> SUFFICES ASSUME IInv PROVE LaterWorkAwaitsEvent
    OBVIOUS
  <2>1. ASSUME NEW i \in DOMAIN ops, Started(i), NEW x \in ops[i].after, x \notin finished
        PROVE  FALSE
    <3>1. Deferred(i) /\ Awaited(ops[i].queue, i, x)
      BY <2>1 DEF IInv, Debts
    <3>2. PICK a \in DOMAIN ops : ops[a].queue = ops[i].queue /\ a \notin finished /\ a < i
      BY <3>1 DEF Awaited
    <3>3. a \in Before(i)
      BY <3>2 DEF Before
    <3>4. CASE i \in finished
      BY <3>1, <3>2, <3>3, <3>4 DEF IInv, InOrder
    <3>5. CASE i \notin finished
      <4>1. PICK q \in Queue : q = ops[i].queue /\ q \in NonBlocking
        BY <3>1 DEF Deferred, NonBlocking
      <4>2. i = Front(q) /\ worker[q] # "idle"
        BY <2>1, <3>5, <4>1 DEF Started, NonBlocking
      <4>3. Before(i) \subseteq finished
        BY <4>2, FrontIsNext DEF IInv, Fifos
      <4> QED
        BY <3>2, <3>3, <4>3
    <3> QED
      BY <3>4, <3>5
  <2>2. ASSUME NEW q \in Queue, ~Awaiting(q), NEW x \in owed[q], x \notin finished
        PROVE  FALSE
    <3>1. Awaited(q, NewOp, x)
      BY <2>2 DEF IInv, Debts
    <3> QED
      BY <2>2, <3>1 DEF Awaited, Awaiting
  <2> QED
    BY <2>1, <2>2 DEF LaterWorkAwaitsEvent
<1> QED
  BY <1>1, Invariance, PTL

(* An event nobody refers to is complete: ~Event does not block, on         *)
(* whatever thread it runs (Event.hpp: ~Event).                             *)
THEOREM DestructorsDoNotBlock == Spec => []DestructorNeverBlocks
<1>1. IInv => DestructorNeverBlocks
  <2> SUFFICES ASSUME IInv, NEW e \in Event, ~Complete(e) PROVE Referenced(e)
    BY DEF DestructorNeverBlocks
  <2>1. PICK i \in DOMAIN ops : /\ i = event[e].future /\ Deferred(i) /\ i \notin finished
                                /\ ops[i].event = e
    BY DEF IInv, Events, Covers, Deferred
  <2>2. PICK q \in Queue : q = ops[i].queue
    BY <2>1 DEF Deferred, NonBlocking
  <2>3. PICK k \in DOMAIN fifo[q] : fifo[q][k] = i
    BY <2>1, <2>2 DEF IInv, InOrder
  <2>4. k = 1 => worker[q] # "destroyed"
    <3>1. fifo[q] # <<>> /\ fifo[q] \in Seq(Nat)
      BY <2>3 DEF IInv, Types
    <3> QED
      BY <2>1, <2>3, <3>1, FrontIsNext DEF IInv, Fifos
  <2> QED
    BY <2>1, <2>2, <2>3, <2>4 DEF Referenced
<1> QED
  BY <1>1, Invariance, PTL
=============================================================================
