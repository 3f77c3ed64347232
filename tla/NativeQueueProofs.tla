-------------------------- MODULE NativeQueueProofs --------------------------
(***************************************************************************)
(* The queues on a vendor's in-order stream keep their order, for any      *)
(* number of operations and threads: what returns, what reports emptiness, *)
(* what is freed and what is destroyed has the work before it behind it.   *)
(*                                                                         *)
(* The argument: the stream holds the operations in the order they were    *)
(* submitted, and an operation that is not finished is still in it, or is  *)
(* a deferred one and waits in the callback thread.  So whoever finds an   *)
(* operation gone from the stream finds all before it done.  A deferred    *)
(* operation comes to the callback thread when it is at the front, with    *)
(* all before it done; a host operation keeps its place in the stream      *)
(* until its future is set.                                                *)
(***************************************************************************)
EXTENDS NativeQueue, SequenceTheorems, TLAPS

OpKinds == {"kernel", "frame", "host", "deferred", "event", "await", "alloc", "free"}
OpType == [kind : OpKinds, buf : BOOLEAN]
TaskType == [op : Nat, owns : BOOLEAN]

InStream(i) == \E k \in DOMAIN stream : stream[k] = i
Queued(i) == \E k \in DOMAIN tasks : tasks[k].op = i
Done(i) == i \in finished \/ ops[i].kind = "deferred"

Types ==
  /\ api \in Apis /\ blocking \in BOOLEAN
  /\ ops \in Seq(OpType)
  /\ stream \in Seq(Nat) /\ entered \in BOOLEAN /\ signalled \in BOOLEAN
  /\ tasks \in Seq(TaskType) /\ phase \in {"idle", "run", "destroy"}
  /\ finished \subseteq Ops /\ promised \subseteq finished
  /\ last \in Ops \cup {0} /\ event \in Ops \cup {0}
  /\ handles \subseteq Client /\ owners \subseteq Client
  /\ memory \in {"none", "live", "freeing", "freed"}
  /\ queue \in {"alive", "sync", "members", "dead"}
  /\ destroyer \in Client \cup {Callback, Nobody}
  /\ pc \in [Client -> {"idle", "submitted", "block", "wait"}]
  /\ target \in [Client -> Ops \cup {0}]
  /\ raced \in BOOLEAN /\ crashed \in BOOLEAN

\* Operations are in the stream in the order of submission, ...
Increasing ==
  /\ \A k \in DOMAIN stream : stream[k] \in Ops
  /\ \A j, k \in DOMAIN stream : j < k => stream[j] < stream[k]

\* ... until they are done, or handed to the callback thread.
Pending ==
  \A i \in Ops : i \in finished \/ InStream(i) \/ (ops[i].kind = "deferred" /\ Queued(i))

\* The runtime waits for a host function at the front only.
Entered == entered => stream # <<>> /\ ops[Front].kind = "host"

\* A task of the callback thread is deferred, with all before it done, or the
\* host function at the front of the stream.
Submitted(i) ==
  \/ ops[i].kind = "deferred" /\ ~InStream(i) /\ \A j \in 1 .. i - 1 : Done(j)
  \/ ops[i].kind = "host" /\ entered /\ i = Front

Tasks ==
  /\ \A k \in DOMAIN tasks : tasks[k].op # 0 =>
       tasks[k].op \in Ops /\ tasks[k].op \notin promised /\ Submitted(tasks[k].op)
  /\ \A j, k \in DOMAIN tasks : tasks[j].op # 0 /\ tasks[j].op = tasks[k].op => j = k

Promises == \A i \in promised : InStream(i) => entered /\ i = Front

Phases ==
  /\ phase # "idle" => tasks # <<>>
  /\ phase = "destroy" /\ tasks[1].op # 0 => tasks[1].op \in finished

Order == Increasing /\ Pending /\ Entered /\ Tasks /\ Promises /\ Phases

\* Who gives up the buffer leaves no operation that could still use it behind
\* the one that frees it.
Memory ==
  /\ owners # {} => memory = "live"
  /\ (\E i \in Ops : ops[i].kind = "free") \/ Queued(0) => memory \in {"freeing", "freed"}
  /\ memory \in {"freeing", "freed"} => \A i \in Ops : Keeps(i) => i \in finished
  /\ \A i \in Ops : ops[i].buf => ops[i].kind \in {"kernel", "deferred"}
  /\ \A i, f \in Ops : ops[i].buf /\ ops[f].kind = "free" => i < f
  /\ MemoryOutlivesItsUses

\* A queue that is being destroyed has no reference left, and its stream runs
\* empty but for the release of memory.
Lifetime ==
  /\ queue # "alive" => ~Referenced
  /\ queue \in {"members", "dead"} => \A k \in DOMAIN stream : ops[stream[k]].kind = "free"

\* SYCL: what is behind the last event is not tracked, or its thread is about
\* to store its event.
Tracked ==
  /\ \A c \in Client : pc[c] = "submitted" => api = "sycl"
  /\ api = "sycl" /\ ~raced => \A i \in Ops :
       \/ i <= last
       \/ ops[i].kind \in {"event", "frame", "free"}
       \/ \E c \in Client : pc[c] = "submitted" /\ target[c] = i
  /\ \A i \in Ops : ops[i].kind = "frame" => "frame" \in Kinds

IInv == Types /\ Order /\ Memory /\ Lifetime /\ Tracked

-----------------------------------------------------------------------------
(* How the stream and the tasks of the callback thread change.              *)

\* The front of the stream is the first operation that is left in it.
LEMMA FrontIsFirst ==
  ASSUME Types, Increasing, stream # <<>>
  PROVE  /\ InStream(Front) /\ Front \in Ops
         /\ \A i : InStream(i) => i \in Ops /\ Front <= i
<1>1. stream \in Seq(Nat) /\ DOMAIN stream = 1 .. Len(stream) /\ Len(stream) \in Nat /\ Len(stream) # 0
  BY DEF Types
<1>2. 1 \in DOMAIN stream
  BY <1>1
<1>3. \A k \in DOMAIN stream : k = 1 \/ 1 < k
  BY <1>1
<1> QED
  BY <1>1, <1>2, <1>3 DEF Increasing, InStream, Front

LEMMA StreamIsFilled ==
  ASSUME Types
  PROVE  stream = <<>> <=> \A i : ~InStream(i)
<1>1. stream \in Seq(Nat)
  BY DEF Types
<1>2. stream = <<>> => DOMAIN stream = {}
  BY <1>1
<1>3. stream # <<>> => 1 \in DOMAIN stream
  BY <1>1
<1> QED
  BY <1>2, <1>3 DEF InStream

LEMMA StreamAdvances ==
  ASSUME Types, Increasing, stream # <<>>, Complete, ops' = ops
  PROVE  /\ stream' \in Seq(Nat) /\ Increasing'
         /\ \A i : InStream(i)' <=> InStream(i) /\ i # Front
         /\ \A k \in DOMAIN stream' : \E j \in DOMAIN stream : stream'[k] = stream[j]
<1>1. /\ stream \in Seq(Nat) /\ stream' = Tail(stream) /\ Front = stream[1]
      /\ DOMAIN stream = 1 .. Len(stream) /\ Len(stream) \in Nat /\ Len(stream) # 0
  BY DEF Types, Complete, Front
<1>2. /\ stream' \in Seq(Nat) /\ DOMAIN stream' = 1 .. Len(stream) - 1
      /\ \A k \in 1 .. Len(stream) - 1 : stream'[k] = stream[k + 1]
  BY <1>1
<1>3. \A k \in DOMAIN stream' : k + 1 \in DOMAIN stream /\ stream'[k] = stream[k + 1] /\ 1 < k + 1
  BY <1>1, <1>2
<1>4. \A k \in DOMAIN stream : k = 1 \/ (k - 1 \in DOMAIN stream' /\ stream'[k - 1] = stream[k])
  BY <1>1, <1>2
<1>5. Increasing'
  <2>1. \A k \in DOMAIN stream' : stream'[k] \in Ops'
    BY <1>3 DEF Increasing, Ops
  <2>2. \A j, k \in DOMAIN stream' : j < k => stream'[j] < stream'[k]
    BY <1>2, <1>3 DEF Increasing
  <2> QED
    BY <2>1, <2>2 DEF Increasing
<1>6. ASSUME NEW i, InStream(i)' PROVE InStream(i) /\ i # Front
  <2>1. PICK k \in DOMAIN stream' : stream'[k] = i
    BY <1>6 DEF InStream
  <2>2. k + 1 \in DOMAIN stream /\ stream[k + 1] = i /\ 1 \in DOMAIN stream /\ 1 < k + 1
    BY <2>1, <1>1, <1>3
  <2>3. stream[1] < i /\ stream[1] \in Ops
    BY <2>2 DEF Increasing
  <2>4. i \in Nat /\ stream[1] \in Nat
    BY <2>2, <1>1
  <2> QED
    BY <2>2, <2>3, <2>4, <1>1 DEF InStream
<1>7. ASSUME NEW i, InStream(i), i # Front PROVE InStream(i)'
  BY <1>1, <1>4, <1>7 DEF InStream
<1> QED
  BY <1>2, <1>3, <1>5, <1>6, <1>7

\* Nothing is submitted, or one operation.
Grows == (ops' = ops /\ stream' = stream) \/ \E op \in OpType : Submit(op)

LEMMA Growing ==
  ASSUME Types, Increasing, Grows
  PROVE  /\ ops' \in Seq(OpType) /\ stream' \in Seq(Nat) /\ Increasing'
         /\ Ops \subseteq Ops' /\ \A i \in Ops : ops'[i] = ops[i]
         /\ \A i \in Ops : InStream(i)' <=> InStream(i)
         /\ \A i \in Ops' : i \in Ops \/ (i = Len(ops) + 1 /\ InStream(i)')
         /\ stream # <<>> => stream' # <<>> /\ Front' = Front
<1>0. /\ ops \in Seq(OpType) /\ stream \in Seq(Nat) /\ Ops = 1 .. Len(ops) /\ Len(ops) \in Nat
      /\ Ops' = 1 .. Len(ops')
      /\ DOMAIN stream = 1 .. Len(stream) /\ Len(stream) \in Nat
      /\ \A k \in DOMAIN stream : stream[k] \in 1 .. Len(ops)
  BY DEF Types, Ops, Increasing
<1>1. CASE ops' = ops /\ stream' = stream
  BY <1>0, <1>1 DEF InStream, Front, Increasing
<1>2. CASE \E op \in OpType : Submit(op)
  <2>1. PICK op \in OpType : ops' = Append(ops, op) /\ stream' = Append(stream, Len(ops) + 1)
    BY <1>2 DEF Submit
  <2>2. /\ ops' \in Seq(OpType) /\ Len(ops') = Len(ops) + 1
        /\ \A i \in 1 .. Len(ops) : ops'[i] = ops[i]
    BY <1>0, <2>1
  <2>3. /\ stream' \in Seq(Nat) /\ DOMAIN stream' = 1 .. Len(stream) + 1
        /\ stream'[Len(stream) + 1] = Len(ops) + 1
        /\ \A k \in 1 .. Len(stream) : stream'[k] = stream[k]
    BY <1>0, <2>1
  <2>4. \A k \in DOMAIN stream' : \/ k \in DOMAIN stream /\ stream'[k] = stream[k]
                                  \/ k = Len(stream) + 1 /\ stream'[k] = Len(ops) + 1
    BY <1>0, <2>3
  <2>5. \A k \in DOMAIN stream : k \in DOMAIN stream' /\ stream'[k] = stream[k]
    BY <1>0, <2>3
  <2>6. Increasing'
    <3>1. \A k \in DOMAIN stream' : stream'[k] \in Ops'
      BY <1>0, <2>2, <2>4
    <3>2. ASSUME NEW j \in DOMAIN stream', NEW k \in DOMAIN stream', j < k
          PROVE  stream'[j] < stream'[k]
      <4>1. j \in DOMAIN stream /\ stream'[j] = stream[j] /\ stream[j] \in 1 .. Len(ops)
        BY <1>0, <2>3, <3>2
      <4>2. CASE k \in DOMAIN stream /\ stream'[k] = stream[k]
        BY <3>2, <4>1, <4>2 DEF Increasing
      <4>3. CASE k = Len(stream) + 1 /\ stream'[k] = Len(ops) + 1
        BY <1>0, <4>1, <4>3
      <4> QED
        BY <2>4, <4>2, <4>3
    <3> QED
      BY <3>1, <3>2 DEF Increasing
  <2>7. \A i \in Ops : InStream(i)' <=> InStream(i)
    <3>1. \A i \in Ops : i # Len(ops) + 1
      BY <1>0
    <3> QED
      BY <2>4, <2>5, <3>1 DEF InStream
  <2>8. \A i \in Ops' : i \in Ops \/ (i = Len(ops) + 1 /\ InStream(i)')
    <3>1. Len(stream) + 1 \in DOMAIN stream'
      BY <1>0, <2>3
    <3>2. PICK n : n = Len(ops) + 1
      OBVIOUS
    <3>3. InStream(n)'
      BY <2>3, <3>1, <3>2 DEF InStream
    <3>4. \A i \in Ops' : i \in Ops \/ i = n
      BY <1>0, <2>2, <3>2
    <3> QED
      BY <3>2, <3>3, <3>4
  <2>9. stream # <<>> => stream' # <<>> /\ Front' = Front
    <3>1. stream # <<>> => 1 \in DOMAIN stream
      BY <1>0
    <3>2. stream' # <<>>
      BY <1>0, <2>3
    <3> QED
      BY <2>5, <3>1, <3>2 DEF Front
  <2> QED
    BY <1>0, <2>2, <2>3, <2>6, <2>7, <2>8, <2>9
<1> QED
  BY <1>1, <1>2 DEF Grows

\* A task is added behind the others.
LEMMA TaskAdded ==
  ASSUME Types, NEW task \in TaskType, NEW before \in Seq(TaskType), tasks' = Append(before, task)
  PROVE  /\ tasks' \in Seq(TaskType) /\ tasks' # <<>>
         /\ \A k \in DOMAIN tasks' : \/ k \in DOMAIN before /\ tasks'[k] = before[k]
                                     \/ k = Len(before) + 1 /\ tasks'[k] = task
         /\ \A k \in DOMAIN before : k \in DOMAIN tasks' /\ tasks'[k] = before[k] /\ k # Len(before) + 1
         /\ Len(before) + 1 \in DOMAIN tasks' /\ tasks'[Len(before) + 1] = task
<1>1. /\ tasks' \in Seq(TaskType) /\ DOMAIN tasks' = 1 .. Len(before) + 1 /\ Len(before) \in Nat
      /\ DOMAIN before = 1 .. Len(before) /\ tasks'[Len(before) + 1] = task
      /\ \A k \in 1 .. Len(before) : tasks'[k] = before[k]
  OBVIOUS
<1>2. tasks' # <<>>
  BY <1>1
<1> QED
  BY <1>1, <1>2

\* The tasks behind the one in front.
LEMMA TailOfTasks ==
  ASSUME Types, tasks # <<>>
  PROVE  /\ Tail(tasks) \in Seq(TaskType) /\ tasks[1] \in TaskType /\ 1 \in DOMAIN tasks
         /\ \A k \in DOMAIN Tail(tasks) : k + 1 \in DOMAIN tasks /\ k \in Nat /\ k + 1 # 1
                                          /\ Tail(tasks)[k] = tasks[k + 1]
         /\ \A k \in DOMAIN tasks : k = 1 \/ (k - 1 \in DOMAIN Tail(tasks) /\ Tail(tasks)[k - 1] = tasks[k])
<1>1. /\ tasks \in Seq(TaskType) /\ DOMAIN tasks = 1 .. Len(tasks) /\ Len(tasks) \in Nat /\ Len(tasks) # 0
  BY DEF Types
<1>2. /\ Tail(tasks) \in Seq(TaskType) /\ DOMAIN Tail(tasks) = 1 .. Len(tasks) - 1
      /\ \A k \in 1 .. Len(tasks) - 1 : Tail(tasks)[k] = tasks[k + 1]
  BY <1>1
<1> QED
  BY <1>1, <1>2

-----------------------------------------------------------------------------
(* What keeps the parts of the invariant.                                   *)

\* Operations and tasks are added, and tasks that are done leave.
LEMMA OrderGrows ==
  ASSUME Types, Order, Grows, entered' = entered, tasks' \in Seq(TaskType),
         finished \subseteq finished', finished' \subseteq Ops',
         \A i : Queued(i)' /\ i # 0 => Queued(i) /\ i \notin promised',
         \A j, k \in DOMAIN tasks' : tasks'[j].op # 0 /\ tasks'[j].op = tasks'[k].op => j = k,
         \A i : Queued(i) /\ i # 0 => Queued(i)' \/ i \in finished',
         \A i \in promised' : i # 0 /\ (i \in promised \/ Queued(i)),
         Phases'
  PROVE  Order'
<1>0. /\ Increasing' /\ Ops \subseteq Ops' /\ (\A i \in Ops : ops'[i] = ops[i])
      /\ (\A i \in Ops : InStream(i)' <=> InStream(i))
      /\ (\A i \in Ops' : i \in Ops \/ InStream(i)')
      /\ (stream # <<>> => stream' # <<>> /\ Front' = Front)
  BY Growing DEF Order
<1>1. \A i : i # 0 /\ Queued(i) => i \in Ops /\ Submitted(i)
  BY DEF Order, Tasks, Queued
<1>2. entered => stream # <<>> /\ Front \in Ops /\ ops[Front].kind = "host"
  BY FrontIsFirst DEF Order, Entered
<1>3. Pending'
  <2>1. \A i \in Ops' : i # 0
    BY DEF Ops
  <2>2. \A i \in Ops : i \in finished' \/ InStream(i)' \/ (ops'[i].kind = "deferred" /\ Queued(i)')
    BY <1>0, <2>1 DEF Order, Pending
  <2> QED
    BY <1>0, <2>2 DEF Pending
<1>4. Entered'
  BY <1>0, <1>2 DEF Entered
<1>5. ASSUME NEW i, i # 0, Queued(i) PROVE Submitted(i)'
  <2>1. i \in Ops /\ Submitted(i) /\ ops'[i] = ops[i]
    BY <1>0, <1>1, <1>5
  <2>2. CASE ops[i].kind = "deferred" /\ ~InStream(i) /\ \A j \in 1 .. i - 1 : Done(j)
    <3>1. \A j \in 1 .. i - 1 : j \in Ops
      BY <2>1 DEF Ops, Types
    <3>2. \A j \in 1 .. i - 1 : Done(j)'
      BY <1>0, <2>2, <3>1 DEF Done
    <3> QED
      BY <1>0, <2>1, <2>2, <3>2 DEF Submitted
  <2>3. CASE ops[i].kind = "host" /\ entered /\ i = Front
    BY <1>0, <1>2, <2>1, <2>3 DEF Submitted
  <2> QED
    BY <2>1, <2>2, <2>3 DEF Submitted
<1>6. Tasks'
  <2>1. ASSUME NEW k \in DOMAIN tasks', tasks'[k].op # 0
        PROVE  tasks'[k].op \in Ops' /\ tasks'[k].op \notin promised' /\ Submitted(tasks[k].op)'
    <3>1. PICK i : i = tasks'[k].op
      OBVIOUS
    <3>2. Queued(i)'
      BY <3>1 DEF Queued
    <3>3. i \in Ops' /\ i \notin promised' /\ Submitted(i)'
      BY <1>0, <1>1, <1>5, <2>1, <3>1, <3>2
    <3> QED
      BY <3>1, <3>3 DEF Submitted, InStream, Done
  <2> QED
    BY <2>1 DEF Tasks
<1>7. Promises'
  <2>1. ASSUME NEW i \in promised', InStream(i)' PROVE entered' /\ i = Front'
    <3>1. i \in Ops
      BY <1>1 DEF Types
    <3>2. InStream(i)
      BY <1>0, <2>1, <3>1
    <3>3. entered /\ i = Front
      BY <1>1, <3>2 DEF Order, Promises, Submitted
    <3> QED
      BY <1>0, <1>2, <3>3
  <2> QED
    BY <2>1 DEF Promises
<1> QED
  BY <1>0, <1>3, <1>4, <1>6, <1>7 DEF Order

\* The front operation is done.
LEMMA OrderCompletes ==
  ASSUME Types, Order, stream # <<>>, ~entered, Complete, ops' = ops, entered' = entered,
         UNCHANGED <<phase, promised>>, finished \subseteq finished',
         \A i : i = Front => i \in finished' \/ (ops[i].kind = "deferred" /\ Queued(i)'),
         tasks' \in Seq(TaskType),
         \/ tasks' = tasks
         \/ \E owns \in BOOLEAN : tasks' = Append(tasks, Task(Front, owns)) /\ ops[Front].kind = "deferred"
  PROVE  Order'
<1>0. /\ Increasing' /\ (\A i : InStream(i)' <=> InStream(i) /\ i # Front)
      /\ (InStream(Front) /\ Front \in Ops /\ Front # 0 /\ Front \in Nat)
      /\ (\A i : InStream(i) => i \in Ops /\ Front <= i) /\ Ops' = Ops
  BY StreamAdvances, FrontIsFirst DEF Order, Ops
<1>1. /\ \A i : i # 0 /\ Queued(i) => i \in Ops /\ Submitted(i) /\ i \notin promised
      /\ \A i : i # 0 /\ Queued(i) => i # Front
  BY <1>0 DEF Order, Tasks, Queued, Submitted
<1>2. \A i : Queued(i) => Queued(i)'
  <2>1. CASE tasks' = tasks
    BY <2>1 DEF Queued
  <2>2. CASE \E owns \in BOOLEAN : tasks' = Append(tasks, Task(Front, owns))
    <3>1. PICK owns \in BOOLEAN : tasks' = Append(tasks, Task(Front, owns))
      BY <2>2
    <3>2. Task(Front, owns) \in TaskType /\ tasks \in Seq(TaskType)
      BY <1>0 DEF Task, TaskType, Types
    <3> QED
      BY <3>1, <3>2, TaskAdded DEF Queued
  <2> QED
    BY <2>1, <2>2
<1>3. Pending'
  <2>1. ASSUME NEW i \in Ops PROVE i \in finished' \/ InStream(i)' \/ (ops'[i].kind = "deferred" /\ Queued(i)')
    <3>1. CASE i = Front
      BY <3>1
    <3>2. CASE i # Front
      BY <1>0, <1>2, <3>2 DEF Order, Pending
    <3> QED
      BY <3>1, <3>2
  <2> QED
    BY <1>0, <2>1 DEF Pending
<1>4. ASSUME NEW i, i \in Ops, i = Front \/ (i # 0 /\ Queued(i)), ops[i].kind = "deferred" \/ i # Front
      PROVE  Submitted(i)'
  <2>1. \A j \in 1 .. Front - 1 : j \in Ops /\ ~InStream(j)
    BY <1>0 DEF Ops, Types
  <2>2. \A j \in 1 .. Front - 1 : Done(j)
    BY <2>1 DEF Order, Pending, Done
  <2>3. ops[i].kind = "deferred" /\ \A j \in 1 .. i - 1 : Done(j)
    BY <1>0, <1>1, <1>4, <2>2 DEF Submitted
  <2>4. ~InStream(i)'
    BY <1>0, <1>1, <1>4, <2>3 DEF Submitted
  <2>5. \A j \in 1 .. i - 1 : Done(j)'
    BY <2>3 DEF Done
  <2> QED
    BY <2>3, <2>4, <2>5 DEF Submitted
<1>5. Front \notin promised
  BY <1>0 DEF Order, Promises
<1>6. Tasks'
  <2>1. CASE tasks' = tasks
    <3>1. ASSUME NEW k \in DOMAIN tasks', tasks'[k].op # 0
          PROVE  tasks'[k].op \in Ops' /\ tasks'[k].op \notin promised' /\ Submitted(tasks[k].op)'
      <4>1. PICK i : i = tasks'[k].op
        OBVIOUS
      <4>2. Queued(i) /\ i # 0
        BY <2>1, <3>1, <4>1 DEF Queued
      <4>3. i \in Ops' /\ i \notin promised' /\ Submitted(i)'
        BY <1>0, <1>1, <1>4, <4>2
      <4> QED
        BY <4>1, <4>3 DEF Submitted, InStream, Done
    <3>2. \A j, k \in DOMAIN tasks' : tasks'[j].op # 0 /\ tasks'[j].op = tasks'[k].op => j = k
      BY <2>1 DEF Order, Tasks
    <3> QED
      BY <3>1, <3>2 DEF Tasks
  <2>2. CASE \E owns \in BOOLEAN : tasks' = Append(tasks, Task(Front, owns)) /\ ops[Front].kind = "deferred"
    <3>1. PICK owns \in BOOLEAN : tasks' = Append(tasks, Task(Front, owns)) /\ ops[Front].kind = "deferred"
      BY <2>2
    <3>2. Task(Front, owns) \in TaskType /\ tasks \in Seq(TaskType) /\ Task(Front, owns).op = Front
      BY <1>0 DEF Task, TaskType, Types
    <3>3. \A k \in DOMAIN tasks' : \/ k \in DOMAIN tasks /\ tasks'[k] = tasks[k]
                                   \/ k = Len(tasks) + 1 /\ tasks'[k].op = Front
      BY <3>1, <3>2, TaskAdded
    <3>4. ASSUME NEW k \in DOMAIN tasks', tasks'[k].op # 0
          PROVE  tasks'[k].op \in Ops' /\ tasks'[k].op \notin promised' /\ Submitted(tasks[k].op)'
      <4>1. PICK i : i = tasks'[k].op
        OBVIOUS
      <4>2. i = Front \/ (Queued(i) /\ i # 0)
        BY <3>3, <3>4, <4>1 DEF Queued
      <4>3. i \in Ops' /\ i \notin promised' /\ Submitted(i)'
        BY <1>0, <1>1, <1>4, <1>5, <3>1, <4>2
      <4> QED
        BY <4>1, <4>3 DEF Submitted, InStream, Done
    <3>5. ASSUME NEW j \in DOMAIN tasks', NEW k \in DOMAIN tasks',
                 tasks'[j].op # 0, tasks'[j].op = tasks'[k].op
          PROVE  j = k
      <4>1. \A n \in DOMAIN tasks : tasks[n].op # 0 => tasks[n].op # Front
        BY <1>1 DEF Queued
      <4>2. \A m, n \in DOMAIN tasks : tasks[m].op # 0 /\ tasks[m].op = tasks[n].op => m = n
        BY DEF Order, Tasks
      <4> QED
        BY <1>0, <3>3, <3>5, <4>1, <4>2
    <3> QED
      BY <3>4, <3>5 DEF Tasks
  <2> QED
    BY <2>1, <2>2
<1>7. Promises'
  BY <1>0 DEF Order, Promises
<1>8. Phases'
  <2>1. tasks # <<>> => tasks' # <<>> /\ tasks'[1] = tasks[1]
    <3>1. CASE tasks' = tasks
      BY <3>1
    <3>2. CASE \E owns \in BOOLEAN : tasks' = Append(tasks, Task(Front, owns))
      <4>1. PICK owns \in BOOLEAN : tasks' = Append(tasks, Task(Front, owns))
        BY <3>2
      <4>2. Task(Front, owns) \in TaskType /\ tasks \in Seq(TaskType)
        BY <1>0 DEF Task, TaskType, Types
      <4>3. tasks # <<>> => 1 \in DOMAIN tasks
        BY <4>2
      <4> QED
        BY <4>1, <4>2, <4>3, TaskAdded
    <3> QED
      BY <3>1, <3>2
  <2> QED
    BY <2>1 DEF Order, Phases
<1>9. Entered'
  BY DEF Entered
<1> QED
  BY <1>0, <1>3, <1>6, <1>7, <1>8, <1>9 DEF Order

\* The host function at the front enters, ...
LEMMA OrderEnters ==
  ASSUME Types, Order, HostFuncSubmit
  PROVE  Order' /\ tasks' \in Seq(TaskType)
<1>0. /\ stream # <<>> /\ ~entered /\ ops[Front].kind = "host" /\ entered' = TRUE
      /\ tasks' = Append(tasks, Task(Front, FALSE)) /\ ops' = ops /\ stream' = stream /\ phase' = phase
      /\ promised' = promised /\ finished' = finished /\ Front' = Front
      /\ tasks \in Seq(TaskType)
  BY DEF HostFuncSubmit, Executes, Front, Types, config, lifetime, client
<1>1. InStream(Front) /\ Front \in Ops /\ Front # 0 /\ Front \in Nat
  BY <1>0, FrontIsFirst DEF Order, Ops
<1>2. PICK n : n = Front
  OBVIOUS
<1>3. Task(n, FALSE) \in TaskType /\ Task(n, FALSE).op = n /\ tasks' = Append(tasks, Task(n, FALSE))
  BY <1>0, <1>1, <1>2 DEF Task, TaskType
<1>4. /\ tasks' \in Seq(TaskType) /\ tasks' # <<>>
      /\ \A k \in DOMAIN tasks' : \/ k \in DOMAIN tasks /\ tasks'[k] = tasks[k]
                                  \/ k = Len(tasks) + 1 /\ tasks'[k].op = n
      /\ \A k \in DOMAIN tasks : k \in DOMAIN tasks' /\ tasks'[k] = tasks[k]
  <2>1. tasks \in Seq(TaskType)
    BY <1>0
  <2>2. PICK task : task = Task(n, FALSE)
    OBVIOUS
  <2>3. task \in TaskType /\ task.op = n /\ tasks' = Append(tasks, task)
    BY <1>3, <2>2
  <2> QED
    BY <2>1, <2>3, TaskAdded
<1>5. n \notin promised /\ \A k \in DOMAIN tasks : tasks[k].op # n
  BY <1>0, <1>1, <1>2 DEF Order, Promises, Tasks, Submitted
<1>6. Increasing' /\ Entered' /\ Pending'
  <2>1. \A i : Queued(i) => Queued(i)'
    BY <1>4 DEF Queued
  <2> QED
    BY <1>0, <2>1 DEF Order, Increasing, Entered, Pending, InStream, Ops
<1>7. Tasks'
  <2>1. ASSUME NEW k \in DOMAIN tasks', tasks'[k].op # 0
        PROVE  tasks'[k].op \in Ops' /\ tasks'[k].op \notin promised' /\ Submitted(tasks[k].op)'
    <3>1. PICK i : i = tasks'[k].op
      OBVIOUS
    <3>2. i \in Ops' /\ i \notin promised' /\ Submitted(i)'
      <4>1. CASE i = n
        BY <1>0, <1>1, <1>2, <1>5, <4>1 DEF Submitted, Ops
      <4>2. CASE i # n
        <5>1. k \in DOMAIN tasks /\ tasks[k].op = i
          BY <1>4, <3>1, <4>2
        <5>2. i \in Ops /\ i \notin promised /\ Submitted(i)
          BY <2>1, <3>1, <5>1 DEF Order, Tasks
        <5> QED
          BY <1>0, <5>2 DEF Submitted, Ops, InStream, Done
      <4> QED
        BY <4>1, <4>2
    <3> QED
      BY <3>1, <3>2 DEF Submitted, InStream, Done
  <2>2. ASSUME NEW j \in DOMAIN tasks', NEW k \in DOMAIN tasks',
               tasks'[j].op # 0, tasks'[j].op = tasks'[k].op
        PROVE  j = k
    <3>1. \A l, m \in DOMAIN tasks : tasks[l].op # 0 /\ tasks[l].op = tasks[m].op => l = m
      BY DEF Order, Tasks
    <3> QED
      BY <1>4, <1>5, <2>2, <3>1
  <2> QED
    BY <2>1, <2>2 DEF Tasks
<1>8. Promises'
  BY <1>0 DEF Order, Promises, InStream
<1>9. Phases'
  <2>1. tasks # <<>> => 1 \in DOMAIN tasks
    BY <1>0
  <2>2. tasks # <<>> => tasks'[1] = tasks[1]
    BY <1>4, <2>1
  <2> QED
    BY <1>0, <1>4, <2>2 DEF Order, Phases
<1> QED
  BY <1>4, <1>6, <1>7, <1>8, <1>9 DEF Order

\* ... and is over when its future is set.
LEMMA OrderLeaves ==
  ASSUME Types, Order, HostFuncWait
  PROVE  Order'
<1>0. /\ stream # <<>> /\ entered /\ ops[Front].kind = "host" /\ entered' = FALSE /\ Front \in promised
      /\ Complete /\ tasks' = tasks /\ ops' = ops /\ phase' = phase
      /\ promised' = promised /\ finished' = finished
  BY DEF HostFuncWait, Order, Entered, Types, config, worker
<1>1. /\ Increasing' /\ (\A i : InStream(i)' <=> InStream(i) /\ i # Front)
      /\ InStream(Front) /\ Ops' = Ops
  BY <1>0, StreamAdvances, FrontIsFirst DEF Order, Ops
<1>2. Front \in finished
  BY <1>0 DEF Types
<1>3. Pending' /\ Entered' /\ Promises' /\ Phases'
  BY <1>0, <1>1, <1>2 DEF Order, Pending, Entered, Promises, Phases, Queued
<1>4. ASSUME NEW k \in DOMAIN tasks', tasks'[k].op # 0
      PROVE  tasks'[k].op \in Ops' /\ tasks'[k].op \notin promised' /\ Submitted(tasks[k].op)'
  <2>1. PICK i : i = tasks[k].op
    OBVIOUS
  <2>2. i \in Ops /\ i \notin promised /\ Submitted(i) /\ i # Front
    BY <1>0, <1>4, <2>1 DEF Order, Tasks
  <2>3. Submitted(i)'
    BY <1>0, <1>1, <2>2 DEF Submitted, Done
  <2> QED
    BY <1>0, <1>1, <2>1, <2>2, <2>3 DEF Submitted, InStream, Done
<1>5. Tasks'
  BY <1>0, <1>4 DEF Order, Tasks
<1> QED
  BY <1>1, <1>3, <1>5 DEF Order

-----------------------------------------------------------------------------
\* No operation starts to use the buffer without an owner, and none frees it
\* before its deleter has run.
LEMMA MemoryGrows ==
  ASSUME Types, Increasing, Memory, Grows, memory' = memory, owners' # {} => memory = "live",
         finished \subseteq finished', Queued(0)' => memory \in {"freeing", "freed"},
         \A i \in Ops' \ Ops : ops'[i].buf => owners # {} /\ ops'[i].kind \in {"kernel", "deferred"},
         \A i \in Ops' \ Ops : ops'[i].kind = "free" => memory \in {"freeing", "freed"}
  PROVE  Memory'
<1>0. /\ Ops \subseteq Ops' /\ (\A i \in Ops : ops'[i] = ops[i])
      /\ (\A i \in Ops' : i \in Ops \/ i = Len(ops) + 1)
      /\ (\A i \in Ops : i < Len(ops) + 1)
  BY Growing DEF Ops, Types
<1>1. \A i \in Ops' : ops'[i].buf => i \in Ops \/ memory = "live"
  BY DEF Memory
<1>2. \A i \in Ops' : ops'[i].kind = "free" => memory \in {"freeing", "freed"}
  BY <1>0 DEF Memory
<1>3. \A i \in Ops' : ops'[i].buf => ops'[i].kind \in {"kernel", "deferred"}
  BY <1>0 DEF Memory
<1>4. \A i, f \in Ops' : ops'[i].buf /\ ops'[f].kind = "free" => i < f
  BY <1>0, <1>1, <1>2 DEF Memory
<1>5. memory' \in {"freeing", "freed"} => \A i \in Ops' : Keeps(i)' => i \in finished'
  BY <1>0, <1>1 DEF Memory, Keeps
<1>6. MemoryOutlivesItsUses'
  BY <1>0, <1>1 DEF Memory, MemoryOutlivesItsUses
<1> QED
  BY <1>2, <1>3, <1>4, <1>5, <1>6 DEF Memory

\* The deleter of the buffer runs when nothing keeps the buffer alive.
LEMMA MemoryIsReleased ==
  ASSUME Types, Increasing, Memory, Grows, memory = "live", memory' = "freeing", owners' = {},
         finished \subseteq finished',
         \A i \in Ops : Keeps(i) => i \in finished,
         \A i \in Ops' \ Ops : ~ops'[i].buf
  PROVE  Memory'
<1>0. /\ Ops \subseteq Ops' /\ (\A i \in Ops : ops'[i] = ops[i])
      /\ (\A i \in Ops' : i \in Ops \/ i = Len(ops) + 1)
      /\ (\A i \in Ops : i < Len(ops) + 1)
  BY Growing DEF Ops, Types
<1>1. \A f \in Ops : ops[f].kind # "free"
  BY DEF Memory
<1>2. \A i, f \in Ops' : ops'[i].buf /\ ops'[f].kind = "free" => i < f
  BY <1>0, <1>1
<1>3. \A i \in Ops' : ops'[i].buf => ops'[i].kind \in {"kernel", "deferred"}
  BY <1>0 DEF Memory
<1>4. \A i \in Ops' : Keeps(i)' => i \in finished'
  BY <1>0 DEF Keeps
<1> QED
  BY <1>2, <1>3, <1>4 DEF Memory, MemoryOutlivesItsUses

\* An operation that keeps the buffer alive is done, or it is found.
LEMMA NothingKeepsIt ==
  ASSUME Types, Order, NEW i \in Ops, Keeps(i), i \notin finished
  PROVE  (\E k \in DOMAIN stream : Keeps(stream[k])) \/ (\E k \in DOMAIN tasks : tasks[k].op = i)
BY DEF Order, Pending, InStream, Queued

-----------------------------------------------------------------------------
\* A queue that is being destroyed gets no new reference and no new work.
LEMMA LifetimeStays ==
  ASSUME Types, Increasing, Lifetime, Grows \/ (stream # <<>> /\ Complete /\ ops' = ops), queue' = queue,
         queue # "alive" => ~Referenced',
         queue # "alive" => \A i \in Ops' \ Ops : ops'[i].kind = "free"
  PROVE  Lifetime'
<1>1. CASE stream # <<>> /\ Complete /\ ops' = ops
  <2>1. \A k \in DOMAIN stream' : \E j \in DOMAIN stream : stream'[k] = stream[j]
    BY <1>1, StreamAdvances
  <2> QED
    BY <1>1, <2>1 DEF Lifetime
<1>2. CASE Grows
  <2>1. /\ Increasing' /\ Ops \subseteq Ops' /\ (\A i \in Ops : ops'[i] = ops[i])
        /\ (\A i \in Ops : InStream(i)' <=> InStream(i))
    BY <1>2, Growing
  <2>2. ASSUME queue \in {"members", "dead"}, NEW k \in DOMAIN stream' PROVE ops'[stream'[k]].kind = "free"
    <3>1. PICK i : i = stream'[k]
      OBVIOUS
    <3>2. i \in Ops' /\ InStream(i)'
      BY <2>1, <3>1 DEF Increasing, InStream
    <3>3. i \in Ops => \E j \in DOMAIN stream : stream[j] = i
      BY <2>1, <3>2 DEF InStream
    <3>4. i \in Ops => ops[i].kind = "free"
      BY <2>2, <3>3 DEF Lifetime
    <3> QED
      BY <2>1, <2>2, <3>1, <3>2, <3>4
  <2> QED
    BY <2>2 DEF Lifetime
<1> QED
  BY <1>1, <1>2

\* Operations that are not tracked by the last event are those of a kind that
\* never is, or their thread is about to store it.
LEMMA TrackedStays ==
  ASSUME Types, Increasing, Tracked, Grows, UNCHANGED <<api, last, raced>>,
         \A c \in Client : pc[c] = "submitted" => pc'[c] = "submitted" /\ target'[c] = target[c],
         \A c \in Client : pc'[c] = "submitted" => api = "sycl",
         api = "sycl" => \A i \in Ops' \ Ops :
           \/ ops'[i].kind \in {"event", "frame", "free"}
           \/ \E c \in Client : pc'[c] = "submitted" /\ target'[c] = i,
         \A i \in Ops' \ Ops : ops'[i].kind = "frame" => "frame" \in Kinds
  PROVE  Tracked'
<1>0. Ops \subseteq Ops' /\ \A i \in Ops : ops'[i] = ops[i]
  BY Growing
<1>1. \A i \in Ops : (\E c \in Client : pc[c] = "submitted" /\ target[c] = i)
                     => \E c \in Client : pc'[c] = "submitted" /\ target'[c] = i
  OBVIOUS
<1> QED
  BY <1>0, <1>1 DEF Tracked

-----------------------------------------------------------------------------
(* The calls of the program.                                                *)

LEMMA Submitting ==
  ASSUME Types, NEW op \in OpType, Submit(op)
  PROVE  /\ Grows /\ ops' \in Seq(OpType) /\ Ops \subseteq Ops'
         /\ Len(ops) + 1 \in Ops' /\ Len(ops) + 1 # 0
         /\ \A i \in Ops' \ Ops : i = Len(ops) + 1 /\ ops'[i] = op
<1>1. ops \in Seq(OpType) /\ Len(ops) \in Nat /\ ops' = Append(ops, op)
  BY DEF Types, Submit
<1>2. ops' \in Seq(OpType) /\ Len(ops') = Len(ops) + 1 /\ ops'[Len(ops) + 1] = op
  BY <1>1
<1> QED
  BY <1>1, <1>2 DEF Grows, Ops

\* The worker is not involved.
LEMMA WorkerStays ==
  ASSUME Types, Order, Grows, UNCHANGED <<entered, tasks, phase, promised, finished>>
  PROVE  Order'
<1>1. \A i : Queued(i)' <=> Queued(i)
  BY DEF Queued
<1>2. \A i : Queued(i) /\ i # 0 => i \notin promised
  BY DEF Order, Tasks, Queued
<1>3. \A j, k \in DOMAIN tasks : tasks[j].op # 0 /\ tasks[j].op = tasks[k].op => j = k
  BY DEF Order, Tasks
<1>4. Phases'
  BY DEF Order, Phases
<1>5. tasks \in Seq(TaskType) /\ finished \subseteq Ops /\ promised \subseteq finished /\ 0 \notin Ops
  BY DEF Types, Ops
<1>6. Ops \subseteq Ops'
  BY Growing DEF Order
<1> QED
  BY <1>1, <1>2, <1>3, <1>4, <1>5, <1>6, OrderGrows

\* One thread goes from one call to another.
LEMMA CallMoves ==
  ASSUME Types, Ops \subseteq Ops', NEW c \in Client,
         NEW p \in {"idle", "submitted", "block", "wait"}, NEW n \in Ops' \cup {0},
         pc' = [pc EXCEPT ![c] = p], target' = [target EXCEPT ![c] = n]
  PROVE  /\ pc' \in [Client -> {"idle", "submitted", "block", "wait"}]
         /\ target' \in [Client -> Ops' \cup {0}]
         /\ pc'[c] = p /\ target'[c] = n
         /\ \A d \in Client : d # c => pc'[d] = pc[d] /\ target'[d] = target[d]
BY DEF Types

LEMMA Enqueued ==
  ASSUME IInv, NEW c \in Client, NEW kind \in Kinds, NEW buf \in BOOLEAN, Submit(Op(kind, buf)),
         c \in handles, buf => c \in owners /\ kind \in {"kernel", "deferred"},
         UNCHANGED <<config, entered, signalled, worker, finished, last, lifetime, raced, crashed>>,
         event' \in {event, Len(ops) + 1}, pc[c] = "idle",
         NEW p \in {"idle", "submitted", "block"}, NEW n \in {0, Len(ops) + 1},
         pc' = [pc EXCEPT ![c] = p], target' = [target EXCEPT ![c] = n],
         p = "submitted" => api = "sycl" /\ n = Len(ops) + 1,
         p # "submitted" => api = "cuda" \/ kind \in {"event", "frame"}
  PROVE  IInv'
<1>0. /\ Types /\ Order /\ Increasing /\ Memory /\ Lifetime /\ Tracked
      /\ entered' = entered /\ tasks' = tasks /\ phase' = phase /\ promised' = promised
      /\ finished' = finished /\ owners' = owners /\ memory' = memory /\ queue' = queue /\ handles' = handles
      /\ api' = api /\ last' = last /\ raced' = raced
  BY DEF IInv, Order, worker, lifetime, config
<1>1. Op(kind, buf) \in OpType /\ kind # "free" /\ kind # "alloc"
  BY KindAssumption DEF Op, OpType, OpKinds
<1>2. /\ Grows /\ Ops \subseteq Ops' /\ Len(ops) + 1 \in Ops'
      /\ \A i \in Ops' \ Ops : i = Len(ops) + 1 /\ ops'[i].kind = kind /\ ops'[i].buf = buf
  BY <1>0, <1>1, Submitting DEF Op
<1>3. /\ pc' \in [Client -> {"idle", "submitted", "block", "wait"}]
      /\ target' \in [Client -> Ops' \cup {0}]
      /\ pc'[c] = p /\ target'[c] = n
      /\ \A d \in Client : d # c => pc'[d] = pc[d] /\ target'[d] = target[d]
  BY <1>0, <1>2, CallMoves
<1>4. Types'
  <2>1. ops' \in Seq(OpType) /\ stream' \in Seq(Nat)
    BY <1>0, <1>2, Growing
  <2> QED
    BY <1>0, <1>2, <1>3, <2>1 DEF Types, config, lifetime
<1>5. Order'
  BY <1>0, <1>2, WorkerStays
<1>6. Memory'
  <2>1. Queued(0)' => memory \in {"freeing", "freed"}
    BY <1>0 DEF Memory, Queued
  <2>2. owners' # {} => memory = "live"
    BY <1>0 DEF Memory
  <2> QED
    BY <1>0, <1>1, <1>2, <2>1, <2>2, MemoryGrows
<1>7. Lifetime'
  <2>1. queue = "alive"
    BY <1>0 DEF Lifetime, Referenced
  <2> QED
    BY <1>0, <1>2, <2>1, LifetimeStays
<1>8. Tracked'
  <2>1. p = "submitted" => \A i \in Ops' \ Ops : pc'[c] = "submitted" /\ target'[c] = i
    BY <1>2, <1>3
  <2>2. \A d \in Client : pc[d] = "submitted" => pc'[d] = "submitted" /\ target'[d] = target[d]
    BY <1>3
  <2>3. \A d \in Client : pc'[d] = "submitted" => api = "sycl"
    BY <1>0, <1>3 DEF Tracked
  <2>4. \A i \in Ops' \ Ops : ops'[i].kind = "frame" => "frame" \in Kinds
    BY <1>2
  <2>5. api = "sycl" => \A i \in Ops' \ Ops :
           \/ ops'[i].kind \in {"event", "frame", "free"}
           \/ \E d \in Client : pc'[d] = "submitted" /\ target'[d] = i
    BY <1>2, <2>1
  <2> QED
    BY <1>0, <1>2, <2>2, <2>3, <2>4, <2>5, TrackedStays
<1> QED
  BY <1>4, <1>5, <1>6, <1>7, <1>8 DEF IInv

LEMMA CudaEnqueueStep ==
  ASSUME IInv, NEW c \in Client, NEW kind \in Kinds, NEW buf \in BOOLEAN, CudaEnqueue(c, kind, buf)
  PROVE  IInv'
<1>1. PICK p \in {"idle", "submitted", "block"}, n \in {0, Len(ops) + 1} :
        /\ p # "submitted" /\ pc' = [pc EXCEPT ![c] = p] /\ target' = [target EXCEPT ![c] = n]
  BY DEF CudaEnqueue, Synchronise
<1>2. /\ api = "cuda" /\ pc[c] = "idle" /\ c \in handles /\ Submit(Op(kind, buf))
      /\ buf => c \in owners /\ kind \in {"kernel", "deferred"}
      /\ event' \in {event, Len(ops) + 1}
      /\ UNCHANGED <<config, entered, signalled, worker, finished, last, lifetime, raced, crashed>>
  BY DEF CudaEnqueue, Idle
<1> QED
  BY <1>1, <1>2, Enqueued

LEMMA SyclEnqueueStep ==
  ASSUME IInv, NEW c \in Client, NEW kind \in Kinds, NEW buf \in BOOLEAN, SyclEnqueue(c, kind, buf)
  PROVE  IInv'
<1>1. /\ api = "sycl" /\ pc[c] = "idle" /\ c \in handles /\ Submit(Op(kind, buf))
      /\ buf => c \in owners /\ kind \in {"kernel", "deferred"}
      /\ event' \in {event, Len(ops) + 1}
      /\ pc' = [pc EXCEPT ![c] = "submitted"] /\ target' = [target EXCEPT ![c] = Len(ops) + 1]
      /\ UNCHANGED <<config, entered, signalled, worker, finished, last, lifetime, raced, crashed>>
  BY DEF SyclEnqueue, Idle
<1> QED
  BY <1>1, Enqueued

LEMMA SyclEnqueueUntrackedStep ==
  ASSUME IInv, NEW c \in Client, NEW kind \in Kinds, SyclEnqueueUntracked(c, kind)
  PROVE  IInv'
<1>1. PICK p \in {"idle", "submitted", "block"}, n \in {0, Len(ops) + 1} :
        /\ p # "submitted" /\ pc' = [pc EXCEPT ![c] = p] /\ target' = [target EXCEPT ![c] = n]
  BY DEF SyclEnqueueUntracked, Synchronise
<1>2. /\ api = "sycl" /\ pc[c] = "idle" /\ c \in handles /\ Submit(Op(kind, FALSE))
      /\ kind \in {"event", "frame"} /\ event' \in {event, Len(ops) + 1}
      /\ UNCHANGED <<config, entered, signalled, worker, finished, last, lifetime, raced, crashed>>
  BY DEF SyclEnqueueUntracked, Idle
<1> QED
  BY <1>1, <1>2, Enqueued

\* A step that touches neither the stream nor the worker nor a reference.
LEMMA CallsOnly ==
  ASSUME IInv, UNCHANGED <<ops, stream, entered, tasks, phase, promised, finished,
                           handles, owners, memory, queue>>
  PROVE  Order' /\ Memory' /\ Lifetime'
<1>1. Order'
  <2>1. Grows
    BY DEF Grows
  <2> QED
    BY <2>1, WorkerStays DEF IInv
<1>2. Memory'
  BY DEF IInv, Memory, Queued, Keeps, MemoryOutlivesItsUses, Ops
<1>3. Lifetime'
  BY DEF IInv, Lifetime, Referenced, TaskOwnsQueue
<1> QED
  BY <1>1, <1>2, <1>3

LEMMA SetLastEventStep ==
  ASSUME IInv, NEW c \in Client, SetLastEvent(c)
  PROVE  IInv'
<1>0. /\ Types /\ pc[c] = "submitted" /\ last' = target[c] /\ raced' = (raced \/ target[c] < last)
      /\ UNCHANGED <<ops, stream, entered, tasks, phase, promised, finished, handles, owners, memory, queue>>
      /\ UNCHANGED <<config, signalled, event, destroyer, crashed, api>>
  BY DEF SetLastEvent, device, worker, lifetime, config, IInv
<1>1. PICK p \in {"idle", "block"}, n \in {0, target[c]} :
        pc' = [pc EXCEPT ![c] = p] /\ target' = [target EXCEPT ![c] = n]
  BY DEF SetLastEvent, Synchronise
<1>2. target[c] \in Ops \cup {0} /\ n \in Ops' \cup {0} /\ Ops' = Ops
  BY <1>0, <1>1 DEF Types, Ops
<1>3. /\ pc' \in [Client -> {"idle", "submitted", "block", "wait"}]
      /\ target' \in [Client -> Ops' \cup {0}] /\ pc'[c] = p
      /\ \A d \in Client : d # c => pc'[d] = pc[d] /\ target'[d] = target[d]
  BY <1>0, <1>1, <1>2, CallMoves
<1>4. Types'
  BY <1>0, <1>2, <1>3 DEF Types, config
<1>5. Order' /\ Memory' /\ Lifetime'
  BY <1>0, CallsOnly
<1>6. Tracked'
  <2>1. \A d \in Client : pc'[d] = "submitted" => api' = "sycl"
    BY <1>0, <1>3 DEF IInv, Tracked
  <2>2. ASSUME api' = "sycl", ~raced', NEW i \in Ops'
        PROVE  \/ i <= last'
               \/ ops'[i].kind \in {"event", "frame", "free"}
               \/ \E d \in Client : pc'[d] = "submitted" /\ target'[d] = i
    <3>0. ~raced /\ ~(target[c] < last)
      BY <1>0, <2>2, Zenon
    <3>1. /\ api = "sycl" /\ ~raced /\ ~(target[c] < last) /\ i \in Ops /\ i \in Nat
          /\ last \in Nat /\ target[c] \in Nat
      BY <1>0, <1>2, <2>2, <3>0 DEF Types, Ops
    <3>2. CASE i <= last
      BY <1>0, <3>1, <3>2
    <3>3. CASE ops[i].kind \in {"event", "frame", "free"}
      BY <1>0, <3>3
    <3>4. CASE \E d \in Client : pc[d] = "submitted" /\ target[d] = i
      <4>1. PICK d \in Client : pc[d] = "submitted" /\ target[d] = i
        BY <3>4
      <4>2. CASE d = c
        BY <1>0, <3>1, <4>1, <4>2
      <4>3. CASE d # c
        BY <1>3, <4>1, <4>3
      <4> QED
        BY <4>2, <4>3
    <3> QED
      BY <3>1, <3>2, <3>3, <3>4 DEF IInv, Tracked
  <2>3. \A i \in Ops' : ops'[i].kind = "frame" => "frame" \in Kinds
    BY <1>0, <1>2 DEF IInv, Tracked
  <2> QED
    BY <2>1, <2>2, <2>3 DEF Tracked
<1> QED
  BY <1>4, <1>5, <1>6 DEF IInv

\* A call that waits, and its return.
LEMMA WaitingStep ==
  ASSUME IInv, NEW c \in Client, Wait(c) \/ EventWait(c) \/ Return(c)
  PROVE  IInv'
<1>0. /\ Types /\ Increasing /\ Tracked /\ pc[c] # "submitted"
      /\ UNCHANGED <<ops, stream, entered, tasks, phase, promised, finished, handles, owners, memory, queue>>
      /\ UNCHANGED <<config, signalled, last, event, destroyer, raced, crashed, api>>
  BY DEF Wait, EventWait, Return, Idle, device, worker, lifetime, config, IInv, Order
<1>1. PICK p \in {"idle", "wait"}, n \in {0, event, Len(ops)} :
        pc' = [pc EXCEPT ![c] = p] /\ target' = [target EXCEPT ![c] = n]
  BY DEF Wait, EventWait, Return
<1>2. Len(ops) \in Ops \cup {0} /\ Ops' = Ops /\ n \in Ops' \cup {0}
  BY <1>0, <1>1 DEF Types, Ops
<1>3. /\ pc' \in [Client -> {"idle", "submitted", "block", "wait"}]
      /\ target' \in [Client -> Ops' \cup {0}] /\ pc'[c] = p
      /\ \A d \in Client : d # c => pc'[d] = pc[d] /\ target'[d] = target[d]
  BY <1>0, <1>1, <1>2, CallMoves
<1>4. Types'
  BY <1>0, <1>2, <1>3 DEF Types, config
<1>5. Order' /\ Memory' /\ Lifetime'
  BY <1>0, CallsOnly
<1>6. Tracked'
  <2>1. Grows
    BY <1>0 DEF Grows
  <2>2. \A d \in Client : pc[d] = "submitted" => pc'[d] = "submitted" /\ target'[d] = target[d]
    BY <1>0, <1>3
  <2>3. \A d \in Client : pc'[d] = "submitted" => api = "sycl"
    BY <1>0, <1>3 DEF Tracked
  <2> QED
    BY <1>0, <1>2, <2>1, <2>2, <2>3, TrackedStays
<1> QED
  BY <1>4, <1>5, <1>6 DEF IInv

\* The event of another queue.
LEMMA SignalStep ==
  ASSUME IInv, Signal
  PROVE  IInv'
<1>0. /\ Types /\ Tracked /\ signalled' \in BOOLEAN
      /\ UNCHANGED <<ops, stream, entered, tasks, phase, promised, finished, handles, owners, memory, queue>>
      /\ UNCHANGED <<config, pc, target, last, event, destroyer, raced, crashed, api>>
  BY DEF Signal, worker, lifetime, config, client, IInv
<1>1. Types' /\ Tracked'
  BY <1>0 DEF Types, Tracked, Ops, config
<1> QED
  BY <1>0, <1>1, CallsOnly DEF IInv

LEMMA AllocDeferredStep ==
  ASSUME IInv, NEW c \in Client, AllocDeferred(c)
  PROVE  IInv'
<1>0. /\ Types /\ Order /\ Increasing /\ Memory /\ Lifetime /\ Tracked
      /\ memory = "none" /\ pc[c] = "idle" /\ c \in handles
      /\ memory' = "live" /\ owners' = {c}
      /\ UNCHANGED <<config, api, entered, signalled, tasks, phase, promised, finished, last, event,
                     handles, queue, destroyer, raced, crashed>>
  BY DEF AllocDeferred, Idle, worker, config, IInv, Order
<1>1. Op("alloc", FALSE) \in OpType
  BY DEF Op, OpType, OpKinds
<1>2. \/ api = "cuda" /\ Submit(Op("alloc", FALSE)) /\ Synchronise(c, Len(ops) + 1)
      \/ api = "sycl" /\ ops' = ops /\ stream' = stream /\ Synchronise(c, Len(ops))
  BY <1>0, ApiAssumption DEF AllocDeferred, Types
<1>3. PICK n \in Ops' \cup {0} :
        /\ Grows /\ Ops \subseteq Ops' /\ Synchronise(c, n)
        /\ \A i \in Ops' \ Ops : api = "cuda" /\ ops'[i].kind = "alloc" /\ ops'[i].buf = FALSE
  <2>1. CASE api = "cuda" /\ Submit(Op("alloc", FALSE)) /\ Synchronise(c, Len(ops) + 1)
    <3>1. /\ Grows /\ Ops \subseteq Ops' /\ Len(ops) + 1 \in Ops'
          /\ \A i \in Ops' \ Ops : ops'[i] = Op("alloc", FALSE)
      BY <1>0, <1>1, <2>1, Submitting
    <3> QED
      BY <2>1, <3>1 DEF Op
  <2>2. CASE api = "sycl" /\ ops' = ops /\ stream' = stream /\ Synchronise(c, Len(ops))
    <3>1. Ops' = Ops /\ Len(ops) \in Ops \cup {0}
      BY <1>0, <2>2 DEF Types, Ops
    <3> QED
      BY <2>2, <3>1 DEF Grows
  <2> QED
    BY <1>2, <2>1, <2>2
<1>4. PICK p \in {"idle", "block"}, m \in Ops' \cup {0} :
        pc' = [pc EXCEPT ![c] = p] /\ target' = [target EXCEPT ![c] = m]
  BY <1>3 DEF Synchronise
<1>5. /\ pc' \in [Client -> {"idle", "submitted", "block", "wait"}]
      /\ target' \in [Client -> Ops' \cup {0}] /\ pc'[c] = p
      /\ \A d \in Client : d # c => pc'[d] = pc[d] /\ target'[d] = target[d]
  BY <1>0, <1>3, <1>4, CallMoves
<1>6. Types'
  <2>1. ops' \in Seq(OpType) /\ stream' \in Seq(Nat)
    BY <1>0, <1>3, Growing
  <2> QED
    BY <1>0, <1>3, <1>5, <2>1 DEF Types, config
<1>7. Order'
  BY <1>0, <1>3, WorkerStays
<1>8. Memory'
  <2>1. (\A i \in Ops : ops[i].kind # "free") /\ ~Queued(0)
    BY <1>0 DEF Memory
  <2>2. \A i \in Ops' : (i \in Ops /\ ops'[i] = ops[i]) \/ (ops'[i].kind = "alloc" /\ ops'[i].buf = FALSE)
    BY <1>0, <1>3, Growing
  <2>3. (\A i \in Ops' : ops'[i].kind # "free") /\ ~Queued(0)'
    BY <1>0, <2>1, <2>2 DEF Queued
  <2>4. \A i \in Ops' : ops'[i].buf => ops'[i].kind \in {"kernel", "deferred"}
    BY <1>0, <2>2 DEF Memory
  <2> QED
    BY <1>0, <2>3, <2>4 DEF Memory, MemoryOutlivesItsUses
<1>9. Lifetime'
  <2>1. queue = "alive"
    BY <1>0 DEF Lifetime, Referenced
  <2> QED
    BY <1>0, <1>3, <2>1, LifetimeStays
<1>10. Tracked'
  <2>1. \A d \in Client : pc[d] = "submitted" => pc'[d] = "submitted" /\ target'[d] = target[d]
    BY <1>0, <1>5
  <2>2. \A d \in Client : pc'[d] = "submitted" => api = "sycl"
    BY <1>0, <1>5 DEF Tracked
  <2>3. api = "sycl" => \A i \in Ops' \ Ops :
           \/ ops'[i].kind \in {"event", "frame", "free"}
           \/ \E d \in Client : pc'[d] = "submitted" /\ target'[d] = i
    BY <1>3
  <2>4. \A i \in Ops' \ Ops : ops'[i].kind = "frame" => "frame" \in Kinds
    BY <1>3
  <2> QED
    BY <1>0, <1>3, <2>1, <2>2, <2>3, <2>4, TrackedStays
<1> QED
  BY <1>6, <1>7, <1>8, <1>9, <1>10 DEF IInv

LEMMA DropHandleStep ==
  ASSUME IInv, NEW c \in Client, DropHandle(c)
  PROVE  IInv'
<1>0. /\ Types /\ Tracked /\ Lifetime /\ queue = "alive" /\ handles' = handles \ {c}
      /\ DropQueue(c, handles = {c} /\ memory # "live" /\ ~TaskOwnsQueue)
      /\ UNCHANGED <<ops, stream, entered, tasks, phase, promised, finished, owners, memory>>
      /\ UNCHANGED <<config, signalled, pc, target, last, event, raced, crashed, api>>
  BY DEF DropHandle, device, worker, config, client, IInv
<1>1. queue' \in {"alive", "sync"} /\ destroyer' \in {destroyer, c}
  BY <1>0 DEF DropQueue
<1>2. Types'
  BY <1>0, <1>1 DEF Types, config, Ops
<1>3. Tracked'
  BY <1>0 DEF Tracked, Ops
<1>4. Order'
  <2>1. Grows
    BY <1>0 DEF Grows
  <2> QED
    BY <1>0, <2>1, WorkerStays DEF IInv
<1>5. Memory'
  BY <1>0 DEF IInv, Memory, Queued, Keeps, MemoryOutlivesItsUses, Ops
<1>6. Lifetime'
  <2>1. CASE handles = {c} /\ memory # "live" /\ ~TaskOwnsQueue
    <3>1. handles' = {} /\ memory' # "live" /\ ~TaskOwnsQueue'
      BY <1>0, <2>1 DEF TaskOwnsQueue
    <3> QED
      BY <1>1, <3>1 DEF Lifetime, Referenced
  <2>2. CASE ~(handles = {c} /\ memory # "live" /\ ~TaskOwnsQueue)
    <3>1. queue' = "alive"
      BY <1>0, <2>2 DEF DropQueue
    <3> QED
      BY <3>1 DEF Lifetime
  <2> QED
    BY <2>1, <2>2
<1> QED
  BY <1>2, <1>3, <1>4, <1>5, <1>6 DEF IInv

\* The deleter submits an operation, or a task, that frees the memory.
LEMMA Deleting ==
  ASSUME Types, NEW before \in Seq(TaskType), Deleter(before)
  PROVE  /\ Grows /\ Ops \subseteq Ops' /\ memory' = "freeing"
         /\ \A i \in Ops' \ Ops : ops'[i].kind = "free" /\ ops'[i].buf = FALSE
         /\ tasks' \in Seq(TaskType)
         /\ \A k \in DOMAIN tasks' : \/ k \in DOMAIN before /\ tasks'[k] = before[k]
                                     \/ tasks'[k].op = 0 /\ tasks'[k].owns = FALSE
         /\ \A k \in DOMAIN before : k \in DOMAIN tasks' /\ tasks'[k] = before[k]
<1>1. CASE api = "cuda"
  <2>1. Op("free", FALSE) \in OpType /\ Submit(Op("free", FALSE)) /\ tasks' = before /\ memory' = "freeing"
    BY <1>1 DEF Op, OpType, OpKinds, Deleter
  <2>2. /\ Grows /\ Ops \subseteq Ops'
        /\ \A i \in Ops' \ Ops : ops'[i] = Op("free", FALSE)
    BY <2>1, Submitting
  <2> QED
    BY <2>1, <2>2 DEF Op
<1>2. CASE api # "cuda"
  <2>1. /\ tasks' = Append(before, Task(0, FALSE)) /\ ops' = ops /\ stream' = stream /\ memory' = "freeing"
        /\ Task(0, FALSE) \in TaskType /\ Task(0, FALSE).op = 0 /\ Task(0, FALSE).owns = FALSE
    BY <1>2 DEF Deleter, Task, TaskType
  <2>2. PICK task \in TaskType : task.op = 0 /\ task.owns = FALSE /\ tasks' = Append(before, task)
    BY <2>1
  <2>3. /\ tasks' \in Seq(TaskType)
        /\ \A k \in DOMAIN tasks' : \/ k \in DOMAIN before /\ tasks'[k] = before[k]
                                    \/ tasks'[k] = task
        /\ \A k \in DOMAIN before : k \in DOMAIN tasks' /\ tasks'[k] = before[k]
    BY <2>2, TaskAdded
  <2> QED
    BY <2>1, <2>2, <2>3 DEF Grows, Ops
<1> QED
  BY <1>1, <1>2

\* The tasks of the worker stay in front of what the deleter adds.
LEMMA OrderOfDeleting ==
  ASSUME Types, Order, Deleter(tasks), UNCHANGED <<entered, phase, promised, finished>>
  PROVE  Order'
<1>0. tasks \in Seq(TaskType) /\ finished \subseteq Ops /\ promised \subseteq finished /\ 0 \notin Ops
  BY DEF Types, Ops
<1>1. /\ Grows /\ Ops \subseteq Ops' /\ tasks' \in Seq(TaskType)
      /\ \A k \in DOMAIN tasks' : (k \in DOMAIN tasks /\ tasks'[k] = tasks[k]) \/ tasks'[k].op = 0
      /\ \A k \in DOMAIN tasks : k \in DOMAIN tasks' /\ tasks'[k] = tasks[k]
  BY <1>0, Deleting
<1>2. \A i : i # 0 => (Queued(i)' <=> Queued(i))
  BY <1>1 DEF Queued
<1>3. \A i : Queued(i) /\ i # 0 => i \notin promised
  BY DEF Order, Tasks, Queued
<1>4. \A j, k \in DOMAIN tasks' : tasks'[j].op # 0 /\ tasks'[j].op = tasks'[k].op => j = k
  BY <1>1 DEF Order, Tasks
<1>5. Phases'
  <2>1. tasks # <<>> => 1 \in DOMAIN tasks
    BY <1>0
  <2>2. tasks # <<>> => tasks' # <<>> /\ tasks'[1] = tasks[1]
    BY <1>1, <2>1
  <2> QED
    BY <2>2 DEF Order, Phases
<1> QED
  BY <1>0, <1>1, <1>2, <1>3, <1>4, <1>5, OrderGrows

LEMMA DropBufferStep ==
  ASSUME IInv, NEW c \in Client, DropBuffer(c)
  PROVE  IInv'
<1>0. /\ Types /\ Order /\ Increasing /\ Memory /\ Lifetime /\ Tracked
      /\ c \in owners /\ owners' = owners \ {c} /\ memory = "live" /\ queue = "alive"
      /\ UNCHANGED <<config, api, entered, signalled, phase, promised, finished, last, event,
                     handles, pc, target, raced, crashed>>
  BY DEF DropBuffer, client, config, IInv, Order, Memory, Lifetime, Referenced
<1>1. CASE ~(owners = {c} /\ ~KeptAlive)
  <2>1. UNCHANGED <<ops, stream, tasks, memory, queue, destroyer>>
    BY <1>1 DEF DropBuffer
  <2>2. Grows
    BY <2>1 DEF Grows
  <2>3. Types'
    BY <1>0, <2>1 DEF Types, config, Ops
  <2>4. Order'
    BY <1>0, <2>1, <2>2, WorkerStays
  <2>5. Memory'
    BY <1>0, <2>1 DEF Memory, Queued, Keeps, MemoryOutlivesItsUses, Ops
  <2>6. Lifetime' /\ Tracked'
    BY <1>0, <2>1 DEF Lifetime, Tracked, Ops
  <2> QED
    BY <2>3, <2>4, <2>5, <2>6 DEF IInv
<1>2. CASE owners = {c} /\ ~KeptAlive
  <2>1. Deleter(tasks) /\ DropQueue(c, handles = {} /\ ~TaskOwnsQueue) /\ tasks \in Seq(TaskType)
    BY <1>0, <1>2 DEF DropBuffer, Types
  <2>2. /\ Grows /\ Ops \subseteq Ops' /\ memory' = "freeing" /\ tasks' \in Seq(TaskType)
        /\ \A i \in Ops' \ Ops : ops'[i].kind = "free" /\ ops'[i].buf = FALSE
        /\ \A k \in DOMAIN tasks' : (k \in DOMAIN tasks /\ tasks'[k] = tasks[k]) \/ tasks'[k].owns = FALSE
    BY <1>0, <2>1, Deleting
  <2>3. Types'
    <3>1. ops' \in Seq(OpType) /\ stream' \in Seq(Nat)
      BY <1>0, <2>2, Growing
    <3>2. queue' \in {"alive", "sync"} /\ destroyer' \in {destroyer, c}
      BY <1>0, <2>1 DEF DropQueue
    <3> QED
      BY <1>0, <2>2, <3>1, <3>2 DEF Types, config
  <2>4. Order'
    BY <1>0, <2>1, OrderOfDeleting
  <2>5. Memory'
    <3>1. \A i \in Ops : Keeps(i) => i \in finished
      BY <1>0, <1>2, NothingKeepsIt DEF KeptAlive
    <3>2. owners' = {}
      BY <1>0, <1>2
    <3> QED
      BY <1>0, <2>2, <3>1, <3>2, MemoryIsReleased
  <2>6. Lifetime'
    <3>1. CASE handles = {} /\ ~TaskOwnsQueue
      <4>1. queue' = "sync"
        BY <2>1, <3>1 DEF DropQueue
      <4>2. ~TaskOwnsQueue'
        BY <2>2, <3>1 DEF TaskOwnsQueue
      <4> QED
        BY <1>0, <2>2, <3>1, <4>1, <4>2 DEF Lifetime, Referenced
    <3>2. CASE ~(handles = {} /\ ~TaskOwnsQueue)
      <4>1. queue' = "alive"
        BY <1>0, <2>1, <3>2 DEF DropQueue
      <4> QED
        BY <4>1 DEF Lifetime
    <3> QED
      BY <3>1, <3>2
  <2>7. Tracked'
    <3>1. \A d \in Client : pc'[d] = "submitted" => api = "sycl"
      BY <1>0 DEF Tracked
    <3> QED
      BY <1>0, <2>2, <3>1, TrackedStays
  <2> QED
    BY <2>3, <2>4, <2>5, <2>6, <2>7 DEF IInv
<1> QED
  BY <1>1, <1>2

-----------------------------------------------------------------------------
(* The runtime.                                                             *)

\* The front operation is done in the stream.
LEMMA Completes ==
  ASSUME IInv, stream # <<>>, ~entered, Complete, finished' = finished \cup {Front},
         UNCHANGED <<config, ops, entered, signalled, worker, last, event, handles,
                     owners, queue, destroyer, client, raced, crashed>>,
         memory' = memory \/ memory' = "freed"
  PROVE  /\ Types' /\ Order' /\ Lifetime' /\ Tracked'
         /\ memory' = memory => Memory'
<1>0. /\ Types /\ Order /\ Increasing /\ Memory /\ Lifetime /\ Tracked /\ Ops' = Ops
      /\ UNCHANGED <<api, blocking, tasks, phase, promised, pc, target>>
  BY DEF IInv, Order, Ops, config, worker, client
<1>1. Front \in Ops /\ finished \subseteq finished' /\ Front \in finished'
  BY <1>0, FrontIsFirst
<1>2. stream' \in Seq(Nat)
  BY <1>0, StreamAdvances
<1>3. Types'
  BY <1>0, <1>1, <1>2 DEF Types
<1>4. Order'
  <2>1. tasks \in Seq(TaskType)
    BY <1>0 DEF Types
  <2> QED
    BY <1>0, <1>1, <2>1, OrderCompletes
<1>5. Lifetime'
  <2>1. ~Referenced => ~Referenced'
    BY <1>0 DEF Referenced, TaskOwnsQueue
  <2>2. queue # "alive" => ~Referenced'
    BY <1>0, <2>1 DEF Lifetime
  <2> QED
    BY <1>0, <2>2, LifetimeStays
<1>6. Tracked'
  BY <1>0 DEF Tracked
<1>7. memory' = memory => Memory'
  BY <1>0, <1>1 DEF Memory, Queued, Keeps, MemoryOutlivesItsUses
<1> QED
  BY <1>3, <1>4, <1>5, <1>6, <1>7

LEMMA RunStep ==
  ASSUME IInv, RunDevice \/ RunAwait
  PROVE  IInv'
<1>1. /\ stream # <<>> /\ ~entered /\ Complete /\ finished' = finished \cup {Front} /\ memory' = memory
      /\ UNCHANGED <<config, ops, entered, signalled, worker, last, event, handles,
                     owners, queue, destroyer, client, raced, crashed>>
  BY DEF RunDevice, RunAwait, Executes, lifetime
<1> QED
  BY <1>1, Completes DEF IInv

LEMMA RunFreeStep ==
  ASSUME IInv, RunFree
  PROVE  IInv'
<1>1. /\ stream # <<>> /\ ~entered /\ Complete /\ finished' = finished \cup {Front} /\ memory' = "freed"
      /\ ops[Front].kind = "free"
      /\ UNCHANGED <<config, ops, entered, signalled, worker, last, event, handles,
                     owners, queue, destroyer, client, raced, crashed>>
  BY DEF RunFree, Executes
<1>2. /\ Types /\ Order /\ Increasing /\ Pending /\ Memory /\ Ops' = Ops
      /\ UNCHANGED <<tasks, phase, promised>>
  BY <1>1 DEF IInv, Order, Ops, worker
<1>3. Types' /\ Order' /\ Lifetime' /\ Tracked'
  BY <1>1, Completes
<1>4. Front \in Ops /\ \A i : InStream(i) => Front <= i
  BY <1>1, <1>2, FrontIsFirst
<1>5. memory \in {"freeing", "freed"} /\ owners = {}
  BY <1>1, <1>2, <1>4 DEF Memory
<1>6. \A i \in Ops : Keeps(i) => i \in finished
  BY <1>2, <1>5 DEF Memory
<1>7. ASSUME NEW i \in Ops, ops[i].buf PROVE i \in finished
  <2>1. i < Front /\ ops[i].kind \in {"kernel", "deferred"} /\ i \in Nat /\ Front \in Nat /\ i # 0
    BY <1>1, <1>2, <1>4, <1>7 DEF Memory, Ops
  <2>2. ~InStream(i)
    BY <1>4, <2>1
  <2>3. ops[i].kind = "deferred" => i \in finished
    BY <1>6, <1>7, <2>1 DEF Keeps
  <2> QED
    BY <1>2, <2>2, <2>3 DEF Pending
<1>8. Memory'
  BY <1>1, <1>2, <1>5, <1>6, <1>7 DEF Memory, Queued, Keeps, MemoryOutlivesItsUses
<1> QED
  BY <1>3, <1>8 DEF IInv

\* A deferred operation leaves the stream for the callback thread.
LEMMA Defers ==
  ASSUME IInv, NEW owns \in BOOLEAN, stream # <<>>, ~entered, Complete, ops[Front].kind = "deferred",
         tasks' = Append(tasks, Task(Front, owns)), owns => queue = "alive",
         UNCHANGED <<config, ops, entered, signalled, phase, promised, finished, last,
                     event, lifetime, client, raced, crashed>>
  PROVE  IInv'
<1>0. /\ Types /\ Order /\ Increasing /\ Memory /\ Lifetime /\ Tracked /\ Ops' = Ops
      /\ UNCHANGED <<api, blocking, pc, target, handles, owners, memory, queue, destroyer>>
  BY DEF IInv, Order, Ops, config, client, lifetime
<1>1. Front \in Ops /\ Front # 0 /\ Front \in Nat
  BY <1>0, FrontIsFirst DEF Ops
<1>2. PICK n : n = Front
  OBVIOUS
<1>3. PICK task \in TaskType : task.op = n /\ task.owns = owns /\ tasks' = Append(tasks, task)
  BY <1>1, <1>2 DEF Task, TaskType
<1>4. /\ tasks' \in Seq(TaskType)
      /\ \A k \in DOMAIN tasks' : \/ k \in DOMAIN tasks /\ tasks'[k] = tasks[k]
                                  \/ tasks'[k] = task
      /\ \E k \in DOMAIN tasks' : tasks'[k] = task
  <2>1. tasks \in Seq(TaskType)
    BY <1>0 DEF Types
  <2> QED
    BY <1>0, <1>3, <2>1, TaskAdded
<1>5. Types'
  <2>1. stream' \in Seq(Nat)
    BY <1>0, StreamAdvances
  <2> QED
    BY <1>0, <1>4, <2>1 DEF Types
<1>6. Order'
  <2>1. \A i : i = Front => i \in finished' \/ (ops[i].kind = "deferred" /\ Queued(i)')
    BY <1>2, <1>3, <1>4 DEF Queued
  <2> QED
    BY <1>0, <1>4, <2>1, OrderCompletes
<1>7. Memory'
  <2>1. Queued(0)' => Queued(0)
    BY <1>1, <1>2, <1>3, <1>4 DEF Queued
  <2> QED
    BY <1>0, <2>1 DEF Memory, Keeps, MemoryOutlivesItsUses
<1>8. Lifetime'
  <2>1. ~owns => (TaskOwnsQueue' => TaskOwnsQueue)
    BY <1>3, <1>4 DEF TaskOwnsQueue
  <2>2. queue # "alive" => ~Referenced'
    BY <1>0, <2>1 DEF Lifetime, Referenced
  <2> QED
    BY <1>0, <2>2, LifetimeStays
<1>9. Tracked'
  BY <1>0 DEF Tracked
<1> QED
  BY <1>5, <1>6, <1>7, <1>8, <1>9 DEF IInv

LEMMA CudaDeferredStep ==
  ASSUME IInv, CudaDeferred
  PROVE  IInv'
<1>0. /\ stream # <<>> /\ ~entered /\ ops[Front].kind = "deferred"
      /\ UNCHANGED <<config, ops, entered, signalled, phase, promised, finished, last,
                     event, lifetime, client, raced>>
  BY DEF CudaDeferred, Executes
<1>1. CASE Referenced
  <2>1. Complete /\ tasks' = Append(tasks, Task(Front, TRUE)) /\ crashed' = crashed
    BY <1>1 DEF CudaDeferred
  <2>2. queue = "alive"
    BY <1>1 DEF IInv, Lifetime
  <2> QED
    BY <1>0, <2>1, <2>2, Defers
<1>2. CASE ~Referenced
  <2>1. crashed' \in BOOLEAN /\ stream' = stream /\ tasks' = tasks
    BY <1>2 DEF CudaDeferred
  <2>2. UNCHANGED <<ops, stream, entered, tasks, phase, promised, finished, handles, owners, memory, queue>>
    BY <1>0, <2>1 DEF lifetime
  <2>3. Types' /\ Tracked'
    BY <1>0, <2>1 DEF IInv, Types, Tracked, Ops, config, lifetime, client
  <2> QED
    BY <2>2, <2>3, CallsOnly DEF IInv
<1> QED
  BY <1>1, <1>2

LEMMA SyclDeferredStep ==
  ASSUME IInv, SyclDeferred
  PROVE  IInv'
<1>0. /\ stream # <<>> /\ ~entered /\ ops[Front].kind = "deferred"
      /\ Complete /\ tasks' = Append(tasks, Task(Front, FALSE))
      /\ UNCHANGED <<config, ops, entered, signalled, phase, promised, finished, last,
                     event, lifetime, client, raced, crashed>>
  BY DEF SyclDeferred, Executes
<1> QED
  BY <1>0, Defers

LEMMA HostFuncSubmitStep ==
  ASSUME IInv, HostFuncSubmit
  PROVE  IInv'
<1>0. /\ Types /\ Order /\ Increasing /\ Memory /\ Lifetime /\ Tracked /\ Ops' = Ops
      /\ stream # <<>> /\ tasks' = Append(tasks, Task(Front, FALSE)) /\ entered' = TRUE
      /\ UNCHANGED <<api, blocking, pc, target, handles, owners, memory, queue, destroyer, ops, stream,
                     signalled, phase, promised, finished, last, event, raced, crashed>>
  BY DEF HostFuncSubmit, Executes, IInv, Order, Ops, config, client, lifetime
<1>1. Front \in Ops /\ Front # 0 /\ Front \in Nat
  BY <1>0, FrontIsFirst DEF Ops
<1>2. PICK task \in TaskType : task.op # 0 /\ task.owns = FALSE /\ tasks' = Append(tasks, task)
  BY <1>0, <1>1 DEF Task, TaskType
<1>3. \A k \in DOMAIN tasks' : (k \in DOMAIN tasks /\ tasks'[k] = tasks[k]) \/ tasks'[k] = task
  <2>1. Types /\ tasks \in Seq(TaskType)
    BY <1>0 DEF Types
  <2> QED
    BY <1>2, <2>1, TaskAdded
<1>4. Order' /\ tasks' \in Seq(TaskType)
  BY <1>0, OrderEnters
<1>5. Types' /\ Tracked'
  <2>0. /\ Types /\ Ops' = Ops /\ entered' = TRUE
        /\ UNCHANGED <<api, blocking, pc, target, handles, owners, memory, queue, destroyer, ops, stream>>
        /\ UNCHANGED <<signalled, phase, promised, finished, last, event, raced, crashed>>
    BY <1>0
  <2>1. Types'
    BY <1>4, <2>0 DEF Types
  <2>2. Tracked'
    BY <1>0 DEF Tracked
  <2> QED
    BY <2>1, <2>2
<1>6. Memory'
  <2>1. Queued(0)' => Queued(0)
    BY <1>2, <1>3 DEF Queued
  <2> QED
    BY <1>0, <2>1 DEF Memory, Keeps, MemoryOutlivesItsUses
<1>7. Lifetime'
  <2>1. TaskOwnsQueue' => TaskOwnsQueue
    BY <1>2, <1>3 DEF TaskOwnsQueue
  <2> QED
    BY <1>0, <2>1 DEF Lifetime, Referenced
<1> QED
  BY <1>4, <1>5, <1>6, <1>7 DEF IInv

LEMMA HostFuncWaitStep ==
  ASSUME IInv, HostFuncWait
  PROVE  IInv'
<1>0. /\ Types /\ Order /\ Increasing /\ Memory /\ Lifetime /\ Tracked /\ Ops' = Ops
      /\ entered /\ entered' = FALSE /\ Complete
      /\ UNCHANGED <<api, blocking, pc, target, handles, owners, memory, queue, destroyer, ops, tasks,
                     signalled, phase, promised, finished, last, event, raced, crashed>>
  BY DEF HostFuncWait, IInv, Order, Ops, config, client, lifetime, worker
<1>1. stream # <<>>
  BY <1>0 DEF Order, Entered
<1>2. Order'
  BY <1>0, OrderLeaves
<1>3. Types' /\ Tracked'
  <2>1. stream' \in Seq(Nat)
    BY <1>0, <1>1, StreamAdvances
  <2>0. /\ Types /\ Ops' = Ops /\ entered' \in BOOLEAN
        /\ UNCHANGED <<api, blocking, pc, target, handles, owners, memory, queue, destroyer, ops, tasks>>
        /\ UNCHANGED <<signalled, phase, promised, finished, last, event, raced, crashed>>
    BY <1>0
  <2>2. Types'
    BY <2>0, <2>1 DEF Types
  <2>3. Tracked'
    BY <1>0 DEF Tracked
  <2> QED
    BY <2>2, <2>3
<1>4. Memory'
  BY <1>0 DEF Memory, Queued, Keeps, MemoryOutlivesItsUses
<1>5. Lifetime'
  <2>1. ~Referenced => ~Referenced'
    BY <1>0 DEF Referenced, TaskOwnsQueue
  <2>2. queue # "alive" => ~Referenced'
    BY <1>0, <2>1 DEF Lifetime
  <2> QED
    BY <1>0, <1>1, <2>2, LifetimeStays
<1> QED
  BY <1>2, <1>3, <1>4, <1>5 DEF IInv

-----------------------------------------------------------------------------
(* The callback thread.                                                     *)

LEMMA CallbackRunStep ==
  ASSUME IInv, CallbackRun
  PROVE  IInv'
<1>0. /\ Types /\ Order /\ Tracked /\ tasks # <<>> /\ phase' = "run"
      /\ UNCHANGED <<ops, stream, entered, tasks, promised, finished, handles, owners, memory, queue>>
      /\ UNCHANGED <<config, signalled, pc, target, last, event, destroyer, raced, crashed, api>>
  BY DEF CallbackRun, device, lifetime, config, client, IInv
<1>1. Types'
  BY <1>0 DEF Types, config, Ops
<1>2. Order'
  <2>1. Phases'
    BY <1>0 DEF Phases
  <2>2. Pending' /\ Tasks' /\ Promises' /\ Entered' /\ Increasing'
    BY <1>0 DEF Order, Pending, Tasks, Submitted, Done, Promises, Entered, Increasing, InStream, Queued, Ops, Front
  <2> QED
    BY <2>1, <2>2 DEF Order
<1>3. Memory' /\ Lifetime' /\ Tracked'
  <2>1. Memory'
    BY <1>0 DEF IInv, Memory, Queued, Keeps, MemoryOutlivesItsUses, Ops
  <2>2. Lifetime'
    BY <1>0 DEF IInv, Lifetime, Referenced, TaskOwnsQueue
  <2>3. Tracked'
    BY <1>0 DEF Tracked, Ops
  <2> QED
    BY <2>1, <2>2, <2>3
<1> QED
  BY <1>1, <1>2, <1>3 DEF IInv

LEMMA CallbackBodyStep ==
  ASSUME IInv, CallbackBody
  PROVE  IInv'
<1>0. /\ Types /\ Order /\ Increasing /\ Memory /\ Lifetime /\ Tracked
      /\ phase = "run" /\ phase' = "destroy"
      /\ UNCHANGED <<entered, tasks, promised, handles, owners, memory, queue>>
      /\ UNCHANGED <<config, signalled, pc, target, last, event, destroyer, raced, crashed, api>>
  BY DEF CallbackBody, lifetime, config, client, IInv, Order
<1>1. tasks # <<>> /\ 1 \in DOMAIN tasks /\ tasks \in Seq(TaskType) /\ 0 \notin Ops
      /\ finished \subseteq Ops /\ promised \subseteq finished
  <2>1. tasks # <<>>
    BY <1>0 DEF Order, Phases
  <2> QED
    BY <1>0, <2>1 DEF Types, Ops
<1>2. /\ Grows /\ Ops \subseteq Ops' /\ finished \subseteq finished' /\ finished' \subseteq Ops
      /\ tasks[1].op # 0 => tasks[1].op \in finished'
      /\ \A i \in Ops' \ Ops : ops'[i].kind = "free" /\ ops'[i].buf = FALSE /\ memory \in {"freeing", "freed"}
  <2>1. CASE tasks[1].op = 0
    <3>1. Op("free", FALSE) \in OpType /\ Submit(Op("free", FALSE)) /\ finished' = finished
      BY <2>1 DEF CallbackBody, Op, OpType, OpKinds
    <3>2. Grows /\ Ops \subseteq Ops' /\ \A i \in Ops' \ Ops : ops'[i] = Op("free", FALSE)
      BY <1>0, <3>1, Submitting
    <3>3. memory \in {"freeing", "freed"}
      BY <1>0, <1>1, <2>1 DEF Memory, Queued
    <3> QED
      BY <1>1, <2>1, <3>1, <3>2, <3>3 DEF Op
  <2>2. CASE tasks[1].op # 0
    <3>1. finished' = finished \cup {tasks[1].op} /\ ops' = ops /\ stream' = stream
      BY <2>2 DEF CallbackBody
    <3>2. tasks[1].op \in Ops
      BY <1>0, <1>1, <2>2 DEF Order, Tasks
    <3> QED
      BY <1>1, <3>1, <3>2 DEF Grows, Ops
  <2> QED
    BY <2>1, <2>2
<1>3. Types'
  <2>1. ops' \in Seq(OpType) /\ stream' \in Seq(Nat)
    BY <1>0, <1>2, Growing
  <2> QED
    BY <1>0, <1>1, <1>2, <2>1 DEF Types, config
<1>4. Order'
  <2>1. \A i : Queued(i)' <=> Queued(i)
    BY <1>0 DEF Queued
  <2>2. \A i : Queued(i) /\ i # 0 => i \notin promised
    BY <1>0 DEF Order, Tasks, Queued
  <2>3. \A j, k \in DOMAIN tasks : tasks[j].op # 0 /\ tasks[j].op = tasks[k].op => j = k
    BY <1>0 DEF Order, Tasks
  <2>4. Phases'
    BY <1>0, <1>1, <1>2 DEF Phases
  <2> QED
    BY <1>0, <1>1, <1>2, <2>1, <2>2, <2>3, <2>4, OrderGrows
<1>5. Memory'
  <2>1. Queued(0)' => memory \in {"freeing", "freed"}
    BY <1>0 DEF Memory, Queued
  <2>2. owners' # {} => memory = "live"
    BY <1>0 DEF Memory
  <2> QED
    BY <1>0, <1>2, <2>1, <2>2, MemoryGrows
<1>6. Lifetime'
  <2>1. queue # "alive" => ~Referenced'
    BY <1>0 DEF Lifetime, Referenced, TaskOwnsQueue
  <2> QED
    BY <1>0, <1>2, <2>1, LifetimeStays
<1>7. Tracked'
  <2>1. \A d \in Client : pc'[d] = "submitted" => api = "sycl"
    BY <1>0 DEF Tracked
  <2> QED
    BY <1>0, <1>2, <2>1, TrackedStays
<1> QED
  BY <1>3, <1>4, <1>5, <1>6, <1>7 DEF IInv

\* The task in front is the last that keeps a buffer alive which nobody holds.
Deletes(task, rest) ==
  /\ Keeps(task.op) /\ owners = {} /\ memory = "live"
  /\ ~(\E k \in DOMAIN stream : Keeps(stream[k]))
  /\ ~(\E k \in DOMAIN rest : Keeps(rest[k].op))

LEMMA CallbackDestroyStep ==
  ASSUME IInv, CallbackDestroy
  PROVE  IInv'
<1>1. PICK task, rest :
        /\ task = tasks[1] /\ rest = Tail(tasks)
        /\ IF Deletes(task, rest) THEN Deleter(rest)
           ELSE tasks' = rest /\ UNCHANGED <<ops, stream, memory>>
        /\ DropQueue(Callback,
             /\ task.owns \/ Deletes(task, rest)
             /\ handles = {} /\ (memory # "live" \/ Deletes(task, rest))
             /\ ~\E k \in DOMAIN rest : rest[k].owns)
        /\ promised' = promised \cup ({task.op} \ {0})
  BY Zenon DEF CallbackDestroy, Deletes
<1>0. /\ Types /\ Order /\ Increasing /\ Memory /\ Lifetime /\ Tracked /\ phase = "destroy" /\ phase' = "idle"
      /\ UNCHANGED <<entered, finished, handles, owners>>
      /\ UNCHANGED <<config, signalled, pc, target, last, event, raced, crashed, api>>
  BY DEF CallbackDestroy, config, client, IInv, Order
<1>2. /\ tasks # <<>> /\ task \in TaskType /\ rest \in Seq(TaskType) /\ 1 \in DOMAIN tasks
      /\ \A k \in DOMAIN rest : k + 1 \in DOMAIN tasks /\ k \in Nat /\ k + 1 # 1 /\ rest[k] = tasks[k + 1]
      /\ \A k \in DOMAIN tasks : k = 1 \/ (k - 1 \in DOMAIN rest /\ rest[k - 1] = tasks[k])
  <2>1. tasks # <<>>
    BY <1>0 DEF Order, Phases
  <2> QED
    BY <1>0, <1>1, <2>1, TailOfTasks
<1>3. task.op # 0 => task.op \in Ops /\ task.op \in finished
  BY <1>0, <1>1, <1>2 DEF Order, Tasks, Phases
<1>4. /\ Grows /\ Ops \subseteq Ops' /\ tasks' \in Seq(TaskType)
      /\ \A k \in DOMAIN tasks' : (k \in DOMAIN rest /\ tasks'[k] = rest[k])
                                  \/ (tasks'[k].op = 0 /\ tasks'[k].owns = FALSE /\ Deletes(task, rest))
      /\ \A k \in DOMAIN rest : k \in DOMAIN tasks' /\ tasks'[k] = rest[k]
      /\ \A i \in Ops' \ Ops : ops'[i].kind = "free" /\ ops'[i].buf = FALSE /\ Deletes(task, rest)
      /\ memory' = IF Deletes(task, rest) THEN "freeing" ELSE memory
  <2>1. CASE Deletes(task, rest)
    BY <1>0, <1>1, <1>2, <2>1, Deleting
  <2>2. CASE ~Deletes(task, rest)
    BY <1>1, <1>2, <2>2 DEF Grows, Ops
  <2> QED
    BY <2>1, <2>2
<1>5. Types'
  <2>1. ops' \in Seq(OpType) /\ stream' \in Seq(Nat)
    BY <1>0, <1>4, Growing
  <2>2. queue' \in {queue, "sync"} /\ destroyer' \in {destroyer, Callback}
    BY <1>1 DEF DropQueue
  <2>3. promised' \subseteq finished' /\ memory' \in {"none", "live", "freeing", "freed"} /\ finished' \subseteq Ops'
    BY <1>0, <1>1, <1>3, <1>4 DEF Types
  <2> QED
    BY <1>0, <1>4, <2>1, <2>2, <2>3 DEF Types, config
<1>6. Order'
  <2>1. finished \subseteq Ops /\ promised \subseteq finished /\ 0 \notin Ops
    BY <1>0 DEF Types, Ops
  <2>2. ASSUME NEW i, Queued(i)', i # 0 PROVE Queued(i) /\ i \notin promised'
    <3>1. PICK k \in DOMAIN rest : rest[k].op = i
      BY <1>4, <2>2 DEF Queued
    <3>2. k + 1 \in DOMAIN tasks /\ tasks[k + 1].op = i /\ k + 1 # 1
      BY <1>2, <3>1
    <3>3. i # task.op /\ i \notin promised
      BY <1>0, <1>1, <1>2, <2>2, <3>2 DEF Order, Tasks
    <3> QED
      BY <1>1, <3>2, <3>3 DEF Queued
  <2>3. ASSUME NEW j \in DOMAIN tasks', NEW k \in DOMAIN tasks', tasks'[j].op # 0, tasks'[j].op = tasks'[k].op
        PROVE  j = k
    <3>1. /\ j \in DOMAIN rest /\ tasks'[j] = rest[j] /\ k \in DOMAIN rest /\ tasks'[k] = rest[k]
      BY <1>4, <2>3
    <3>2. /\ j + 1 \in DOMAIN tasks /\ k + 1 \in DOMAIN tasks /\ j \in Nat /\ k \in Nat
          /\ tasks[j + 1].op # 0 /\ tasks[j + 1].op = tasks[k + 1].op
      BY <1>2, <2>3, <3>1
    <3>3. j + 1 = k + 1
      BY <1>0, <3>2 DEF Order, Tasks
    <3> QED
      BY <3>2, <3>3
  <2>4. ASSUME NEW i, Queued(i), i # 0 PROVE Queued(i)' \/ i \in finished'
    <3>1. PICK k \in DOMAIN tasks : tasks[k].op = i
      BY <2>4 DEF Queued
    <3>2. CASE k = 1
      BY <1>0, <1>1, <1>3, <2>4, <3>1, <3>2
    <3>3. CASE k # 1
      BY <1>2, <1>4, <3>1, <3>3 DEF Queued
    <3> QED
      BY <3>2, <3>3
  <2>5. \A i \in promised' : i # 0 /\ (i \in promised \/ Queued(i))
    BY <1>1, <1>2, <2>1 DEF Queued
  <2>6. Phases'
    BY <1>0 DEF Phases
  <2>7. finished \subseteq finished' /\ finished' \subseteq Ops'
    BY <1>0, <1>4, <2>1
  <2> QED
    BY <1>0, <1>4, <2>2, <2>3, <2>4, <2>5, <2>6, <2>7, OrderGrows
<1>7. Memory'
  <2>1. CASE Deletes(task, rest)
    <3>1. owners' = {} /\ memory = "live" /\ memory' = "freeing"
      BY <1>0, <1>4, <2>1 DEF Deletes
    <3>2. ASSUME NEW i \in Ops, Keeps(i), i \notin finished PROVE FALSE
      <4>1. PICK k \in DOMAIN tasks : tasks[k].op = i
        BY <1>0, <2>1, <3>2, NothingKeepsIt DEF Deletes
      <4>2. k # 1
        BY <1>1, <1>3, <3>2, <4>1 DEF Keeps
      <4> QED
        BY <1>2, <2>1, <3>2, <4>1, <4>2 DEF Deletes
    <3> QED
      BY <1>0, <1>4, <3>1, <3>2, MemoryIsReleased
  <2>2. CASE ~Deletes(task, rest)
    <3>1. memory' = memory /\ Ops' \ Ops = {}
      BY <1>4, <2>2
    <3>2. Queued(0)' => Queued(0)
      BY <1>2, <1>4, <2>2 DEF Queued
    <3>3. Queued(0)' => memory \in {"freeing", "freed"}
      BY <1>0, <3>2 DEF Memory
    <3>4. owners' # {} => memory = "live"
      BY <1>0 DEF Memory
    <3> QED
      BY <1>0, <1>4, <3>1, <3>3, <3>4, MemoryGrows
  <2> QED
    BY <2>1, <2>2
<1>8. Lifetime'
  <2>1. (\A k \in DOMAIN rest : ~rest[k].owns) => ~TaskOwnsQueue'
    BY <1>4 DEF TaskOwnsQueue
  <2>2. CASE /\ task.owns \/ Deletes(task, rest)
             /\ handles = {} /\ (memory # "live" \/ Deletes(task, rest))
             /\ ~\E k \in DOMAIN rest : rest[k].owns
    <3>1. queue' = "sync"
      BY <1>1, <2>2 DEF DropQueue
    <3>2. handles' = {} /\ memory' # "live" /\ ~TaskOwnsQueue'
      BY <1>0, <1>4, <2>1, <2>2
    <3> QED
      BY <3>1, <3>2 DEF Lifetime, Referenced
  <2>3. CASE ~(/\ task.owns \/ Deletes(task, rest)
               /\ handles = {} /\ (memory # "live" \/ Deletes(task, rest))
               /\ ~\E k \in DOMAIN rest : rest[k].owns)
    <3>1. queue' = queue
      BY <1>1, <2>3 DEF DropQueue
    <3>2. queue # "alive" => ~Referenced
      BY <1>0 DEF Lifetime
    <3>3. ~Referenced => ~Deletes(task, rest) /\ \A k \in DOMAIN rest : ~rest[k].owns
      BY <1>2 DEF Referenced, Deletes, TaskOwnsQueue
    <3>4. queue # "alive" => ~Referenced'
      BY <1>0, <1>4, <2>1, <3>2, <3>3 DEF Referenced
    <3> QED
      BY <1>0, <1>4, <3>1, <3>4, LifetimeStays
  <2> QED
    BY <2>2, <2>3
<1>9. Tracked'
  <2>1. \A d \in Client : pc'[d] = "submitted" => api = "sycl"
    BY <1>0 DEF Tracked
  <2> QED
    BY <1>0, <1>4, <2>1, TrackedStays
<1> QED
  BY <1>5, <1>6, <1>7, <1>8, <1>9 DEF IInv

\* ~Queue.
LEMMA DestroyStep ==
  ASSUME IInv, Destroy
  PROVE  IInv'
<1>0. /\ Types /\ Order /\ Lifetime /\ Tracked /\ queue # "alive"
      /\ ((queue' = "members" /\ stream = <<>>) \/ (queue' = "dead" /\ queue = "members"))
      /\ destroyer' \in {destroyer, Nobody}
      /\ UNCHANGED <<ops, stream, entered, tasks, phase, promised, finished, handles, owners, memory>>
      /\ UNCHANGED <<config, signalled, pc, target, last, event, raced, crashed, api>>
  BY DEF Destroy, DestroySync, DestroyMembers, device, worker, config, client, IInv
<1>1. Types' /\ Tracked'
  <2>1. Types'
    BY <1>0 DEF Types, config, Ops
  <2>2. Tracked'
    BY <1>0 DEF Tracked, Ops
  <2> QED
    BY <2>1, <2>2
<1>2. Order'
  <2>1. Grows
    BY <1>0 DEF Grows
  <2> QED
    BY <1>0, <2>1, WorkerStays
<1>3. Memory'
  BY <1>0 DEF IInv, Memory, Queued, Keeps, MemoryOutlivesItsUses, Ops
<1>4. Lifetime'
  <2>1. ~Referenced'
    BY <1>0 DEF Lifetime, Referenced, TaskOwnsQueue
  <2>2. \A k \in DOMAIN stream : ops[stream[k]].kind = "free"
    BY <1>0 DEF Lifetime
  <2> QED
    BY <1>0, <2>1, <2>2 DEF Lifetime
<1> QED
  BY <1>1, <1>2, <1>3, <1>4 DEF IInv

-----------------------------------------------------------------------------
(* The theorems.                                                            *)

LEMMA InitiallyInv == Init => IInv
<1> SUFFICES ASSUME Init PROVE IInv
  OBVIOUS
<1>0. /\ ops = <<>> /\ stream = <<>> /\ tasks = <<>> /\ Len(ops) = 0
      /\ DOMAIN stream = {} /\ DOMAIN tasks = {} /\ Ops = {}
  BY DEF Init, Ops
<1>1. Types
  <2>1. ops \in Seq(OpType) /\ stream \in Seq(Nat) /\ tasks \in Seq(TaskType)
    BY <1>0
  <2> QED
    BY <2>1 DEF Init, Types, Nobody
<1>2. Order
  BY <1>0 DEF Init, Order, Increasing, Pending, Entered, Tasks, Promises, Phases
<1>3. Memory
  BY <1>0 DEF Init, Memory, Queued, MemoryOutlivesItsUses
<1>4. Lifetime /\ Tracked
  BY <1>0 DEF Init, Lifetime, Tracked
<1> QED
  BY <1>1, <1>2, <1>3, <1>4 DEF IInv

LEMMA StutteringStep == IInv /\ UNCHANGED vars => IInv'
<1> SUFFICES ASSUME IInv, UNCHANGED vars PROVE IInv'
  OBVIOUS
<1>0. /\ UNCHANGED <<ops, stream, entered, tasks, phase, promised, finished, handles, owners, memory, queue>>
      /\ UNCHANGED <<api, blocking, signalled, pc, target, last, event, destroyer, raced, crashed>>
  BY DEF vars, config, device, worker, lifetime, client
<1>1. Types'
  BY <1>0 DEF IInv, Types, Ops
<1>2. Tracked'
  BY <1>0 DEF IInv, Tracked, Ops
<1> QED
  BY <1>0, <1>1, <1>2, CallsOnly DEF IInv

(* The inductive invariant: the stream is in the order of submission, what  *)
(* has left it is done or deferred, and references, memory and the last     *)
(* event of SYCL go with it.                                                *)
THEOREM Invariance == Spec => []IInv
<1>1. IInv /\ [Next]_vars => IInv'
  <2> SUFFICES ASSUME IInv, [Next]_vars PROVE IInv'
    OBVIOUS
  <2>1. ASSUME NEW c \in Client, ClientCall(c) PROVE IInv'
    BY <2>1, CudaEnqueueStep, SyclEnqueueStep, SyclEnqueueUntrackedStep, AllocDeferredStep,
       WaitingStep, DropHandleStep, DropBufferStep DEF ClientCall
  <2>2. ASSUME NEW c \in Client, ClientStep(c) PROVE IInv'
    BY <2>2, SetLastEventStep, WaitingStep DEF ClientStep
  <2>3. ASSUME Runtime PROVE IInv'
    BY <2>3, RunStep, RunFreeStep, HostFuncSubmitStep, HostFuncWaitStep, CudaDeferredStep,
       SyclDeferredStep DEF Runtime
  <2>4. ASSUME CallbackThread PROVE IInv'
    BY <2>4, CallbackRunStep, CallbackBodyStep, CallbackDestroyStep DEF CallbackThread
  <2>5. CASE UNCHANGED vars
    BY <2>5, StutteringStep
  <2> QED
    BY <2>1, <2>2, <2>3, <2>4, <2>5, SignalStep, DestroyStep DEF Next
<1> QED
  BY <1>1, InitiallyInv, PTL DEF Spec

\* Who finds an operation gone from the stream finds all before it done.
LEMMA GoneMeansDone ==
  ASSUME IInv, NEW n \in Ops \cup {0}, Completed(n)
  PROVE  DoneUpTo(n)
<1>1. \A i \in 1 .. n : i \in Ops /\ i \in Nat /\ n \in Nat /\ i <= n
  BY DEF Ops, IInv, Types
<1>2. ASSUME NEW i \in 1 .. n, InStream(i) PROVE FALSE
  <2>1. PICK k \in DOMAIN stream : stream[k] = i
    BY <1>2 DEF InStream
  <2> QED
    BY <1>1, <2>1 DEF Completed
<1> QED
  BY <1>1, <1>2 DEF IInv, Order, Pending, DoneUpTo

\* What has become finished has all before it done.
LEMMA FrontIsLate ==
  ASSUME IInv, stream # <<>>, NEW j \in 1 .. Front - 1
  PROVE  Done(j)
<1>1. Front \in Ops /\ \A i : InStream(i) => Front <= i
  BY FrontIsFirst DEF IInv, Order
<1>2. j \in Ops /\ ~InStream(j)
  BY <1>1 DEF Ops, IInv, Types
<1> QED
  BY <1>2 DEF IInv, Order, Pending, Done

(* A true isEventComplete() covers what was enqueued before the event, and  *)
(* a true isQueueEmpty() the operations of every call that has returned     *)
(* (unifiedCudaHip/Queue.hpp, syclGeneric/Queue.hpp), unless two threads    *)
(* have stored m_lastEvent in the wrong order.  A SYCL kernel with a frame  *)
(* specification is never stored (oneApi/Queue.hpp:684): no such kernels on *)
(* SYCL.                                                                    *)
THEOREM EmptyReportsAreTrue ==
  ASSUME "frame" \notin Kinds \/ "sycl" \notin Apis
  PROVE  Spec => []EmptyMeansDone
<1>1. IInv => EmptyMeansDone
  <2> SUFFICES ASSUME IInv PROVE EmptyMeansDone
    OBVIOUS
  <2>1. IsEventComplete => DoneUpTo(event)
    BY GoneMeansDone DEF IsEventComplete, IInv, Types
  <2>2. ASSUME IsQueueEmpty, ~raced, NEW i \in Ops
        PROVE  \/ i \in finished
               \/ ops[i].kind = "deferred"
               \/ \E c \in Client : pc[c] = "submitted" /\ target[c] = i
               \/ api = "sycl" /\ ops[i].kind \in {"event", "free"}
    <3>1. CASE api = "cuda"
      <4>1. ~InStream(i)
        BY <2>2, <3>1, StreamIsFilled DEF IsQueueEmpty, IInv
      <4> QED
        BY <4>1 DEF IInv, Order, Pending
    <3>2. CASE api # "cuda"
      <4>1. api = "sycl" /\ DoneUpTo(last)
        BY <2>2, <3>2, GoneMeansDone, ApiAssumption DEF IsQueueEmpty, IInv, Types
      <4>2. i <= last => i \in 1 .. last
        BY DEF Ops, IInv, Types
      <4>3. ops[i].kind # "frame"
        BY <4>1 DEF IInv, Tracked, Types
      <4> QED
        BY <2>2, <4>1, <4>2, <4>3 DEF IInv, Tracked, DoneUpTo
    <3> QED
      BY <3>1, <3>2
  <2> QED
    BY <2>1, <2>2 DEF EmptyMeansDone
<1> QED
  BY <1>1, Invariance, PTL

(* The memory of allocDeferred is freed when every operation that uses it   *)
(* is done, and the tasks that keep it alive too, in whatever thread its    *)
(* deleter has run.                                                         *)
THEOREM MemoryIsFreedLast == Spec => []MemoryOutlivesItsUses
<1>1. IInv => MemoryOutlivesItsUses
  BY DEF IInv, Memory
<1> QED
  BY <1>1, Invariance, PTL

\* The parts of OrderIsKept hold of every step.
LEMMA ReturnStep ==
  ASSUME IInv, Next, NEW c \in Client, pc[c] \in {"block", "wait"}, pc'[c] = "idle"
  PROVE  DoneUpTo(target[c])
<1>0. pc \in [Client -> {"idle", "submitted", "block", "wait"}] /\ target[c] \in Ops \cup {0}
  BY DEF IInv, Types
<1>1. ASSUME NEW d \in Client, ClientCall(d) PROVE pc'[c] = pc[c]
  <2>1. \E p : pc' = [pc EXCEPT ![d] = p] /\ (pc[d] = "idle" \/ pc' = pc)
    BY <1>1 DEF ClientCall, CudaEnqueue, SyclEnqueue, SyclEnqueueUntracked, AllocDeferred, Wait,
                EventWait, DropHandle, DropBuffer, Synchronise, Idle, client
  <2> QED
    BY <1>0, <2>1
<1>2. ASSUME NEW d \in Client, SetLastEvent(d) PROVE pc'[c] = pc[c]
  BY <1>0, <1>2 DEF SetLastEvent, Synchronise
<1>3. ASSUME NEW d \in Client, Return(d) PROVE Completed(target[c])
  BY <1>0, <1>3 DEF Return
<1>4. ASSUME Runtime \/ Signal \/ CallbackThread \/ Destroy PROVE pc' = pc
  BY <1>4 DEF Runtime, RunDevice, RunAwait, RunFree, HostFuncSubmit, HostFuncWait, CudaDeferred, SyclDeferred,
              Signal, CallbackThread, CallbackRun, CallbackBody, CallbackDestroy, Destroy, DestroySync,
              DestroyMembers, client
<1>5. Completed(target[c])
  BY <1>1, <1>2, <1>3, <1>4 DEF Next, ClientStep
<1> QED
  BY <1>0, <1>5, GoneMeansDone

LEMMA OrderStep ==
  ASSUME IInv, Next, NEW i \in finished' \ finished, NEW j \in 1 .. i - 1
  PROVE  Done(j)
<1>1. CASE stream # <<>> /\ i = Front
  BY <1>1, FrontIsLate
<1>2. ASSUME NEW d \in Client, ClientCall(d) \/ ClientStep(d) PROVE finished' = finished
  BY <1>2 DEF ClientCall, ClientStep, CudaEnqueue, SyclEnqueue, SyclEnqueueUntracked, AllocDeferred, Wait,
              EventWait, DropHandle, DropBuffer, SetLastEvent, Return
<1>3. ASSUME Runtime \/ Signal \/ Destroy PROVE finished' = finished \/ (stream # <<>> /\ finished' = finished \cup {Front})
  BY <1>3 DEF Runtime, RunDevice, RunAwait, RunFree, HostFuncSubmit, HostFuncWait, CudaDeferred, SyclDeferred,
              Signal, Destroy, DestroySync, DestroyMembers, Executes, worker
<1>4. ASSUME CallbackThread PROVE Done(j)
  <2>1. phase = "run" /\ tasks[1].op # 0 /\ i = tasks[1].op
    BY <1>4 DEF CallbackThread, CallbackRun, CallbackBody, CallbackDestroy
  <2>2. tasks # <<>> /\ 1 \in DOMAIN tasks
    BY <2>1 DEF IInv, Order, Phases, Types
  <2>3. Submitted(i)
    BY <2>1, <2>2 DEF IInv, Order, Tasks
  <2>4. CASE ops[i].kind = "host" /\ entered /\ i = Front
    BY <1>1, <2>4 DEF IInv, Order, Entered
  <2> QED
    BY <2>3, <2>4 DEF Submitted
<1> QED
  BY <1>1, <1>2, <1>3, <1>4 DEF Next

LEMMA DestructionStep ==
  ASSUME IInv, Next, queue' = "dead", queue # "dead", destroyer # Callback, NEW i \in Ops
  PROVE  i \in finished \/ ops[i].kind = "free"
<1>1. ASSUME NEW d \in Client, ClientCall(d) \/ ClientStep(d) PROVE FALSE
  <2>1. queue' \in {queue, "sync"}
    BY <1>1 DEF ClientCall, ClientStep, CudaEnqueue, SyclEnqueue, SyclEnqueueUntracked, AllocDeferred, Wait,
                EventWait, DropHandle, DropBuffer, SetLastEvent, Return, DropQueue, lifetime
  <2> QED
    BY <2>1
<1>2. ASSUME Runtime \/ Signal PROVE FALSE
  BY <1>2 DEF Runtime, RunDevice, RunAwait, RunFree, HostFuncSubmit, HostFuncWait, CudaDeferred, SyclDeferred,
              Signal, lifetime
<1>3. ASSUME CallbackThread PROVE FALSE
  <2>1. queue' \in {queue, "sync"}
    BY <1>3 DEF CallbackThread, CallbackRun, CallbackBody, CallbackDestroy, DropQueue, lifetime
  <2> QED
    BY <2>1
<1>4. queue = "members" /\ tasks = <<>>
  BY <1>1, <1>2, <1>3 DEF Next, Destroy, DestroySync, DestroyMembers
<1>5. ~Queued(i)
  <2>1. DOMAIN tasks = {}
    BY <1>4
  <2> QED
    BY <2>1 DEF Queued
<1>6. InStream(i) => ops[i].kind = "free"
  BY <1>4 DEF IInv, Lifetime, InStream
<1> QED
  BY <1>5, <1>6 DEF IInv, Order, Pending

(* A call that blocks returns when what it waits for is done; work starts   *)
(* after all work before it, in the stream and in the callback thread       *)
(* together; and ~Queue leaves nothing but the release of memory undone     *)
(* when it returns in a thread of the program.                              *)
THEOREM QueueKeepsOrder == Spec => OrderIsKept
<1>1. ASSUME IInv, [Next]_vars
      PROVE  [\A c \in Client : pc[c] \in {"block", "wait"} /\ pc'[c] = "idle" => DoneUpTo(target[c])]_vars
  BY <1>1, ReturnStep
<1>2. ASSUME IInv, [Next]_vars
      PROVE  [\A i \in finished' \ finished : \A j \in 1 .. i - 1 :
                j \in finished \/ ops[j].kind = "deferred"]_vars
  BY <1>2, OrderStep DEF Done
<1>3. ASSUME IInv, [Next]_vars
      PROVE  [queue' = "dead" /\ queue # "dead" /\ destroyer # Callback =>
                \A i \in Ops : i \in finished \/ ops[i].kind = "free"]_vars
  BY <1>3, DestructionStep
<1>4. Spec => ReturnMeansDone
  BY <1>1, Invariance, PTL DEF Spec, ReturnMeansDone
<1>5. Spec => WorkIsInOrder
  BY <1>2, Invariance, PTL DEF Spec, WorkIsInOrder
<1>6. Spec => DestructionDrains
  BY <1>3, Invariance, PTL DEF Spec, DestructionDrains
<1> QED
  BY <1>4, <1>5, <1>6 DEF OrderIsKept

(* Type correctness: the operations in the stream and in the tasks of the   *)
(* callback thread have been submitted, and waits are for such.             *)
THEOREM TypeCorrect == Spec => []TypeOK
<1>1. IInv => TypeOK
  <2> SUFFICES ASSUME IInv PROVE TypeOK
    OBVIOUS
  <2>1. stream \in Seq(Ops)
    <3>1. stream \in Seq(Nat) /\ Len(stream) \in Nat /\ DOMAIN stream = 1 .. Len(stream)
      BY DEF IInv, Types
    <3>2. \A k \in 1 .. Len(stream) : stream[k] \in Ops
      BY <3>1 DEF IInv, Order, Increasing
    <3> QED
      BY <3>1, <3>2
  <2>2. tasks \in Seq([op : Ops \cup {0}, owns : BOOLEAN])
    <3>1. /\ tasks \in Seq(TaskType) /\ Len(tasks) \in Nat /\ DOMAIN tasks = 1 .. Len(tasks)
          /\ \A k \in 1 .. Len(tasks) : tasks[k] \in TaskType
      BY DEF IInv, Types
    <3>2. \A k \in 1 .. Len(tasks) : tasks[k].op \in Ops \cup {0}
      BY <3>1 DEF IInv, Order, Tasks
    <3>3. \A k \in 1 .. Len(tasks) : tasks[k] \in [op : Ops \cup {0}, owns : BOOLEAN]
      BY <3>1, <3>2 DEF TaskType
    <3>4. \A S : (\A k \in 1 .. Len(tasks) : tasks[k] \in S) => tasks \in Seq(S)
      BY <3>1
    <3> QED
      BY <3>3, <3>4
  <2>3. ops \in Seq([kind : {"kernel", "frame", "host", "deferred", "event", "await", "alloc", "free"},
                     buf : BOOLEAN])
    BY DEF IInv, Types, OpType, OpKinds
  <2> QED
    BY <2>1, <2>2, <2>3 DEF IInv, Types, TypeOK
<1> QED
  BY <1>1, Invariance, PTL
=============================================================================
