----------------------------- MODULE HostMemory -----------------------------
(***************************************************************************)
(* Lifetime of memory, queues and their device on the host:                *)
(* onHost::SharedBuffer and ManagedDealloc (onHost/mem), cpu::Device with  *)
(* its registry of queues (api/host/Device.hpp), allocDeferred and the     *)
(* destructor of cpu::Queue (api/host/Queue.hpp).                          *)
(*                                                                         *)
(* Memory and queues are reference counted.  Whoever drops the last        *)
(* reference, a thread of the program or the worker of a queue, executes   *)
(* the destructor, which may wait for queues, enqueue operations and drop  *)
(* further references.  A thread's destructors are a sequence of steps     *)
(* here, executed one by one, so that all threads interleave.              *)
(*                                                                         *)
(* Queues are non-blocking; each is a serial executor (CallbackThread): an *)
(* operation is executed, popped, its captures are destroyed and then its  *)
(* future is set.                                                          *)
(***************************************************************************)
EXTENDS Sequences, Integers, FiniteSets

CONSTANTS
  Queue, Buffer,
  Client,       \* the threads a program may have
  Program,      \* the programs: which of the threads and which queues each has
  None,         \* no queue, no operation
  MaxCalls      \* bound: operations enqueued, destructor actions added and
                \* waits for the device

ASSUME NoneAssumption == None \notin Queue \cup Buffer
ASSUME ThreadAssumption == Queue \cap Client = {}
ASSUME BoundAssumption == MaxCalls \in Nat
ASSUME ProgramAssumption ==
  Program \subseteq [threads : SUBSET Client, queues : SUBSET Queue]

VARIABLES
  program,     \* the program that runs
  queues,      \* Device::queues: the queues ever made, as weak references
  queueRefs,   \* queueRefs[q]: who holds a shared_ptr of q
  ended,       \* queues whose destructor is over
  bufferRefs,  \* bufferRefs[b]: who holds a shared_ptr of b's ManagedDealloc
  memory,      \* memory[b]: "none", "live" or "freed"
  home,        \* home[b]: the queue b was allocated in with allocDeferred, or None
  actions,     \* actions[b]: the queues b's destructor actions wait for
  fifo,        \* fifo[q]: the operations in q, the one being executed in front
  held,        \* held[q]: the popped operation whose captures are destroyed
  running,     \* whether q's worker executes the front operation
  todo,        \* todo[t]: the steps thread t still has to execute
  owed,        \* history: owed[c][q] unfinished operations of q preceded c's
               \* device.wait()
  calls        \* the calls bounded by MaxCalls, so far

callVars == <<todo, owed>>
queueVars == <<queues, queueRefs, ended>>
bufferVars == <<bufferRefs, memory, home, actions>>
workerVars == <<fifo, held, running>>
vars == <<program, queueVars, bufferVars, workerVars, callVars, calls>>

Thread == Client \cup Queue  \* the worker of a queue goes by the queue's name

(* References: a handle of a client, the lock() of a weak_ptr, the captures *)
(* of a buffer's freeOp and actions, and of a keepAlive operation.          *)
Handle(c) == <<"handle", c>>
Locked(c) == <<"lock", c>>
FreeOp(b) == <<"freeOp", b>>
Action(b, i) == <<"action", b, i>>
Keeper(q) == <<"keep", q>>

Op(kind, b, t) == [kind |-> kind, buffer |-> b, by |-> t]
Step(do, q, b, ref) == [do |-> do, queue |-> q, buffer |-> b, ref |-> ref]

(* What matters to the order of things is the type of these, the tags of    *)
(* references are left open.                                                *)
TypeOK ==
  /\ program \in Program
  /\ queues \in Seq(Queue)
  /\ ended \subseteq Queue
  /\ memory \in [Buffer -> {"none", "live", "freed"}]
  /\ home \in [Buffer -> Queue \cup {None}]
  /\ actions \in [Buffer -> Seq(Queue)]
  /\ \A q \in Queue :
       /\ \A k \in DOMAIN fifo[q] :
            /\ fifo[q][k].kind \in {"use", "keep", "free", "marker"}
            /\ fifo[q][k].buffer \in Buffer \cup {None}
       /\ running[q] => fifo[q] # <<>> /\ held[q] = None
  /\ \A t \in Thread : \A k \in DOMAIN todo[t] :
       todo[t][k].do \in {"wait", "mark", "await", "free", "release", "end", "lock", "return"}
  /\ owed \in [Client -> [Queue -> Nat]]
  /\ calls \in 0 .. MaxCalls

Init ==
  /\ program \in Program
  /\ queues = <<>>
  /\ queueRefs = [q \in Queue |-> {}]
  /\ ended = {}
  /\ bufferRefs = [b \in Buffer |-> {}]
  /\ memory = [b \in Buffer |-> "none"]
  /\ home = [b \in Buffer |-> None]
  /\ actions = [b \in Buffer |-> <<>>]
  /\ fifo = [q \in Queue |-> <<>>]
  /\ held = [q \in Queue |-> None]
  /\ running = [q \in Queue |-> FALSE]
  /\ todo = [t \in Thread |-> <<>>]
  /\ owed = [c \in Client |-> [q \in Queue |-> 0]]
  /\ calls = 0

-----------------------------------------------------------------------------
Idle(c) == todo[c] = <<>>
Holds(c, q) == Handle(c) \in queueRefs[q]
Owns(c, b) == Handle(c) \in bufferRefs[b]
Made == {queues[k] : k \in DOMAIN queues}

Push(q, op) == fifo' = [fifo EXCEPT ![q] = Append(@, op)]

(* Variants of Dealloc: the memory is freed before the actions; freeOp's    *)
(* captures are destroyed before it is called; they are never destroyed.    *)
DeallocFreesFirst(b) ==
  LET n == Len(actions[b]) IN
  <<Step("free", home[b], b, None)>>
    \o [i \in 1 .. n |-> Step("wait", actions[b][i], None, None)]
    \o [i \in 1 .. n |-> Step("release", actions[b][i], None, Action(b, i))]
    \o IF home[b] = None THEN <<>>
       ELSE <<Step("release", home[b], None, FreeOp(b))>>

(* ~ManagedDealloc: the actions in their order, freeOp(), and then the      *)
(* members are destroyed: the captures of the actions and of freeOp.        *)
Dealloc(b) ==
  LET n == Len(actions[b]) IN
  [i \in 1 .. n |-> Step("wait", actions[b][i], None, None)]
    \o <<Step("free", home[b], b, None)>>
    \o [i \in 1 .. n |-> Step("release", actions[b][i], None, Action(b, i))]
    \o IF home[b] = None THEN <<>>
       ELSE <<Step("release", home[b], None, FreeOp(b))>>

(* ~Queue: wait for the queue, then the worker thread is joined. *)
Destroy(q) == <<Step("wait", q, None, None), Step("end", q, None, None)>>

(* Dropping a reference: the steps of the destructor, if it was the last.   *)
AfterBuffer(b, ref) == IF bufferRefs[b] = {ref} THEN Dealloc(b) ELSE <<>>
AfterQueue(q, ref) == IF queueRefs[q] = {ref} THEN Destroy(q) ELSE <<>>

-----------------------------------------------------------------------------
(* The program. *)

(* Device::makeQueue(), alloc() and allocDeferred() return a handle; every  *)
(* thread gets a copy of it, one that has no use for it can drop it.        *)
Handles == {Handle(c) : c \in program.threads}

(* Device::makeQueue() *)
MakeQueue(c, q) ==
  /\ Idle(c)
  /\ q \notin Made
  /\ queues' = Append(queues, q)
  /\ queueRefs' = [queueRefs EXCEPT ![q] = Handles]
  /\ UNCHANGED <<ended, bufferVars, workerVars, callVars, calls>>

(* onHost::alloc(): freeOp captures the pointer and the device. *)
Alloc(c, b) ==
  /\ Idle(c)
  /\ memory[b] = "none"
  /\ memory' = [memory EXCEPT ![b] = "live"]
  /\ bufferRefs' = [bufferRefs EXCEPT ![b] = Handles]
  /\ UNCHANGED <<queueVars, home, actions, workerVars, callVars, calls>>

(* onHost::allocDeferred(): freeOp captures the queue, too. *)
AllocDeferred(c, q, b) ==
  /\ Idle(c)
  /\ Holds(c, q)
  /\ memory[b] = "none"
  /\ memory' = [memory EXCEPT ![b] = "live"]
  /\ bufferRefs' = [bufferRefs EXCEPT ![b] = Handles]
  /\ home' = [home EXCEPT ![b] = q]
  /\ queueRefs' = [queueRefs EXCEPT ![q] = @ \cup {FreeOp(b)}]
  /\ UNCHANGED <<queues, ended, actions, workerVars, callVars, calls>>

Call == calls < MaxCalls /\ calls' = calls + 1

(* A kernel or a copy enqueued with views or pointers of the buffer: these  *)
(* do not extend its life.                                                  *)
Use(c, q, b) ==
  /\ Idle(c)
  /\ Holds(c, q) /\ Owns(c, b)
  /\ Call
  /\ Push(q, Op("use", b, c))
  /\ UNCHANGED <<queueVars, bufferVars, held, running, callVars>>

(* SharedBuffer::keepAlive(): not for deferred allocations, by its comment, *)
(* and not together with destructorWaitFor(): the worker that drops the     *)
(* last reference would execute the action and might wait for itself.       *)
KeepAlive(c, q, b) ==
  /\ Idle(c)
  /\ Holds(c, q) /\ Owns(c, b)
  /\ home[b] = None
  /\ actions[b] = <<>>
  /\ Keeper(q) \notin bufferRefs[b]
  /\ Call
  /\ bufferRefs' = [bufferRefs EXCEPT ![b] = @ \cup {Keeper(q)}]
  /\ Push(q, Op("keep", b, c))
  /\ UNCHANGED <<queueVars, memory, home, actions, held, running, callVars>>

(* Variant: the action captures the buffer itself. *)
DestructorWaitCapturesBuffer(c, q, b) ==
  /\ Idle(c)
  /\ Holds(c, q) /\ Owns(c, b)
  /\ \A k \in DOMAIN actions[b] : actions[b][k] # q
  /\ Call
  /\ \A p \in Queue : Keeper(p) \notin bufferRefs[b]
  /\ actions' = [actions EXCEPT ![b] = Append(@, q)]
  /\ queueRefs' = [queueRefs EXCEPT ![q] = @ \cup {Action(b, Len(actions[b]) + 1)}]
  /\ bufferRefs' = [bufferRefs EXCEPT ![b] = @ \cup {Action(b, Len(actions[b]) + 1)}]
  /\ UNCHANGED <<queues, ended, memory, home, workerVars, callVars>>

(* SharedBuffer::destructorWaitFor(): the action holds a queue handle.      *)
DestructorWaitFor(c, q, b) ==
  /\ Idle(c)
  /\ Holds(c, q) /\ Owns(c, b)
  /\ \A k \in DOMAIN actions[b] : actions[b][k] # q
  /\ Call
  /\ \A p \in Queue : Keeper(p) \notin bufferRefs[b]
  /\ actions' = [actions EXCEPT ![b] = Append(@, q)]
  /\ queueRefs' = [queueRefs EXCEPT ![q] = @ \cup {Action(b, Len(actions[b]) + 1)}]
  /\ UNCHANGED <<queues, ended, bufferRefs, memory, home, workerVars, callVars>>

(* What a thread has to see to before it gives up a buffer: its operations  *)
(* that use it come before the release.                                     *)
Covered(q, b, k) ==
  \/ home[b] = q
  \/ \E i \in DOMAIN actions[b] : actions[b][i] = q
  \/ \E j \in DOMAIN fifo[q] : j > k /\ fifo[q][j] = Op("keep", b, fifo[q][k].by)

DropBuffer(c, b) ==
  /\ Idle(c)
  /\ Owns(c, b)
  /\ \A q \in Queue : \A k \in DOMAIN fifo[q] :
       fifo[q][k] = Op("use", b, c) => Covered(q, b, k)
  /\ bufferRefs' = [bufferRefs EXCEPT ![b] = @ \ {Handle(c)}]
  /\ todo' = [todo EXCEPT ![c] = AfterBuffer(b, Handle(c))]
  /\ UNCHANGED <<queueVars, memory, home, actions, workerVars, owed, calls>>

DropQueue(c, q) ==
  /\ Idle(c)
  /\ Holds(c, q)
  /\ queueRefs' = [queueRefs EXCEPT ![q] = @ \ {Handle(c)}]
  /\ todo' = [todo EXCEPT ![c] = AfterQueue(q, Handle(c))]
  /\ UNCHANGED <<queues, ended, bufferVars, workerVars, owed, calls>>

(* Device::wait(): the weak references are copied under the lock, then each *)
(* queue that still exists is kept alive and waited for.                    *)
DeviceWait(c) ==
  /\ Idle(c)
  /\ Call
  /\ todo' = [todo EXCEPT ![c] =
       [k \in DOMAIN queues |-> Step("lock", queues[k], None, None)]
         \o <<Step("return", None, None, None)>>]
  /\ owed' = [owed EXCEPT ![c] =
       [q \in Queue |-> Len(fifo[q])]]
  /\ UNCHANGED <<queueVars, bufferVars, workerVars>>

-----------------------------------------------------------------------------
(* The steps of a thread t inside of Device::wait() or a destructor. *)

At(t, do) == todo[t] # <<>> /\ Head(todo[t]).do = do
Target(t) == Head(todo[t]).queue
Then(t, steps) == todo' = [todo EXCEPT ![t] = steps \o Tail(@)]

(* Variant: the queue is only looked up. *)
LockQueueWithoutWait(t) ==
  /\ At(t, "lock")
  /\ Then(t, <<>>)
  /\ UNCHANGED <<queueVars, bufferVars, workerVars, owed, calls>>

LockQueue(t) ==
  LET q == Target(t) IN
  /\ At(t, "lock")
  /\ IF queueRefs[q] = {}
       THEN /\ Then(t, <<>>)
            /\ UNCHANGED queueRefs
       ELSE /\ queueRefs' = [queueRefs EXCEPT ![q] = @ \cup {Locked(t)}]
            /\ Then(t, <<Step("wait", q, None, None), Step("release", q, None, Locked(t))>>)
  /\ UNCHANGED <<queues, ended, bufferVars, workerVars, owed, calls>>

(* internal::wait(queue): nothing if it is empty, else a marker is enqueued *)
(* and its future awaited.                                                  *)
WaitQueue(t) ==
  LET q == Target(t) IN
  /\ At(t, "wait")
  /\ Then(t, IF fifo[q] = <<>> THEN <<>> ELSE <<Step("mark", q, None, None)>>)
  /\ UNCHANGED <<queueVars, bufferVars, workerVars, owed, calls>>

MarkQueue(t) ==
  LET q == Target(t) IN
  /\ At(t, "mark")
  /\ Push(q, Op("marker", None, t))
  /\ Then(t, <<Step("await", q, None, None)>>)
  /\ UNCHANGED <<queueVars, bufferVars, held, running, owed, calls>>

AwaitMarker(t) ==
  LET q == Target(t) IN
  /\ At(t, "await")
  /\ \A k \in DOMAIN fifo[q] : fifo[q][k] # Op("marker", None, t)
  /\ held[q] # Op("marker", None, t)
  /\ Then(t, <<>>)
  /\ UNCHANGED <<queueVars, bufferVars, workerVars, owed, calls>>

(* freeOp(): at once, or by an operation of the queue. *)
FreeMemory(t) ==
  LET b == Head(todo[t]).buffer IN
  /\ At(t, "free")
  /\ IF home[b] = None
       THEN /\ memory' = [memory EXCEPT ![b] = "freed"]
            /\ UNCHANGED fifo
       ELSE /\ Push(home[b], Op("free", b, t))
            /\ UNCHANGED memory
  /\ Then(t, <<>>)
  /\ UNCHANGED <<queueVars, bufferRefs, home, actions, held, running, owed, calls>>

ReleaseQueue(t) ==
  LET q == Target(t)
      ref == Head(todo[t]).ref
  IN /\ At(t, "release")
     /\ queueRefs' = [queueRefs EXCEPT ![q] = @ \ {ref}]
     /\ Then(t, AfterQueue(q, ref))
     /\ UNCHANGED <<queues, ended, bufferVars, workerVars, owed, calls>>

(* ~CallbackThread: the worker is joined, or detached if it is the thread.  *)
EndQueue(t) ==
  LET q == Target(t) IN
  /\ At(t, "end")
  /\ t # q => fifo[q] = <<>> /\ held[q] = None
  /\ ended' = ended \cup {q}
  /\ Then(t, <<>>)
  /\ UNCHANGED <<queues, queueRefs, bufferVars, workerVars, owed, calls>>

ReturnFromWait(t) ==
  /\ At(t, "return")
  /\ Then(t, <<>>)
  /\ owed' = [owed EXCEPT ![t] = [q \in Queue |-> 0]]
  /\ UNCHANGED <<queueVars, bufferVars, workerVars, calls>>

ThreadStep(t) ==
  /\ \/ LockQueue(t)
     \/ WaitQueue(t)
     \/ MarkQueue(t)
     \/ AwaitMarker(t)
     \/ FreeMemory(t)
     \/ ReleaseQueue(t)
     \/ EndQueue(t)
     \/ t \in Client /\ ReturnFromWait(t)
  /\ UNCHANGED program

-----------------------------------------------------------------------------
(* The worker of q. *)

WorkerRun(q) ==
  /\ fifo[q] # <<>>
  /\ ~running[q]
  /\ held[q] = None
  /\ running' = [running EXCEPT ![q] = TRUE]
  /\ UNCHANGED <<queueVars, bufferVars, fifo, held, callVars, calls>>

(* The body is over, a deferred free has freed, and the slot is popped.     *)
WorkerPop(q) ==
  LET op == Head(fifo[q]) IN
  /\ running[q]
  /\ running' = [running EXCEPT ![q] = FALSE]
  /\ held' = [held EXCEPT ![q] = op]
  /\ fifo' = [fifo EXCEPT ![q] = Tail(@)]
  /\ memory' = IF op.kind = "free" THEN [memory EXCEPT ![op.buffer] = "freed"] ELSE memory
  /\ owed' = [c \in Client |-> [owed[c] EXCEPT ![q] = IF @ > 0 THEN @ - 1 ELSE 0]]
  /\ UNCHANGED <<queueVars, bufferRefs, home, actions, todo, calls>>

(* The captures are destroyed: a keepAlive operation drops its reference.   *)
WorkerDropCapture(q) ==
  LET b == held[q].buffer IN
  /\ held[q] # None
  /\ held[q].kind = "keep"
  /\ held' = [held EXCEPT ![q] = Op("dropped", None, @.by)]
  /\ bufferRefs' = [bufferRefs EXCEPT ![b] = @ \ {Keeper(q)}]
  /\ todo' = [todo EXCEPT ![q] = AfterBuffer(b, Keeper(q))]
  /\ UNCHANGED <<queueVars, memory, home, actions, fifo, running, owed, calls>>

(* The promise is set, when the destructors are over. *)
WorkerSetPromise(q) ==
  /\ held[q] # None
  /\ held[q].kind # "keep"
  /\ todo[q] = <<>>
  /\ held' = [held EXCEPT ![q] = None]
  /\ UNCHANGED <<queueVars, bufferVars, fifo, running, callVars, calls>>

WorkerStep(q) ==
  /\ \/ WorkerRun(q)
     \/ WorkerPop(q)
     \/ WorkerDropCapture(q)
     \/ WorkerSetPromise(q)
  /\ UNCHANGED program

-----------------------------------------------------------------------------
ClientCall(c) ==
  /\ \/ \E q \in program.queues : MakeQueue(c, q) \/ DropQueue(c, q)
     \/ \E b \in Buffer : Alloc(c, b) \/ DropBuffer(c, b)
     \/ \E q \in Queue, b \in Buffer :
          \/ AllocDeferred(c, q, b)
          \/ Use(c, q, b)
          \/ KeepAlive(c, q, b)
          \/ DestructorWaitFor(c, q, b)
     \/ DeviceWait(c)
  /\ UNCHANGED program

(* Nothing is going on. *)
Quiescent ==
  /\ \A t \in Thread : todo[t] = <<>>
  /\ \A q \in Queue : fifo[q] = <<>> /\ held[q] = None

Terminated == Quiescent /\ UNCHANGED vars

Next ==
  \/ \E c \in program.threads : ClientCall(c)
  \/ \E t \in Thread : ThreadStep(t)
  \/ \E q \in Queue : WorkerStep(q)
  \/ Terminated

Spec == Init /\ [][Next]_vars

(* Every thread gets on with the call it is in; the program need not call.  *)
Fairness ==
  /\ \A t \in Thread : WF_vars(ThreadStep(t))
  /\ \A q \in Queue : WF_vars(WorkerStep(q))

FairSpec == Spec /\ Fairness

-----------------------------------------------------------------------------
(* Safety *)

(* An operation never accesses memory that has been freed, whether the      *)
(* buffer is held by a keepAlive operation, waits in its destructor or is   *)
(* freed by an operation of its own queue (ManagedDealloc.hpp:34-39,        *)
(* SharedBuffer.hpp:235-259, Queue.hpp:589-591).                            *)
NoUseAfterFree ==
  \A q \in Queue :
    running[q] /\ Head(fifo[q]).kind = "use" => memory[Head(fifo[q]).buffer] = "live"

(* When Device::wait() returns, what preceded the call is finished in every *)
(* queue somebody still has a handle of (Device.hpp:65-82).  A queue that   *)
(* is being destroyed by another thread is skipped, although                *)
(* onHost/interface.hpp:138 promises all work submitted before the call.    *)
DeviceWaitCoversHeldQueues ==
  \A c \in Client : At(c, "return") =>
    \A q \in Queue : queueRefs[q] # {} => owed[c][q] = 0

-----------------------------------------------------------------------------
(* Liveness *)

Released(b) == memory[b] = "live" /\ \A c \in Client : ~Owns(c, b)

Refers(b, q) == home[b] = q \/ \E i \in DOMAIN actions[b] : actions[b][i] = q
Abandoned(q) ==
  /\ q \in Made
  /\ \A c \in Client : ~Holds(c, q) /\ \A b \in Buffer : Refers(b, q) => ~Owns(c, b)

(* Memory the program has no handle of any more is freed, and a queue ends  *)
(* once the program has neither a handle of it nor of a buffer that refers  *)
(* to it: no reference is lost, and none keeps itself alive, in the chain   *)
(* of captures from operations to buffers to queues.  And every call        *)
(* returns, the destructors and Device::wait() among them.                  *)
EverythingEnds ==
  /\ []<>(\A b \in Buffer : ~Released(b))
  /\ []<>(\A q \in Queue : Abandoned(q) => q \in ended)
  /\ \A t \in Thread : []<>(todo[t] = <<>>)
=============================================================================
