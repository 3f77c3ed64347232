---------------------------- MODULE NativeQueue ----------------------------
(***************************************************************************)
(* The queues of alpaka that sit on an in-order queue of a vendor runtime: *)
(* unifiedCudaHip::Queue (a CUDA/HIP stream) and syclGeneric::Queue (a     *)
(* sycl::queue), with their events and the buffers of allocDeferred.       *)
(*                                                                         *)
(* The runtime executes the operations of the stream one after the other,  *)
(* in the order they were submitted.  Host functions do not run in the     *)
(* runtime's thread: it submits them to the queue's CallbackThread and,    *)
(* unless they are deferred, waits for them.  A CallbackThread is a serial *)
(* executor (module SerialExecutor): it runs the front task, pops it,      *)
(* destroys its captures and then sets its future.                         *)
(*                                                                         *)
(* An operation goes by its number in the order of submission.             *)
(***************************************************************************)
EXTENDS Sequences, Integers, FiniteSets

CONSTANTS
  Apis,          \* the runtimes to model: a subset of {"cuda", "sycl"}
  Client,        \* the threads of the program
  Kinds,         \* the operations it enqueues
  Callback,      \* the callback thread of the queue
  MaxOps,        \* bound: operations enqueued by clients (besides one buffer)
  DropAnytime    \* whether the last handle may be dropped while a task that
                 \* owns the queue is still to be run (see DropIsSafe)

ASSUME ApiAssumption == Apis \subseteq {"cuda", "sycl"} /\ Apis # {}
ASSUME KindAssumption ==
  Kinds \subseteq {"kernel", "frame", "host", "deferred", "event", "await"}
ASSUME CallbackAssumption == Callback \notin Client

VARIABLES
  api, blocking, \* which runtime, and m_isBlocking
  ops,           \* the operations submitted so far: their kind, whether they
                 \* use (kernel) or keep alive (deferred) the buffer
  stream,        \* the numbers of those the runtime has not completed
  entered,       \* the front of stream is a host task that waits for its future
  tasks,         \* CallbackThread::m_tasks: [op, owns], the running one first
  phase,         \* what the callback thread does: "idle", "run", "destroy"
  promised,      \* operations whose future in the callback thread is set
  finished,      \* operations whose work is done
  signalled,     \* the event of another queue that "await" waits for
  last,          \* SYCL: m_lastEvent, as the number of an operation
  event,         \* the operation an alpaka event of this queue stands for
  handles,       \* the clients that hold a handle of the queue
  owners,        \* the clients that hold the buffer of allocDeferred
  memory,        \* "none", "live", "freeing", "freed"
  queue,         \* "alive", then ~Queue: "sync", "members", "dead"
  destroyer,     \* the thread that executes ~Queue
  pc, target,    \* per client: the call it is in, the operation it waits for
  raced,         \* history: setLastEvent replaced a later event
  crashed        \* an exception left a host function of the runtime

config == <<api, blocking>>
device == <<stream, entered, signalled>>
worker == <<tasks, phase, promised>>
lifetime == <<handles, owners, memory, queue, destroyer>>
client == <<pc, target>>
vars == <<config, ops, device, worker, finished, last, event, lifetime,
          client, raced, crashed>>

Op(kind, buf) == [kind |-> kind, buf |-> buf]
Task(i, owns) == [op |-> i, owns |-> owns]
Ops == 1 .. Len(ops)
Nobody == "nobody"

TypeOK ==
  /\ api \in Apis /\ blocking \in BOOLEAN
  /\ ops \in Seq([kind : {"kernel", "frame", "host", "deferred", "event", "await", "alloc", "free"},
                  buf : BOOLEAN])
  /\ stream \in Seq(Ops) /\ entered \in BOOLEAN /\ signalled \in BOOLEAN
  /\ tasks \in Seq([op : Ops \cup {0}, owns : BOOLEAN])
  /\ phase \in {"idle", "run", "destroy"}
  /\ promised \subseteq finished /\ finished \subseteq Ops
  /\ last \in Ops \cup {0} /\ event \in Ops \cup {0}
  /\ handles \subseteq Client /\ owners \subseteq Client
  /\ memory \in {"none", "live", "freeing", "freed"}
  /\ queue \in {"alive", "sync", "members", "dead"}
  /\ destroyer \in Client \cup {Callback, Nobody}
  /\ pc \in [Client -> {"idle", "submitted", "block", "wait"}]
  /\ target \in [Client -> Ops \cup {0}]
  /\ raced \in BOOLEAN /\ crashed \in BOOLEAN

(* Every client has a handle: onHost::Queue is copied before the threads    *)
(* start.                                                                   *)
Init ==
  /\ api \in Apis /\ blocking \in BOOLEAN
  /\ ops = <<>> /\ stream = <<>> /\ entered = FALSE /\ signalled = FALSE
  /\ tasks = <<>> /\ phase = "idle" /\ promised = {} /\ finished = {}
  /\ last = 0 /\ event = 0
  /\ handles = Client /\ owners = {} /\ memory = "none"
  /\ queue = "alive" /\ destroyer = Nobody
  /\ pc = [c \in Client |-> "idle"] /\ target = [c \in Client |-> 0]
  /\ raced = FALSE /\ crashed = FALSE

-----------------------------------------------------------------------------
(* References.  The lambda of a deferred CUDA task and the deleter of the   *)
(* buffer hold a shared_ptr of the queue; a keepAlive task holds the buffer.*)
TaskOwnsQueue == \E k \in DOMAIN tasks : tasks[k].owns
Keeps(i) == i # 0 /\ ops[i].kind = "deferred" /\ ops[i].buf
KeptAlive ==
  \/ \E k \in DOMAIN stream : Keeps(stream[k])
  \/ \E k \in DOMAIN tasks : Keeps(tasks[k].op)
Referenced == handles # {} \/ memory = "live" \/ TaskOwnsQueue

(* What a thread does that may have dropped the last reference of the queue *)
(* is to execute ~Queue, whose first step waits for the stream.             *)
DropQueue(thread, wasLast) ==
  /\ queue' = IF wasLast THEN "sync" ELSE queue
  /\ destroyer' = IF wasLast THEN thread ELSE destroyer

(* The destructor of a client that drops the queue runs at the end of the   *)
(* call it is in, so a client in ~Queue is not idle for the purposes of     *)
(* further calls.                                                           *)
Idle(c) == pc[c] = "idle" /\ destroyer # c

(* The callers' part: a task that owns the queue destroys it in the         *)
(* callback thread.  When the operations behind it are host functions,      *)
(* ~Queue waits for a stream that waits for the callback thread.            *)
OwnsQueue(i) ==
  /\ ops[i].kind = "deferred" /\ i \notin promised
  /\ api = "cuda" \/ ops[i].buf
DropIsSafe == DropAnytime \/ stream = <<>> \/ ~\E i \in Ops : OwnsQueue(i)

-----------------------------------------------------------------------------
(* The calls of the program.                                                *)

Submit(op) ==
  /\ ops' = Append(ops, op)
  /\ stream' = Append(stream, Len(ops) + 1)

Bounded == Cardinality({i \in Ops : ops[i].kind \in Kinds}) < MaxOps

(* The end of a call that enqueues: only a blocking queue waits.            *)
Synchronise(c, n) ==
  /\ pc' = [pc EXCEPT ![c] = IF blocking THEN "block" ELSE "idle"]
  /\ target' = [target EXCEPT ![c] = IF blocking THEN n ELSE 0]

(* Every CUDA enqueue ends in conditionalWait: a blocking queue             *)
(* synchronises the stream.                                                 *)
CudaEnqueue(c, kind, buf) ==
  /\ api = "cuda" /\ Idle(c) /\ c \in handles /\ Bounded
  /\ buf => c \in owners /\ kind \in {"kernel", "deferred"}
  /\ Submit(Op(kind, buf))
  /\ event' = IF kind = "event" THEN Len(ops) + 1 ELSE event
  /\ Synchronise(c, Len(ops) + 1)
  /\ UNCHANGED <<config, entered, signalled, worker, finished, last, lifetime,
                 raced, crashed>>

(* A SYCL enqueue submits and then, in a second step, stores the event of   *)
(* the operation with setLastEvent ...                                      *)
SyclEnqueue(c, kind, buf) ==
  /\ api = "sycl" /\ kind \notin {"event", "frame"} /\ Idle(c) /\ c \in handles /\ Bounded
  /\ buf => c \in owners /\ kind \in {"kernel", "deferred"}
  /\ Submit(Op(kind, buf))
  /\ target' = [target EXCEPT ![c] = Len(ops) + 1]
  /\ pc' = [pc EXCEPT ![c] = "submitted"]
  /\ UNCHANGED <<config, entered, signalled, worker, finished, last, event,
                 lifetime, raced, crashed>>

SetLastEvent(c) ==
  /\ pc[c] = "submitted"
  /\ last' = target[c]
  /\ raced' = (raced \/ target[c] < last)
  /\ Synchronise(c, target[c])
  /\ UNCHANGED <<config, ops, device, worker, finished, event, lifetime,
                 crashed>>

(* ... except a kernel launched with a frame specification, and the empty   *)
(* kernel that emulates an event, which is known to the alpaka event only.  *)
SyclEnqueueUntracked(c, kind) ==
  /\ api = "sycl" /\ kind \in {"event", "frame"}
  /\ Idle(c) /\ c \in handles /\ Bounded
  /\ Submit(Op(kind, FALSE))
  /\ event' = IF kind = "event" THEN Len(ops) + 1 ELSE event
  /\ Synchronise(c, Len(ops) + 1)
  /\ UNCHANGED <<config, entered, signalled, worker, finished, last, lifetime,
                 raced, crashed>>

(* allocDeferred.  CUDA: mallocAsync is an operation of the stream.  SYCL:  *)
(* the memory is allocated at once; a blocking queue is drained.            *)
AllocDeferred(c) ==
  /\ memory = "none" /\ Idle(c) /\ c \in handles
  /\ IF api = "cuda"
     THEN Submit(Op("alloc", FALSE)) /\ Synchronise(c, Len(ops) + 1)
     ELSE UNCHANGED <<ops, stream>> /\ Synchronise(c, Len(ops))
  /\ memory' = "live" /\ owners' = {c}
  /\ UNCHANGED <<config, entered, signalled, worker, finished, last, event,
                 handles, queue, destroyer, raced, crashed>>

(* wait(): streamSynchronize or wait_and_throw, for what was submitted.     *)
Wait(c) ==
  /\ Idle(c) /\ c \in handles
  /\ target' = [target EXCEPT ![c] = Len(ops)]
  /\ pc' = [pc EXCEPT ![c] = "wait"]
  /\ UNCHANGED <<config, ops, device, worker, finished, last, event, lifetime,
                 raced, crashed>>

(* Event::wait(), of the event recorded last.                               *)
EventWait(c) ==
  /\ Idle(c) /\ event # 0
  /\ target' = [target EXCEPT ![c] = event]
  /\ pc' = [pc EXCEPT ![c] = "wait"]
  /\ UNCHANGED <<config, ops, device, worker, finished, last, event, lifetime,
                 raced, crashed>>

Completed(n) == \A k \in DOMAIN stream : stream[k] > n

(* The return of a call that blocks; in an in-order queue one operation     *)
(* stands for those before it.                                              *)
Return(c) ==
  /\ pc[c] \in {"block", "wait"} /\ Completed(target[c])
  /\ pc' = [pc EXCEPT ![c] = "idle"] /\ target' = [target EXCEPT ![c] = 0]
  /\ UNCHANGED <<config, ops, device, worker, finished, last, event, lifetime,
                 raced, crashed>>

(* A variant: the emptiness of the callback thread, as on the host.         *)
EmptyOfCallbacks == tasks = <<>> /\ phase = "idle"

(* isQueueEmpty(): streamQuery asks for the whole stream, SYCL asks for the *)
(* state of m_lastEvent (of a default event at first, which is complete).   *)
IsQueueEmpty == IF api = "cuda" THEN stream = <<>> ELSE Completed(last)

(* isEventComplete(): eventQuery, or the state of the event set last.       *)
IsEventComplete == Completed(event)

DropHandle(c) ==
  /\ Idle(c) /\ c \in handles /\ queue = "alive"
  /\ DropIsSafe \/ handles # {c}
  /\ handles' = handles \ {c}
  /\ DropQueue(c, handles = {c} /\ memory # "live" /\ ~TaskOwnsQueue)
  /\ UNCHANGED <<config, ops, device, worker, finished, last, event, owners,
                 memory, client, raced, crashed>>

(* A variant: the memory is released at once.                               *)
DeleterFreesNow(before) ==
  /\ memory' = "freed"
  /\ tasks' = before /\ UNCHANGED <<ops, stream>>

(* The deleter of the buffer.  CUDA: freeAsync, an operation of the stream. *)
(* SYCL: a task of the callback thread that submits a host task that frees. *)
Deleter(before) ==
  /\ memory' = "freeing"
  /\ IF api = "cuda"
     THEN Submit(Op("free", FALSE)) /\ tasks' = before
     ELSE tasks' = Append(before, Task(0, FALSE)) /\ UNCHANGED <<ops, stream>>

DropBuffer(c) ==
  /\ Idle(c) /\ c \in owners
  /\ owners' = owners \ {c}
  /\ IF owners = {c} /\ ~KeptAlive
     THEN /\ handles = {} => DropIsSafe
          /\ Deleter(tasks)
          /\ DropQueue(c, handles = {} /\ ~TaskOwnsQueue)
     ELSE UNCHANGED <<ops, stream, tasks, memory, queue, destroyer>>
  /\ UNCHANGED <<config, entered, signalled, phase, promised, finished, last,
                 event, handles, client, raced, crashed>>

-----------------------------------------------------------------------------
(* The runtime executes the front of the stream.                            *)
Front == stream[1]
Executes(kind) == stream # <<>> /\ ~entered /\ ops[Front].kind = kind
Complete == stream' = Tail(stream)

RunDevice ==
  /\ \E kind \in {"kernel", "frame", "event", "alloc"} : Executes(kind)
  /\ Complete /\ finished' = finished \cup {Front}
  /\ UNCHANGED <<config, ops, entered, signalled, worker, last, event, lifetime,
                 client, raced, crashed>>

RunAwait ==
  /\ Executes("await") /\ signalled
  /\ Complete /\ finished' = finished \cup {Front}
  /\ UNCHANGED <<config, ops, entered, signalled, worker, last, event, lifetime,
                 client, raced, crashed>>

(* freeAsync, or the host task with sycl::free.                             *)
RunFree ==
  /\ Executes("free")
  /\ Complete /\ finished' = finished \cup {Front} /\ memory' = "freed"
  /\ UNCHANGED <<config, ops, entered, signalled, worker, last, event, handles,
                 owners, queue, destroyer, client, raced, crashed>>

(* The host function submits the task to the callback thread ...            *)
HostFuncSubmit ==
  /\ Executes("host")
  /\ entered' = TRUE
  /\ tasks' = Append(tasks, Task(Front, FALSE))
  /\ UNCHANGED <<config, ops, stream, signalled, phase, promised, finished, last,
                 event, lifetime, client, raced, crashed>>

(* A variant: the host function does not wait.                              *)
HostFuncNoWait ==
  /\ entered
  /\ entered' = FALSE /\ Complete
  /\ UNCHANGED <<config, ops, signalled, worker, finished, last, event, lifetime,
                 client, raced, crashed>>

(* ... and waits for its future.                                            *)
HostFuncWait ==
  /\ entered /\ Front \in promised
  /\ entered' = FALSE /\ Complete
  /\ UNCHANGED <<config, ops, signalled, worker, finished, last, event, lifetime,
                 client, raced, crashed>>

(* CUDA: shared_from_this() of a queue that is being destroyed throws       *)
(* std::bad_weak_ptr through the runtime's thread.                          *)
CudaDeferred ==
  /\ api = "cuda" /\ Executes("deferred")
  /\ IF Referenced
     THEN Complete /\ tasks' = Append(tasks, Task(Front, TRUE)) /\ UNCHANGED crashed
     ELSE crashed' = TRUE /\ UNCHANGED <<stream, tasks>>
  /\ UNCHANGED <<config, ops, entered, signalled, phase, promised, finished, last,
                 event, lifetime, client, raced>>

SyclDeferred ==
  /\ api = "sycl" /\ Executes("deferred")
  /\ Complete /\ tasks' = Append(tasks, Task(Front, FALSE))
  /\ UNCHANGED <<config, ops, entered, signalled, phase, promised, finished, last,
                 event, lifetime, client, raced, crashed>>

(* The rest of the program: another queue signals the event awaited here.   *)
Signal ==
  /\ ~signalled /\ (\E i \in Ops : ops[i].kind = "await") /\ signalled' = TRUE
  /\ UNCHANGED <<config, ops, stream, entered, worker, finished, last, event,
                 lifetime, client, raced, crashed>>

-----------------------------------------------------------------------------

CallbackForgets ==
  /\ phase = "destroy" /\ destroyer # Callback
  /\ tasks' = Tail(tasks) /\ phase' = "idle"
  /\ UNCHANGED <<config, ops, device, promised, finished, last, event, lifetime,
                 client, raced, crashed>>

(* The callback thread.                                                     *)
CallbackRun ==
  /\ phase = "idle" /\ tasks # <<>>
  /\ phase' = "run"
  /\ UNCHANGED <<config, ops, device, tasks, promised, finished, last, event,
                 lifetime, client, raced, crashed>>

(* The body of the task; a SYCL deleter's task submits the host task that   *)
(* frees the memory.                                                        *)
CallbackBody ==
  /\ phase = "run"
  /\ phase' = "destroy"
  /\ IF tasks[1].op = 0
     THEN Submit(Op("free", FALSE)) /\ UNCHANGED finished
     ELSE finished' = finished \cup {tasks[1].op} /\ UNCHANGED <<ops, stream>>
  /\ UNCHANGED <<config, entered, signalled, tasks, promised, last, event,
                 lifetime, client, raced, crashed>>

(* The captures of the task are destroyed, which may run the deleter and    *)
(* ~Queue, and then its future is set.                                      *)
CallbackDestroy ==
  /\ phase = "destroy" /\ destroyer # Callback
  /\ LET task == tasks[1]
         rest == Tail(tasks)
         deletes == Keeps(task.op) /\ owners = {} /\ memory = "live"
                    /\ ~(\E k \in DOMAIN stream : Keeps(stream[k]))
                    /\ ~(\E k \in DOMAIN rest : Keeps(rest[k].op))
     IN /\ IF deletes THEN Deleter(rest)
           ELSE tasks' = rest /\ UNCHANGED <<ops, stream, memory>>
        /\ DropQueue(Callback,
             /\ task.owns \/ deletes
             /\ handles = {} /\ (memory # "live" \/ deletes)
             /\ ~\E k \in DOMAIN rest : rest[k].owns)
        /\ promised' = promised \cup ({task.op} \ {0})
  /\ phase' = "idle"
  /\ UNCHANGED <<config, entered, signalled, finished, last, event, handles,
                 owners, client, raced, crashed>>

-----------------------------------------------------------------------------
(* ~Queue: wait for the stream, ...                                         *)
DestroySync ==
  /\ queue = "sync" /\ stream = <<>>
  /\ queue' = "members"
  /\ UNCHANGED <<config, ops, device, worker, finished, last, event, handles,
                 owners, memory, destroyer, client, raced, crashed>>

(* ... then ~CallbackThread: the callback thread itself is detached and     *)
(* goes on with its tasks, any other thread joins it.                       *)
DestroyMembers ==
  /\ queue = "members"
  /\ destroyer # Callback => tasks = <<>> /\ phase = "idle"
  /\ queue' = "dead" /\ destroyer' = Nobody
  /\ UNCHANGED <<config, ops, device, worker, finished, last, event, handles,
                 owners, memory, client, raced, crashed>>

ClientCall(c) ==
  \/ \E kind \in Kinds, buf \in BOOLEAN : CudaEnqueue(c, kind, buf) \/ SyclEnqueue(c, kind, buf)
  \/ \E kind \in Kinds : SyclEnqueueUntracked(c, kind)
  \/ AllocDeferred(c)
  \/ Wait(c) \/ EventWait(c)
  \/ DropHandle(c) \/ DropBuffer(c)

ClientStep(c) == SetLastEvent(c) \/ Return(c)
Runtime ==
  \/ RunDevice \/ RunAwait \/ RunFree
  \/ HostFuncSubmit \/ HostFuncWait \/ CudaDeferred \/ SyclDeferred
CallbackThread ==
  /\ destroyer # Callback
  /\ CallbackRun \/ CallbackBody \/ CallbackDestroy
Destroy == DestroySync \/ DestroyMembers

Next ==
  /\ ~crashed
  /\ \/ \E c \in Client : ClientCall(c) \/ ClientStep(c)
     \/ Runtime \/ Signal \/ CallbackThread \/ Destroy

Spec == Init /\ [][Next]_vars

(* The runtime executes what is in a stream, threads are scheduled, and the *)
(* other queue signals its event.  The program owes nothing, except that a  *)
(* thread which drops its handles does so eventually (DroppedQueueEnds).    *)
FairSpec ==
  /\ Spec
  /\ \A c \in Client : WF_vars(~crashed /\ ClientStep(c))
  /\ WF_vars(~crashed /\ Runtime)
  /\ WF_vars(~crashed /\ Signal)
  /\ WF_vars(~crashed /\ CallbackThread)
  /\ WF_vars(~crashed /\ Destroy)

-----------------------------------------------------------------------------
(* The operations up to the n-th are done, host functions in the callback   *)
(* thread included, deferred ones excepted (onHost/Queue.hpp:165).          *)
DoneUpTo(n) == \A i \in 1 .. n : i \in finished \/ ops[i].kind = "deferred"

(* A call that blocks returns when the operations before it are done: a     *)
(* blocking enqueue, wait() and Event::wait().                              *)
ReturnMeansDone ==
  [][\A c \in Client : pc[c] \in {"block", "wait"} /\ pc'[c] = "idle" => DoneUpTo(target[c])]_vars

(* A true isEventComplete() covers the operations before the event, a true  *)
(* isQueueEmpty() those of every call that has returned, except SYCL's      *)
(* emulated events and the release of memory.  It is exempt once two        *)
(* clients have stored m_lastEvent in the wrong order (raced).              *)
EmptyMeansDone ==
  /\ IsEventComplete => DoneUpTo(event)
  /\ IsQueueEmpty /\ ~raced => \A i \in Ops :
       \/ i \in finished
       \/ ops[i].kind = "deferred"
       \/ \E c \in Client : pc[c] = "submitted" /\ target[c] = i
       \/ api = "sycl" /\ ops[i].kind \in {"event", "free"}

(* The runtime and the callback thread together keep the order of the       *)
(* queue: work starts after all work before it, deferred work excepted,     *)
(* and the callback thread runs one task at a time.                         *)
WorkIsInOrder ==
  [][\A i \in finished' \ finished : \A j \in 1 .. i - 1 :
        j \in finished \/ ops[j].kind = "deferred"]_vars

(* The memory of allocDeferred is freed when everything that was enqueued   *)
(* to use it is done, and the tasks that keep it alive too.                 *)
MemoryOutlivesItsUses ==
  memory = "freed" => \A i \in Ops : ops[i].buf => i \in finished

(* When ~Queue has returned in a thread of the program, every operation is  *)
(* done, deferred ones included; the memory may still be on its way to      *)
(* sycl::free.                                                              *)
DestructionDrains ==
  [][queue' = "dead" /\ queue # "dead" /\ destroyer # Callback =>
        \A i \in Ops : i \in finished \/ ops[i].kind = "free"]_vars

(* The order of the queue is kept while it runs, by what returns, and by    *)
(* its destruction.                                                         *)
OrderIsKept == ReturnMeansDone /\ WorkIsInOrder /\ DestructionDrains

(* Calls return, operations are executed, and when nobody holds the queue   *)
(* or the buffer any more the queue is destroyed and the memory is freed.   *)
QueueIsLive ==
  /\ \A c \in Client : []<>(pc[c] = "idle")
  /\ []<>(/\ Ops \subseteq finished
          /\ handles = {} /\ owners = {} => queue = "dead" /\ memory \in {"none", "freed"})

=============================================================================
