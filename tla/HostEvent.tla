----------------------------- MODULE HostEvent -----------------------------
(***************************************************************************)
(* Events of the host API: alpaka::onHost::cpu::Event                      *)
(* (include/alpaka/api/host/Event.hpp) with the Enqueue::Event and WaitFor *)
(* operations of cpu::Queue (include/alpaka/api/host/Queue.hpp), over      *)
(* several queues shared by several threads.                               *)
(*                                                                         *)
(* A non-blocking queue is the serial executor that CallbackThread         *)
(* implements: its operations run one after the other, each is destroyed   *)
(* and then its future is set.  A blocking queue executes an operation in  *)
(* the calling thread under its mutex.                                     *)
(*                                                                         *)
(* Operations are numbered in the order in which they enter a queue; the   *)
(* number also names the operation's future.  No section of code holds an  *)
(* event's mutex while it blocks, so each such section is one step.        *)
(***************************************************************************)
EXTENDS Sequences, Integers, FiniteSets

CONSTANTS
  Queue,          \* the queues
  BlockingQueue,  \* those with m_isBlocking
  Event,          \* the events
  Client,         \* the threads using them
  Sharing,        \* the ways to share the queues: each maps a thread to those it uses
  None,           \* no event, no queue, no thread
  MaxOps          \* bound: operations that enter queues in one behaviour, and
                  \* enqueues of one event

ASSUME BlockingAssumption == BlockingQueue \subseteq Queue
ASSUME NoneAssumption == None \notin Event \cup Queue \cup Client
ASSUME MaxOpsAssumption == MaxOps \in Nat

(* An event is enqueued in a blocking queue without its mutex, so threads   *)
(* that share the queue have to take turns: here one thread uses it.        *)
ASSUME SharingAssumption ==
  \A s \in Sharing :
    /\ s \in [Client -> SUBSET Queue]
    /\ \A c, d \in Client : s[c] \cap s[d] \cap BlockingQueue # {} => c = d

VARIABLES
  uses,      \* uses[c]: the queues thread c uses
  ops,       \* every operation so far: kind, queue, and what it captured
  fifo,      \* fifo[q]: m_tasks of the callback thread of q
  worker,    \* worker[q]: where that thread is with the front of fifo[q]
  finished,  \* operations whose body is over
  ready,     \* operations whose future is set
  lock,      \* lock[q]: the thread in submit() of the blocking queue q
  event,     \* event[e]: m_enqueueCount, m_LastReadyEnqueueCount, m_future
  handle,    \* events the program still holds a handle of
  call,      \* call[c]: the call thread c is in, and its locals
  prior,     \* history: the work before the last enqueue of an event
  owed       \* history: the work q must wait for since its waitFor() calls

vars == <<uses, ops, fifo, worker, finished, ready, lock, event, handle, call, prior, owed>>

OpId == 1 .. MaxOps
NonBlocking == Queue \ BlockingQueue

(* Futures: an operation's number, Fulfilled for the promise set on the     *)
(* spot, or NoState for the default constructed m_future.                   *)
Fulfilled == 0
NoState == -1
Future == OpId \cup {Fulfilled, NoState}
IsReady(f) == f = Fulfilled \/ f \in ready

(* Operations that capture a reference of an event. *)
Kinds == {"work", "signal", "await"}
Op == [kind : Kinds, queue : Queue, event : Event \cup {None},
       count : 0 .. MaxOps, future : Future, after : SUBSET OpId]

Idle == [at |-> "idle", queue |-> None, event |-> None, count |-> 0,
         future |-> NoState, owes |-> {}]

TypeOK ==
  /\ uses \in Sharing
  /\ ops \in Seq(Op)
  /\ fifo \in [Queue -> Seq(OpId)]
  /\ worker \in [Queue -> {"idle", "run", "ran", "destroyed"}]
  /\ finished \subseteq OpId
  /\ ready \subseteq OpId
  /\ lock \in [Queue -> Client \cup {None}]
  /\ event \in [Event -> [count : 0 .. MaxOps, last : 0 .. MaxOps, future : Future]]
  /\ handle \subseteq Event
  /\ call \in [Client -> [at : {"idle", "lock", "execute", "wait", "relock", "waited",
                                "submit", "get"},
                          queue : Queue \cup {None}, event : Event \cup {None},
                          count : 0 .. MaxOps, future : Future, owes : SUBSET OpId]]
  /\ prior \in [Event -> SUBSET OpId]
  /\ owed \in [Queue -> SUBSET OpId]

Init ==
  /\ uses \in Sharing
  /\ ops = <<>>
  /\ fifo = [q \in Queue |-> <<>>]
  /\ worker = [q \in Queue |-> "idle"]
  /\ finished = {}
  /\ ready = {}
  /\ lock = [q \in Queue |-> None]
  /\ event = [e \in Event |-> [count |-> 0, last |-> 0, future |-> NoState]]
  /\ handle = Event
  /\ call = [c \in Client |-> Idle]
  /\ prior = [e \in Event |-> {}]
  /\ owed = [q \in Queue |-> {}]

-----------------------------------------------------------------------------
NewOp == Len(ops) + 1
(* Calls under way that will still enqueue an operation keep their room.    *)
Room == Len(ops) + Cardinality({c \in Client : call[c].at \in {"lock", "submit"}}) < MaxOps
OpsOf(q) == {i \in DOMAIN ops : ops[i].queue = q}
At(c) == call[c].at
Goto(c, place) == call' = [call EXCEPT ![c].at = place]
Return(c) == call' = [call EXCEPT ![c] = Idle]

(* Event::isReady() *)
Complete(e) == event[e].last = event[e].count

(* Queue::submit() of a non-blocking queue. *)
Submit(q, kind, e, n, f) ==
  /\ ops' = Append(ops, [kind |-> kind, queue |-> q, event |-> e, count |-> n,
                         future |-> f, after |-> owed[q]])
  /\ fifo' = [fifo EXCEPT ![q] = Append(@, NewOp)]

-----------------------------------------------------------------------------
(* The operation a callback thread has in hand, and the end of its body.    *)
Front(q) == Head(fifo[q])

WorkerFinish(q) ==
  /\ finished' = finished \cup {Front(q)}
  /\ worker' = [worker EXCEPT ![q] = "ran"]
  /\ UNCHANGED <<ops, fifo, ready, lock, handle, call, prior, owed>>

Signalling(q) == worker[q] = "run" /\ ops[Front(q)].kind = "signal"

-----------------------------------------------------------------------------
(* Variants with a plausible bug, one for each property: the property must  *)
(* fail when the definition named after the dash is replaced.               *)

(* WaitForSubmit - the operation awaits its own future. *)
WaitForItself(c) ==
  LET q == call[c].queue IN
  /\ At(c) = "submit"
  /\ Submit(q, "await", call[c].event, 0, NewOp)
  /\ owed' = [owed EXCEPT ![q] = @ \cup call[c].owes]
  /\ Return(c)
  /\ UNCHANGED <<worker, finished, ready, lock, event, handle, prior>>

(* WaitBegin - an event that was ready once is ready forever. *)
WaitBeginOnce(c, e) ==
  /\ At(c) = "idle"
  /\ e \in handle
  /\ call' = [call EXCEPT ![c] =
       [at |-> IF event[e].count > 0 /\ event[e].last = 0 THEN "wait" ELSE "waited",
        queue |-> None, event |-> e, count |-> event[e].count,
        future |-> event[e].future, owes |-> prior[e]]]
  /\ UNCHANGED <<ops, fifo, worker, finished, ready, lock, event, handle, prior, owed>>

(* RunSignal - the count is read when the signal is executed. *)
RunSignalUncaptured(q) ==
  LET e == ops[Front(q)].event IN
  /\ Signalling(q)
  /\ event' = [event EXCEPT ![e].last = event[e].count]
  /\ WorkerFinish(q)

(* RunSignal - the signals are expected in the order of the enqueues. *)
RunSignalInOrder(q) ==
  LET e == ops[Front(q)].event
      n == ops[Front(q)].count
  IN /\ Signalling(q)
     /\ event' = IF n = event[e].last + 1 THEN [event EXCEPT ![e].last = n] ELSE event
     /\ WorkerFinish(q)

(* RunAwait - the future is not awaited. *)
RunAwaitNothing(q) ==
  /\ worker[q] = "run"
  /\ ops[Front(q)].kind = "await"
  /\ WorkerFinish(q)
  /\ UNCHANGED event

-----------------------------------------------------------------------------
(* The program enqueues work. *)
EnqueueWork(c, q) ==
  /\ At(c) = "idle"
  /\ Room
  /\ q \in NonBlocking
  /\ Submit(q, "work", None, 0, NoState)
  /\ UNCHANGED <<worker, finished, ready, lock, event, handle, call, prior, owed>>

EnqueueBlockingWork(c, q) ==
  /\ At(c) = "idle"
  /\ Room
  /\ q \in BlockingQueue
  /\ call' = [call EXCEPT ![c] = [Idle EXCEPT !.at = "lock", !.queue = q]]
  /\ UNCHANGED <<ops, fifo, worker, finished, ready, lock, event, handle, prior, owed>>

BlockingLock(c) ==
  LET q == call[c].queue IN
  /\ At(c) = "lock"
  /\ lock[q] = None
  /\ lock' = [lock EXCEPT ![q] = c]
  /\ ops' = Append(ops, [kind |-> "work", queue |-> q, event |-> None, count |-> 0,
                         future |-> NoState, after |-> owed[q]])
  /\ call' = [call EXCEPT ![c] = [@ EXCEPT !.at = "execute", !.future = NewOp]]
  /\ UNCHANGED <<fifo, worker, finished, ready, event, handle, prior, owed>>

BlockingReturn(c) ==
  /\ At(c) = "execute"
  /\ finished' = finished \cup {call[c].future}
  /\ ready' = ready \cup {call[c].future}
  /\ lock' = [lock EXCEPT ![call[c].queue] = None]
  /\ Return(c)
  /\ UNCHANGED <<ops, fifo, worker, event, handle, prior, owed>>

-----------------------------------------------------------------------------
(* Queue::enqueue(event): under the event's mutex the count is raised, and  *)
(* a non-blocking queue gets an operation that will signal this count.      *)
EnqueueEvent(c, q, e) ==
  /\ At(c) = "idle"
  /\ e \in handle
  /\ Room
  /\ event[e].count < MaxOps
  /\ q \in NonBlocking
  /\ Submit(q, "signal", e, event[e].count + 1, NoState)
  /\ event' = [event EXCEPT ![e] = [@ EXCEPT !.count = event[e].count + 1, !.future = NewOp]]
  /\ prior' = [prior EXCEPT ![e] = OpsOf(q)]
  /\ UNCHANGED <<worker, finished, ready, lock, handle, call, owed>>

(* On a blocking queue the event is signalled on the spot.  The mutex of    *)
(* the queue is not taken.                                                  *)
EnqueueEventBlocking(c, q, e) ==
  /\ At(c) = "idle"
  /\ e \in handle
  /\ q \in BlockingQueue
  /\ event[e].count < MaxOps
  /\ event' = [event EXCEPT ![e] = [count |-> @.count + 1, last |-> @.count + 1,
                                    future |-> Fulfilled]]
  /\ prior' = [prior EXCEPT ![e] = OpsOf(q)]
  /\ UNCHANGED <<ops, fifo, worker, finished, ready, lock, handle, call, owed>>

(* Queue::waitFor(event): nothing to do if the event is ready ... *)
WaitForReady(c, q, e) ==
  /\ At(c) = "idle"
  /\ e \in handle
  /\ Complete(e)
  /\ owed' = [owed EXCEPT ![q] = @ \cup prior[e]]
  /\ UNCHANGED <<ops, fifo, worker, finished, ready, lock, event, handle, call, prior>>

(* ... else the future is copied and the event's mutex released.  Only then *)
(* the future is awaited, by an operation of a non-blocking queue or by the *)
(* caller of a blocking one.                                                *)
WaitForBegin(c, q, e) ==
  /\ At(c) = "idle"
  /\ e \in handle
  /\ ~Complete(e)
  /\ q \in BlockingQueue \/ Room
  /\ call' = [call EXCEPT ![c] =
       [at |-> IF q \in BlockingQueue THEN "get" ELSE "submit", queue |-> q, event |-> e,
        count |-> event[e].count, future |-> event[e].future, owes |-> prior[e]]]
  /\ UNCHANGED <<ops, fifo, worker, finished, ready, lock, event, handle, prior, owed>>

WaitForSubmit(c) ==
  LET q == call[c].queue IN
  /\ At(c) = "submit"
  /\ Submit(q, "await", call[c].event, 0, call[c].future)
  /\ owed' = [owed EXCEPT ![q] = @ \cup call[c].owes]
  /\ Return(c)
  /\ UNCHANGED <<worker, finished, ready, lock, event, handle, prior>>

WaitForGet(c) ==
  /\ At(c) = "get"
  /\ IsReady(call[c].future)
  /\ owed' = [owed EXCEPT ![call[c].queue] = @ \cup call[c].owes]
  /\ Return(c)
  /\ UNCHANGED <<ops, fifo, worker, finished, ready, lock, event, handle, prior>>

-----------------------------------------------------------------------------
(* Event::wait(): remember the count, then, as long as no enqueue of at     *)
(* least this count is signalled, copy the future and get() it unlocked.    *)
WaitBegin(c, e) ==
  /\ At(c) = "idle"
  /\ e \in handle
  /\ call' = [call EXCEPT ![c] =
       [at |-> IF event[e].count > event[e].last THEN "wait" ELSE "waited",
        queue |-> None, event |-> e, count |-> event[e].count,
        future |-> event[e].future, owes |-> prior[e]]]
  /\ UNCHANGED <<ops, fifo, worker, finished, ready, lock, event, handle, prior, owed>>

WaitGet(c) ==
  /\ At(c) = "wait"
  /\ IsReady(call[c].future)
  /\ Goto(c, "relock")
  /\ UNCHANGED <<ops, fifo, worker, finished, ready, lock, event, handle, prior, owed>>

WaitRelock(c) ==
  LET e == call[c].event IN
  /\ At(c) = "relock"
  /\ call' = [call EXCEPT ![c] = [@ EXCEPT
       !.at = IF call[c].count > event[e].last THEN "wait" ELSE "waited",
       !.future = event[e].future]]
  /\ UNCHANGED <<ops, fifo, worker, finished, ready, lock, event, handle, prior, owed>>

WaitReturn(c) ==
  /\ At(c) = "waited"
  /\ Return(c)
  /\ UNCHANGED <<ops, fifo, worker, finished, ready, lock, event, handle, prior, owed>>

(* The program drops its last handle of an event. *)
DropHandle(c, e) ==
  /\ At(c) = "idle"
  /\ e \in handle
  /\ \A o \in Client : call[o].event # e
  /\ handle' = handle \ {e}
  /\ UNCHANGED <<ops, fifo, worker, finished, ready, lock, event, call, prior, owed>>

-----------------------------------------------------------------------------
(* The callback thread of a non-blocking queue. *)

WorkerTake(q) ==
  /\ worker[q] = "idle"
  /\ fifo[q] # <<>>
  /\ worker' = [worker EXCEPT ![q] = "run"]
  /\ UNCHANGED <<ops, fifo, finished, ready, lock, event, handle, call, prior, owed>>

RunWork(q) ==
  /\ worker[q] = "run"
  /\ ops[Front(q)].kind = "work"
  /\ WorkerFinish(q)
  /\ UNCHANGED event

(* "Nothing to do if it has been re-enqueued to a later position." *)
RunSignal(q) ==
  LET e == ops[Front(q)].event
      n == ops[Front(q)].count
  IN /\ Signalling(q)
     /\ event' = IF n = event[e].count
                   THEN [event EXCEPT ![e].last = IF n > @ THEN n ELSE @]
                   ELSE event
     /\ WorkerFinish(q)

RunAwait(q) ==
  /\ worker[q] = "run"
  /\ ops[Front(q)].kind = "await"
  /\ IsReady(ops[Front(q)].future)
  /\ WorkerFinish(q)
  /\ UNCHANGED event

(* The captures, among them the reference of an event, are destroyed.       *)
WorkerDestroyTask(q) ==
  /\ worker[q] = "ran"
  /\ worker' = [worker EXCEPT ![q] = "destroyed"]
  /\ UNCHANGED <<ops, fifo, finished, ready, lock, event, handle, call, prior, owed>>

WorkerSetPromise(q) ==
  /\ worker[q] = "destroyed"
  /\ ready' = ready \cup {Front(q)}
  /\ fifo' = [fifo EXCEPT ![q] = Tail(@)]
  /\ worker' = [worker EXCEPT ![q] = "idle"]
  /\ UNCHANGED <<ops, finished, lock, event, handle, call, prior, owed>>

WorkerStep(q) ==
  /\ \/ WorkerTake(q)
     \/ RunWork(q)
     \/ RunSignal(q)
     \/ RunAwait(q)
     \/ WorkerDestroyTask(q)
     \/ WorkerSetPromise(q)
  /\ UNCHANGED uses

CallStep(c) ==
  /\ \/ BlockingLock(c)
     \/ BlockingReturn(c)
     \/ WaitForSubmit(c)
     \/ WaitForGet(c)
     \/ WaitGet(c)
     \/ WaitRelock(c)
     \/ WaitReturn(c)
  /\ UNCHANGED uses

NewCall(c) ==
  /\ \/ \E q \in uses[c] : EnqueueWork(c, q) \/ EnqueueBlockingWork(c, q)
     \/ \E q \in uses[c], e \in Event :
          \/ EnqueueEvent(c, q, e)
          \/ EnqueueEventBlocking(c, q, e)
          \/ WaitForReady(c, q, e)
          \/ WaitForBegin(c, q, e)
     \/ \E e \in Event : uses[c] # {} /\ (WaitBegin(c, e) \/ DropHandle(c, e))
  /\ UNCHANGED uses

(* All calls have returned and all queues are empty. *)
Terminated ==
  /\ \A c \in Client : At(c) = "idle"
  /\ \A q \in Queue : fifo[q] = <<>>
  /\ UNCHANGED vars

Next ==
  \/ \E c \in Client : NewCall(c) \/ CallStep(c)
  \/ \E q \in Queue : WorkerStep(q)
  \/ Terminated

Spec == Init /\ [][Next]_vars

(* Callback threads run and their operations return; a thread inside a call *)
(* proceeds and eventually obtains the mutex of a blocking queue.           *)
Fairness ==
  /\ \A q \in Queue : WF_vars(WorkerStep(q))
  /\ \A c \in Client : SF_vars(CallStep(c))

FairSpec == Spec /\ Fairness

-----------------------------------------------------------------------------
(* Safety. *)

(* "The event will be signaled after all preceding operations in the queue  *)
(* are finished" (onHost/Queue.hpp): of the queue of its last enqueue, also *)
(* when an earlier enqueue of the event is still travelling elsewhere.      *)
SignalledAfterPreceding ==
  \A e \in Event : Complete(e) => prior[e] \subseteq finished

(* onHost::wait(event) "waits until ... all previous enqueues tasks are     *)
(* completed" (docs/source/tutorial/events.rst): those that were in front   *)
(* of the event when the call began, whatever was re-enqueued meanwhile.    *)
WaitCoversPreceding ==
  \A c \in Client : At(c) = "waited" => call[c].owes \subseteq finished

(* "work in queue1 enqueued after starts only after the event is reached"   *)
(* (the same page): an operation behind waitFor(event) does not start, and  *)
(* a queue does not stop awaiting, before the work the event stood for at   *)
(* the call is finished.                                                    *)
Started(i) ==
  \/ i \in finished
  \/ ops[i].queue \in BlockingQueue
  \/ i = Front(ops[i].queue) /\ worker[ops[i].queue] # "idle"

Awaiting(q) == \E i \in DOMAIN ops : /\ ops[i].queue = q
                                     /\ ops[i].kind = "await"
                                     /\ i \notin finished

LaterWorkAwaitsEvent ==
  /\ \A i \in DOMAIN ops : Started(i) => ops[i].after \subseteq finished
  /\ \A q \in Queue : Awaiting(q) \/ owed[q] \subseteq finished

(* ~Event waits for the event, on whatever thread drops the last reference, *)
(* a callback thread included: it never has to, because every signal that   *)
(* is still to come holds a reference.                                      *)
Referenced(e) ==
  \/ e \in handle
  \/ \E q \in Queue : \E k \in DOMAIN fifo[q] :
       /\ ops[fifo[q][k]].event = e
       /\ ~(k = 1 /\ worker[q] = "destroyed")

DestructorNeverBlocks == \A e \in Event : ~Referenced(e) => Complete(e)

-----------------------------------------------------------------------------
(* Liveness, under FairSpec. *)

(* Events order queues without deadlock: every operation of a non-blocking  *)
(* queue is executed, however waitFor() ties the queues together, and       *)
(* enqueue, waitFor and wait return.                                        *)
EventsAreLive ==
  /\ []<>(DOMAIN ops \subseteq ready)
  /\ \A c \in Client : []<>(At(c) = "idle")
=============================================================================
