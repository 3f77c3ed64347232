----------------------------- MODULE HostQueue -----------------------------
(***************************************************************************)
(* alpaka::onHost::cpu::Queue (include/alpaka/api/host/Queue.hpp): a queue *)
(* of host operations used by several threads.  A non-blocking queue hands *)
(* every operation to its CallbackThread; a blocking queue executes it in  *)
(* the calling thread under m_mutex and uses the CallbackThread only for   *)
(* deferred operations.                                                    *)
(*                                                                         *)
(* The worker of the CallbackThread is modelled in full by the instance    *)
(* below; here are the callers.  Events are in module HostEvent.           *)
(***************************************************************************)
EXTENDS Sequences, Integers

CONSTANTS
  User,      \* operations enqueued by the program, each at most once
  Marker,    \* the empty operations wait() enqueues, each at most once
  MayThrow,  \* the operations that may end with an exception in their caller ...
  WorkerMayThrow, \* ... and in the worker, which CallbackThread studies in full
  NoTask,
  Client,    \* the threads sharing the queue
  Worker,
  NoThread,
  Kinds      \* the kinds of queue considered, values of m_isBlocking

ASSUME NoTaskAssumption == NoTask \notin User \cup Marker
ASSUME ThreadAssumption == Worker \notin Client /\ NoThread \notin Client \cup {Worker}
ASSUME MarkerAssumption == Marker \cap User = {}
ASSUME ThrowAssumption == MayThrow \cup WorkerMayThrow \subseteq User
ASSUME KindAssumption == Kinds \subseteq BOOLEAN

Task == User \cup Marker

VARIABLES
  tasks, stop, pc, current, eptr, body, objects, future, dtor, destroyer

CT == INSTANCE CallbackThread WITH MayThrow <- WorkerMayThrow

VARIABLES
  isBlocking, \* m_isBlocking
  lock,      \* the thread holding m_mutex
  busy,      \* m_isBlockingTaskExecuted
  direct,    \* what happened to the operations executed by their caller
  deferred,  \* the operations enqueued with enqueueHostFnDeferred
  at,        \* where each caller is
  op,        \* the member function each caller is in
  arg,       \* the operation each caller is submitting or waiting for
  preceding, \* history: the operations enqueued before a deferred one
  before,    \* history: the operations enqueued when a caller called wait()
  alive      \* FALSE once ~Queue has begun

ctVars == <<tasks, stop, pc, current, eptr, body, objects, future, dtor, destroyer>>
deferVars == <<deferred, preceding>>
callVars == <<at, op, arg, before>>
vars == <<ctVars, isBlocking, lock, busy, direct, deferVars, callVars, alive>>

Caller == Client \cup {Worker}

TypeOK ==
  /\ CT!TypeOK
  /\ isBlocking \in BOOLEAN
  /\ lock \in Caller \cup {NoThread}
  /\ busy \in BOOLEAN
  /\ direct \in [Task -> {"none", "submitted", "running", "returned", "threw"}]
  /\ deferred \subseteq User
  /\ preceding \in [User -> SUBSET Task]
  /\ at \in [Caller -> {"idle", "lock", "execute", "check", "submit", "future",
                        "waited", "members", "join", "gone"}]
  /\ op \in [Caller -> {"none", "enqueue", "wait", "destroy"}]
  /\ arg \in [Caller -> Task \cup {NoTask}]
  /\ before \in [Caller -> SUBSET Task]
  /\ alive \in BOOLEAN

Init ==
  /\ CT!Init
  /\ isBlocking \in Kinds
  /\ lock = NoThread
  /\ busy = FALSE
  /\ direct = [t \in Task |-> "none"]
  /\ deferred = {}
  /\ preceding = [t \in User |-> {}]
  /\ at = [c \in Caller |-> "idle"]
  /\ op = [c \in Caller |-> "none"]
  /\ arg = [c \in Caller |-> NoTask]
  /\ before = [c \in Caller |-> {}]
  /\ alive = TRUE

-----------------------------------------------------------------------------
Unused(t) ==
  /\ body[t] = "unsubmitted"
  /\ direct[t] = "none"
  /\ \A c \in Caller : arg[c] # t

Enqueued == {t \in Task : body[t] # "unsubmitted"
                          \/ direct[t] \in {"running", "returned", "threw"}}

Finished(t) == \/ body[t] \in {"returned", "threw"}
               \/ direct[t] \in {"returned", "threw"}

(* isQueueEmpty() *)
IsQueueEmpty == IF isBlocking THEN ~busy ELSE CT!IsEmpty

(* A thread between two calls, holding a handle of the queue.  The worker   *)
(* is one while it executes an operation.                                   *)
Ready(c) == alive /\ at[c] = "idle" /\ CT!CanCall(c)

Goto(c, place) == at' = [at EXCEPT ![c] = place]

Return(c) ==
  /\ Goto(c, "idle")
  /\ op' = [op EXCEPT ![c] = "none"]
  /\ arg' = [arg EXCEPT ![c] = NoTask]
  /\ before' = [before EXCEPT ![c] = {}]

-----------------------------------------------------------------------------
(* Variants with a plausible bug, one for each property: the property must  *)
(* fail when the definition named after the dash is replaced.               *)

(* BlockingLock - the flag is not raised. *)
BlockingLockWithoutFlag(c) ==
  /\ at[c] = "lock"
  /\ lock = NoThread
  /\ lock' = c
  /\ direct' = [direct EXCEPT ![arg[c]] = "running"]
  /\ Goto(c, "execute")
  /\ UNCHANGED <<isBlocking, ctVars, busy, deferVars, op, arg, before, alive>>

(* BlockingThrow - the mutex is not released by the exception. *)
BlockingThrowKeepsLock(c) ==
  /\ at[c] = "execute"
  /\ arg[c] \in MayThrow
  /\ direct' = [direct EXCEPT ![arg[c]] = "threw"]
  /\ Return(c)
  /\ UNCHANGED <<isBlocking, ctVars, lock, busy, deferVars, alive>>

(* WaitFuture - the future of the marker is dropped. *)
WaitDropsFuture(c) ==
  /\ at[c] = "future"
  /\ Goto(c, IF op[c] = "wait" THEN "waited" ELSE "members")
  /\ UNCHANGED <<isBlocking, ctVars, lock, busy, direct, deferVars, op, arg, before, alive>>

-----------------------------------------------------------------------------
(* enqueue(), enqueueHostFn(), memcpy, memset, fill: submit() of a          *)
(* non-blocking queue.                                                      *)
EnqueueNonBlocking(c, t) ==
  /\ ~isBlocking
  /\ Ready(c)
  /\ Unused(t)
  /\ CT!Submit(c, t)
  /\ UNCHANGED <<isBlocking, lock, busy, direct, deferVars, callVars, alive>>

(* The same of a blocking queue.  The operation an operation enqueues in    *)
(* its own blocking queue would lock m_mutex twice; only the worker, which  *)
(* runs deferred operations without it, may do that.                        *)
EnqueueBlocking(c, t) ==
  /\ isBlocking
  /\ Ready(c)
  /\ Unused(t)
  /\ direct' = [direct EXCEPT ![t] = "submitted"]
  /\ Goto(c, "lock")
  /\ op' = [op EXCEPT ![c] = "enqueue"]
  /\ arg' = [arg EXCEPT ![c] = t]
  /\ UNCHANGED <<isBlocking, ctVars, lock, busy, deferVars, before, alive>>

(* enqueueHostFnDeferred(): always the callback thread. *)
EnqueueDeferred(c, t) ==
  /\ Ready(c)
  /\ Unused(t)
  /\ CT!Submit(c, t)
  /\ deferred' = deferred \cup {t}
  /\ preceding' = [preceding EXCEPT ![t] = Enqueued]
  /\ UNCHANGED <<isBlocking, lock, busy, direct, callVars, alive>>

(* submit() of a blocking queue: lock and raise the flag ... *)
BlockingLock(c) ==
  /\ at[c] = "lock"
  /\ lock = NoThread
  /\ lock' = c
  /\ busy' = TRUE
  /\ direct' = [direct EXCEPT ![arg[c]] = "running"]
  /\ Goto(c, "execute")
  /\ UNCHANGED <<isBlocking, ctVars, deferVars, op, arg, before, alive>>

(* ... execute; on a return the flag is lowered, the mutex unlocked and the *)
(* ready future handed out: submit() is over, wait() has nothing to wait    *)
(* for ...                                                                  *)
BlockingReturn(c) ==
  /\ at[c] = "execute"
  /\ direct' = [direct EXCEPT ![arg[c]] = "returned"]
  /\ busy' = FALSE
  /\ lock' = NoThread
  /\ CASE op[c] = "enqueue" -> Return(c)
       [] op[c] = "wait"    -> Goto(c, "waited") /\ UNCHANGED <<op, arg, before>>
       [] op[c] = "destroy" -> Goto(c, "members") /\ UNCHANGED <<op, arg, before>>
  /\ UNCHANGED <<isBlocking, ctVars, deferVars, alive>>

(* ... and an exception leaves submit() past the store that lowers it. *)
BlockingThrow(c) ==
  /\ at[c] = "execute"
  /\ arg[c] \in MayThrow
  /\ direct' = [direct EXCEPT ![arg[c]] = "threw"]
  /\ lock' = NoThread
  /\ Return(c)
  /\ UNCHANGED <<isBlocking, ctVars, busy, deferVars, alive>>

-----------------------------------------------------------------------------
(* internal::wait(queue), called by the program or by ~Queue. *)

(* The program calls wait(); m is the empty operation it may enqueue.  The  *)
(* number of markers bounds the calls that enqueue one, ~Queue included.    *)
WaitBegin(c, m) ==
  /\ c \in Client
  /\ Ready(c)
  /\ Unused(m)
  /\ Goto(c, "check")
  /\ op' = [op EXCEPT ![c] = "wait"]
  /\ arg' = [arg EXCEPT ![c] = m]
  /\ before' = [before EXCEPT ![c] = Enqueued]
  /\ UNCHANGED <<isBlocking, ctVars, lock, busy, direct, deferVars, alive>>

(* ~Queue: the last handle is gone, so no other thread is in a call. *)
DestroyBegin(c, m) ==
  /\ c \in Client
  /\ Ready(c)
  /\ \A o \in Caller : at[o] = "idle"
  /\ Unused(m)
  /\ alive' = FALSE
  /\ Goto(c, "check")
  /\ op' = [op EXCEPT ![c] = "destroy"]
  /\ arg' = [arg EXCEPT ![c] = m]
  /\ before' = [before EXCEPT ![c] = Enqueued]
  /\ UNCHANGED <<isBlocking, ctVars, lock, busy, direct, deferVars>>

(* Nothing to wait for: wait() returns at once. *)
WaitSeesEmpty(c) ==
  /\ at[c] = "check"
  /\ isBlocking \/ CT!MutexFree
  /\ IsQueueEmpty
  /\ Goto(c, IF op[c] = "wait" THEN "waited" ELSE "members")
  /\ UNCHANGED <<isBlocking, ctVars, lock, busy, direct, deferVars, op, arg, before, alive>>

WaitSeesWork(c) ==
  /\ at[c] = "check"
  /\ isBlocking \/ CT!MutexFree
  /\ ~IsQueueEmpty
  /\ Goto(c, IF isBlocking THEN "lock" ELSE "submit")
  /\ UNCHANGED <<isBlocking, ctVars, lock, busy, direct, deferVars, op, arg, before, alive>>

WaitSubmit(c) ==
  /\ at[c] = "submit"
  /\ CT!Submit(c, arg[c])
  /\ Goto(c, "future")
  /\ UNCHANGED <<isBlocking, lock, busy, direct, deferVars, op, arg, before, alive>>

WaitFuture(c) ==
  /\ at[c] = "future"
  /\ CT!Signalled(arg[c])
  /\ Goto(c, IF op[c] = "wait" THEN "waited" ELSE "members")
  /\ UNCHANGED <<isBlocking, ctVars, lock, busy, direct, deferVars, op, arg, before, alive>>

WaitReturn(c) ==
  /\ at[c] = "waited"
  /\ Return(c)
  /\ UNCHANGED <<isBlocking, ctVars, lock, busy, direct, deferVars, alive>>

(* The members of the queue are destroyed; m_workerThread ends its thread. *)
DestroyMembers(c) ==
  /\ at[c] = "members"
  /\ CT!DtorStop(c)
  /\ Goto(c, "join")
  /\ UNCHANGED <<isBlocking, lock, busy, direct, deferVars, op, arg, before, alive>>

DestroyJoin(c) ==
  /\ at[c] = "join"
  /\ CT!DtorJoin
  /\ Goto(c, "gone")
  /\ UNCHANGED <<isBlocking, lock, busy, direct, deferVars, op, arg, before, alive>>

-----------------------------------------------------------------------------
(* The worker goes on, unless it is itself inside a call of the queue. *)
WorkerStep ==
  /\ at[Worker] = "idle"
  /\ CT!WorkerStep
  /\ UNCHANGED <<isBlocking, lock, busy, direct, deferVars, callVars, alive>>

WorkerSpuriousWakeup ==
  /\ CT!WorkerSpuriousWakeup
  /\ UNCHANGED <<isBlocking, lock, busy, direct, deferVars, callVars, alive>>

(* The queue is destroyed, or the bound on the calls of wait() is reached   *)
(* and the program keeps its handle.                                        *)
Terminated ==
  /\ \/ \E c \in Client : at[c] = "gone"
     \/ /\ \A m \in Marker : ~Unused(m)
        /\ \A c \in Caller : at[c] = "idle"
  /\ UNCHANGED vars

CallStep(c) ==
  \/ BlockingLock(c)
  \/ BlockingReturn(c)
  \/ BlockingThrow(c)
  \/ WaitSeesEmpty(c)
  \/ WaitSeesWork(c)
  \/ WaitSubmit(c)
  \/ WaitFuture(c)
  \/ WaitReturn(c)
  \/ DestroyMembers(c)
  \/ DestroyJoin(c)

Next ==
  \/ \E c \in Caller, t \in User :
       EnqueueNonBlocking(c, t) \/ EnqueueBlocking(c, t) \/ EnqueueDeferred(c, t)
  \/ \E c \in Caller, m \in Marker : WaitBegin(c, m) \/ DestroyBegin(c, m)
  \/ \E c \in Caller : CallStep(c)
  \/ WorkerStep
  \/ WorkerSpuriousWakeup
  \/ Terminated

Spec == Init /\ [][Next]_vars

(* A thread inside a call keeps running, operations end, and a mutex that   *)
(* is released again and again is eventually obtained: spurious wake-ups    *)
(* make the worker lock the mutex of its queue infinitely often.            *)
Fairness ==
  /\ \A c \in Caller : SF_vars(CallStep(c))
  /\ WF_vars(WorkerStep)

FairSpec == Spec /\ Fairness

-----------------------------------------------------------------------------
(* Safety. *)

(* "onHost::wait(queue) waits until all work in that queue is complete"     *)
(* (docs/source/tutorial/events.rst): what was enqueued before the call has *)
(* finished when it returns, also when another thread's operation ended     *)
(* with an exception meanwhile.  A blocking queue does not see its deferred *)
(* operations.                                                              *)
Invisible == IF isBlocking THEN deferred ELSE {}

WaitCoversVisibleWork ==
  \A c \in Client :
    at[c] = "waited" => \A t \in before[c] \ Invisible : Finished(t)

(* isEmpty() is "true if there are no unfinished tasks in the queue"        *)
(* (onHost/Queue.hpp): the flag of a blocking queue covers the operations   *)
(* executed by their callers, whoever they are, but not the deferred ones.  *)
EmptyMeansFinished ==
  IsQueueEmpty => \A t \in Enqueued \ Invisible : Finished(t)

(* enqueueHostFnDeferred(): "will be started after all preceding tasks in   *)
(* the queue" (onHost/Queue.hpp), whichever thread enqueued them; a         *)
(* blocking queue says so of the deferred operations among themselves.      *)
DeferredStartsAfterPreceding ==
  \A t \in deferred : body[t] # "pending" =>
    \A u \in preceding[t] : (isBlocking /\ u \notin deferred) \/ Finished(u)

(* ~Queue: "The deletion is deferred until all tasks queued in the queue    *)
(* are completed" (docs/source/tutorial/queue.rst), the deferred ones       *)
(* included; no task object outlives the queue.                             *)
DestroyedMeansDrained ==
  (\E c \in Client : at[c] = "gone") =>
    /\ \A t \in Enqueued : Finished(t)
    /\ objects = {}
    /\ pc \in {"none", "exited"}

(* What has returned, a wait() or a destructor, has covered the work.       *)
ReturnCoversWork == WaitCoversVisibleWork /\ DestroyedMeansDrained

-----------------------------------------------------------------------------
(* Liveness, under FairSpec. *)

(* A call of enqueue, wait or ~Queue returns, and every operation a caller  *)
(* has handed over is executed to its end.                                  *)
QueueIsLive ==
  /\ \A c \in Caller : []<>(at[c] \in {"idle", "gone"})
  /\ []<>(\A t \in User : body[t] # "unsubmitted" \/ direct[t] # "none" => Finished(t))
=============================================================================
