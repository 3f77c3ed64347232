--------------------------- MODULE CallbackThread ---------------------------
(***************************************************************************)
(* alpaka::core::CallbackThread (include/alpaka/core/CallbackThread.hpp):  *)
(* a queue of tasks executed by one lazily started worker thread.          *)
(*                                                                         *)
(* The threads are the clients, which submit tasks and destroy the object, *)
(* and the worker.  A running task and the destructor of its captures may  *)
(* also submit tasks or destroy the object, so the worker is a caller too. *)
(*                                                                         *)
(* Every critical section on State::m_mutex is one step, except one: when  *)
(* the worker finds the predicate of its condition variable false, it      *)
(* keeps the mutex (pc = "check") until it sleeps, in the next step.       *)
(* Notifications, and spurious wake-ups, are explicit.                     *)
(***************************************************************************)
EXTENDS Sequences, Integers

CONSTANTS
  Task,     \* the tasks that may be submitted, each at most once
  MayThrow, \* the tasks whose callable may end with an exception
  NoTask,   \* the null unique_ptr left behind by a move
  Client,   \* threads using the object
  Worker,   \* the thread of m_thread
  NoThread  \* nobody

ASSUME NoTaskAssumption == NoTask \notin Task
ASSUME MayThrowAssumption == MayThrow \subseteq Task
ASSUME WorkerAssumption == Worker \notin Client
ASSUME NoThreadAssumption == NoThread \notin Client \cup {Worker}

VARIABLES
  tasks,      \* State::m_tasks; the front slot is NoTask once it is moved from
  stop,       \* stop_requested() of the worker's stop token
  pc,         \* where the worker thread is
  current,    \* the worker's local unique_ptr<Task>
  eptr,       \* whether the worker's local exception_ptr is set
  body,       \* what happened to the callable of a task
  objects,    \* the FunctionHolder objects that exist
  future,     \* the shared state of promise and future of a task
  dtor,       \* how far ~CallbackThread is
  destroyer   \* the thread in ~CallbackThread

workerVars == <<pc, current, eptr>>
taskVars == <<body, objects, future>>
dtorVars == <<stop, dtor, destroyer>>
vars == <<tasks, workerVars, taskVars, dtorVars>>

Caller == Client \cup {Worker}

TypeOK ==
  /\ tasks \in Seq(Task \cup {NoTask})
  /\ stop \in BOOLEAN
  /\ pc \in {"none", "lock", "check", "blocked", "run", "ran", "popped",
             "destroyed", "exited"}
  /\ current \in Task \cup {NoTask}
  /\ eptr \in BOOLEAN
  /\ body \in [Task -> {"unsubmitted", "pending", "running", "returned", "threw"}]
  /\ objects \subseteq Task
  /\ future \in [Task -> {"none", "pending", "value", "exception"}]
  /\ dtor \in {"alive", "stopping", "joined", "detached"}
  /\ destroyer \in Caller \cup {NoThread}

Init ==
  /\ tasks = <<>>
  /\ stop = FALSE
  /\ pc = "none"
  /\ current = NoTask
  /\ eptr = FALSE
  /\ body = [t \in Task |-> "unsubmitted"]
  /\ objects = {}
  /\ future = [t \in Task |-> "none"]
  /\ dtor = "alive"
  /\ destroyer = NoThread

-----------------------------------------------------------------------------
(* State::m_mutex is held across steps only by the worker, between the     *)
(* evaluation of its wait predicate and its sleep.                         *)
MutexFree == pc # "check"

(* condition_variable::notify_one: only the worker ever waits. *)
Notified == IF pc = "blocked" THEN "lock" ELSE pc

(* The code of the current task is on the worker's stack: its body, or the *)
(* destructors of its captures after the pop.                              *)
InTask == pc \in {"run", "popped"}

(* The worker is executing ~CallbackThread from inside a task. *)
WorkerInDtor == dtor = "stopping" /\ destroyer = Worker

(* isEmpty(): evaluated under the mutex. *)
IsEmpty == tasks = <<>>

(* A thread that may be about to call a member function. *)
CanCall(c) == c \in Client \/ (c = Worker /\ InTask /\ ~WorkerInDtor)

-----------------------------------------------------------------------------
(* Variants with a plausible bug, one for each property: the property must  *)
(* fail when the definition named after the dash is replaced.               *)

(* Submit - the front of the queue is used, a stack instead of a queue. *)
SubmitInFront(c, t) ==
  /\ CanCall(c)
  /\ dtor = "alive"
  /\ body[t] = "unsubmitted"
  /\ MutexFree
  /\ tasks' = IF tasks # <<>> /\ Head(tasks) = NoTask
                THEN <<NoTask, t>> \o Tail(tasks) ELSE <<t>> \o tasks
  /\ body' = [body EXCEPT ![t] = "pending"]
  /\ objects' = objects \cup {t}
  /\ future' = [future EXCEPT ![t] = "pending"]
  /\ pc' = IF pc = "none" THEN "lock" ELSE Notified
  /\ UNCHANGED <<current, eptr, dtorVars>>

(* DtorStop - the stop is requested without holding the mutex. *)
DtorStopUnlocked(c) ==
  /\ CanCall(c)
  /\ dtor = "alive"
  /\ stop' = TRUE
  /\ dtor' = "stopping"
  /\ destroyer' = c
  /\ pc' = Notified
  /\ UNCHANGED <<tasks, current, eptr, taskVars>>

(* WorkerTake - the slot is popped together with the task. *)
WorkerTakeAndPop ==
  /\ pc = "lock"
  /\ ~IsEmpty
  /\ current' = Head(tasks)
  /\ tasks' = Tail(tasks)
  /\ body' = [body EXCEPT ![Head(tasks)] = "running"]
  /\ eptr' = FALSE
  /\ pc' = "run"
  /\ UNCHANGED <<objects, future, dtorVars>>

(* WorkerDestroyTask - the task outlives the scope. *)
WorkerKeepsTask ==
  /\ pc = "popped"
  /\ ~WorkerInDtor
  /\ pc' = "destroyed"
  /\ UNCHANGED <<tasks, current, eptr, taskVars, dtorVars>>

-----------------------------------------------------------------------------
(* submit(): the holder and the promise are made, the package is emplaced, *)
(* the worker is started when there is none, and the condition notified.   *)
(* Calling it on an object whose destructor has begun is not allowed.      *)
Submit(c, t) ==
  /\ CanCall(c)
  /\ dtor = "alive"
  /\ body[t] = "unsubmitted"
  /\ MutexFree
  /\ tasks' = Append(tasks, t)
  /\ body' = [body EXCEPT ![t] = "pending"]
  /\ objects' = objects \cup {t}
  /\ future' = [future EXCEPT ![t] = "pending"]
  /\ pc' = IF pc = "none" THEN "lock" ELSE Notified
  /\ UNCHANGED <<current, eptr, dtorVars>>

(* ~CallbackThread, first part: request the stop and notify, under the     *)
(* mutex.                                                                  *)
DtorStop(c) ==
  /\ CanCall(c)
  /\ dtor = "alive"
  /\ MutexFree
  /\ stop' = TRUE
  /\ dtor' = "stopping"
  /\ destroyer' = c
  /\ pc' = Notified
  /\ UNCHANGED <<tasks, current, eptr, taskVars>>

(* ~CallbackThread, second part: the worker cannot join itself and detaches *)
(* the thread; any other thread joins it, if it was ever started.           *)
DtorDetach ==
  /\ dtor = "stopping"
  /\ destroyer = Worker
  /\ dtor' = "detached"
  /\ UNCHANGED <<tasks, workerVars, taskVars, stop, destroyer>>

DtorJoin ==
  /\ dtor = "stopping"
  /\ destroyer # Worker
  /\ pc \in {"none", "exited"}
  /\ dtor' = "joined"
  /\ UNCHANGED <<tasks, workerVars, taskVars, stop, destroyer>>

-----------------------------------------------------------------------------
(* The loop of startWorkerThread(). *)

(* The mutex is locked and the predicate is false ... *)
WorkerCheck ==
  /\ pc = "lock"
  /\ ~stop
  /\ IsEmpty
  /\ pc' = "check"
  /\ UNCHANGED <<tasks, current, eptr, taskVars, dtorVars>>

(* ... so the worker releases the mutex and sleeps. *)
WorkerSleep ==
  /\ pc = "check"
  /\ pc' = "blocked"
  /\ UNCHANGED <<tasks, current, eptr, taskVars, dtorVars>>

WorkerSpuriousWakeup ==
  /\ pc = "blocked"
  /\ pc' = "lock"
  /\ UNCHANGED <<tasks, current, eptr, taskVars, dtorVars>>

WorkerExit ==
  /\ pc = "lock"
  /\ stop
  /\ IsEmpty
  /\ pc' = "exited"
  /\ UNCHANGED <<tasks, current, eptr, taskVars, dtorVars>>

(* The front package is moved out; its empty slot stays in the queue, so    *)
(* isEmpty() is false while the task runs.  exception_ptr starts null.      *)
WorkerTake ==
  /\ pc = "lock"
  /\ ~IsEmpty
  /\ current' = Head(tasks)
  /\ tasks' = [tasks EXCEPT ![1] = NoTask]
  /\ body' = [body EXCEPT ![Head(tasks)] = "running"]
  /\ eptr' = FALSE
  /\ pc' = "run"
  /\ UNCHANGED <<objects, future, dtorVars>>

(* task->run() returns or throws. *)
WorkerRun ==
  /\ pc = "run"
  /\ ~WorkerInDtor
  /\ \E thrown \in BOOLEAN :
       /\ thrown => current \in MayThrow
       /\ eptr' = (eptr \/ thrown)
       /\ body' = [body EXCEPT ![current] = IF thrown THEN "threw" ELSE "returned"]
  /\ pc' = "ran"
  /\ UNCHANGED <<tasks, current, objects, future, dtorVars>>

WorkerPop ==
  /\ pc = "ran"
  /\ tasks' = Tail(tasks)
  /\ pc' = "popped"
  /\ UNCHANGED <<current, eptr, taskVars, dtorVars>>

(* The unique_ptr leaves its scope. *)
WorkerDestroyTask ==
  /\ pc = "popped"
  /\ ~WorkerInDtor
  /\ objects' = objects \ {current}
  /\ pc' = "destroyed"
  /\ UNCHANGED <<tasks, current, eptr, body, future, dtorVars>>

WorkerSetPromise ==
  /\ pc = "destroyed"
  /\ future' = [future EXCEPT ![current] = IF eptr THEN "exception" ELSE "value"]
  /\ current' = NoTask
  /\ pc' = "lock"
  /\ UNCHANGED <<tasks, eptr, body, objects, dtorVars>>

WorkerStep ==
  \/ WorkerCheck
  \/ WorkerSleep
  \/ WorkerExit
  \/ WorkerTake
  \/ WorkerRun
  \/ WorkerPop
  \/ WorkerDestroyTask
  \/ WorkerSetPromise

(* The object is destroyed and its thread, if any, has ended. *)
Terminated ==
  /\ dtor \in {"joined", "detached"}
  /\ pc \in {"none", "exited"}
  /\ UNCHANGED vars

Next ==
  \/ \E c \in Caller, t \in Task : Submit(c, t)
  \/ \E c \in Caller : DtorStop(c)
  \/ DtorDetach
  \/ DtorJoin
  \/ WorkerStep
  \/ WorkerSpuriousWakeup
  \/ Terminated

Spec == Init /\ [][Next]_vars

(* The operating system runs the worker, tasks return, and a destructor     *)
(* that has begun proceeds.  Nobody is obliged to submit or to destroy.     *)
Fairness ==
  /\ WF_vars(WorkerStep)
  /\ WF_vars(DtorDetach)
  /\ WF_vars(DtorJoin)

FairSpec == Spec /\ Fairness

-----------------------------------------------------------------------------
(* Safety. *)

Signalled(t) == future[t] \in {"value", "exception"}

(* "It is guaranteed that the task is fully destroyed before the future's   *)
(* result is set" (comment of submit()): a thread that waited for the       *)
(* future finds no live callable, so no capture is still in use.            *)
FutureAfterDestruction == \A t \in Task : Signalled(t) => t \notin objects

(* "In case the executed tasks is the last task in the queue the waiting    *)
(* threads will see the queue as empty" (comment before set_value()).       *)
LastFutureSeesEmptyQueue ==
  (\A t \in Task : future[t] # "pending") => IsEmpty

(* isEmpty() says that the body of every submitted task is over: a task     *)
(* that runs is out of its slot, but the slot is still counted.             *)
EmptyMeansNothingRuns ==
  IsEmpty => \A t \in Task : body[t] \notin {"pending", "running"}

(* The exception of a task reaches its own future and no other one, though  *)
(* all tasks go through the same loop.                                      *)
OutcomeReachesItsFuture ==
  \A t \in Task : Signalled(t) =>
    (future[t] = "exception" <=> body[t] = "threw")

(* assert(task): the worker never takes the empty slot of a moved package.  *)
TakenSlotIsFull == pc = "lock" /\ ~IsEmpty => Head(tasks) # NoTask

(* When ~CallbackThread has joined, or has found that no thread was ever    *)
(* started, nothing that was submitted is left behind.                      *)
JoinedMeansDrained ==
  dtor = "joined" =>
    /\ IsEmpty
    /\ objects = {}
    /\ \A t \in Task : future[t] # "pending"

-----------------------------------------------------------------------------
(* Liveness, under FairSpec. *)

(* ~CallbackThread returns on every thread, and the worker, joined or       *)
(* detached, ends after it.                                                 *)
DestructorEndsTheWorker ==
  dtor = "stopping" ~> (dtor \in {"joined", "detached"} /\ pc \in {"none", "exited"})

-----------------------------------------------------------------------------
(* The promise to the users: a serial executor.  The slot left by a moved   *)
(* package is not a waiting task; a task is active until its future is set. *)
Waiting == IF ~IsEmpty /\ Head(tasks) = NoTask THEN Tail(tasks) ELSE tasks
Result == [t \in Task |-> IF Signalled(t) THEN future[t] ELSE "none"]

Executor == INSTANCE SerialExecutor WITH
  waiting <- Waiting, active <- current, result <- Result, closed <- (dtor # "alive")

(* Tasks are executed one at a time and in the order of their submission,   *)
(* none is dropped or run twice, and none is accepted after destruction.    *)
ImplementsSerialExecutor == Executor!Spec

(* The same, and accepted tasks are eventually started and finished.        *)
ImplementsFairSerialExecutor == Executor!FairSpec

-----------------------------------------------------------------------------
(* The inductive invariant behind the safety properties: how the worker's   *)
(* position, the slots of the queue and the life of a task fit together.    *)

Active == pc \in {"run", "ran", "popped", "destroyed"}

(* Only the front slot may be empty, exactly while its task runs; the other *)
(* slots hold different tasks, and these are the pending ones.              *)
SlotsInv ==
  /\ pc \in {"run", "ran"} => tasks # <<>>
  /\ \A k \in 1 .. Len(tasks) :
       /\ tasks[k] = NoTask <=> k = 1 /\ pc \in {"run", "ran"}
       /\ tasks[k] # NoTask => body[tasks[k]] = "pending"
  /\ \A j, k \in 1 .. Len(tasks) : tasks[j] = tasks[k] => j = k
  /\ \A t \in Task : body[t] = "pending" => \E k \in 1 .. Len(tasks) : tasks[k] = t

(* The worker's locals describe the task it has in hand. *)
CurrentInv ==
  /\ current # NoTask <=> Active
  /\ pc = "run" => body[current] = "running" /\ ~eptr
  /\ pc \in {"ran", "popped", "destroyed"} =>
       body[current] = IF eptr THEN "threw" ELSE "returned"
  /\ \A t \in Task : body[t] = "running" => t = current /\ pc = "run"

(* A task object lives from its submission to its destruction by the worker *)
(* and its future becomes ready after that.                                 *)
LifeInv ==
  \A t \in Task :
    /\ t \in objects <=> \/ body[t] = "pending"
                         \/ t = current /\ pc \in {"run", "ran", "popped"}
    /\ future[t] = "none" <=> body[t] = "unsubmitted"
    /\ future[t] = "pending" <=> body[t] = "pending" \/ t = current
    /\ Signalled(t) => (future[t] = "exception" <=> body[t] = "threw")

(* The thread ends only when asked to and with nothing left to do. *)
EndInv ==
  /\ stop <=> dtor # "alive"
  /\ pc = "exited" => stop /\ IsEmpty
  /\ pc = "none" => IsEmpty
  /\ dtor = "joined" => pc \in {"none", "exited"}

IInv == TypeOK /\ SlotsInv /\ CurrentInv /\ LifeInv /\ EndInv
=============================================================================
