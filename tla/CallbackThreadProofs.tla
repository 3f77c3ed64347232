------------------------ MODULE CallbackThreadProofs ------------------------
(* Proofs of the safety properties of CallbackThread, for every set of      *)
(* tasks and of clients, and of its refinement of SerialExecutor.           *)
EXTENDS CallbackThread, SequenceTheorems, TLAPS

USE NoTaskAssumption, WorkerAssumption, NoThreadAssumption, MayThrowAssumption

LEMMA InitIInv == Init => IInv
<1> SUFFICES ASSUME Init PROVE IInv
  OBVIOUS
<1> USE DEF Init
<1>1. TypeOK
  <2>1. tasks \in Seq(Task \cup {NoTask})
    OBVIOUS
  <2>2. QED
    BY <2>1 DEF TypeOK
<1>2. SlotsInv
  BY DEF SlotsInv
<1>3. CurrentInv
  BY DEF CurrentInv, Active
<1>4. LifeInv
  BY DEF LifeInv, Signalled
<1>5. EndInv
  BY DEF EndInv, IsEmpty
<1>6. QED
  BY <1>1, <1>2, <1>3, <1>4, <1>5 DEF IInv

(* Each kind of step preserves the type invariant. *)
LEMMA StepTypeOK == IInv /\ [Next]_vars => TypeOK'
<1> SUFFICES ASSUME IInv, TypeOK, [Next]_vars PROVE TypeOK'
  BY DEF IInv
<1> USE DEF TypeOK, Caller
<1>1. ASSUME NEW c \in Caller, NEW t \in Task, Submit(c, t) PROVE TypeOK'
  BY <1>1 DEF Submit, Notified, dtorVars
<1>2. ASSUME NEW c \in Caller, DtorStop(c) PROVE TypeOK'
  BY <1>2 DEF DtorStop, Notified, taskVars
<1>3. CASE DtorDetach
  BY <1>3 DEF DtorDetach, workerVars, taskVars
<1>4. CASE DtorJoin
  BY <1>4 DEF DtorJoin, workerVars, taskVars
<1>5. CASE WorkerCheck
  BY <1>5 DEF WorkerCheck, taskVars, dtorVars
<1>6. CASE WorkerSleep
  BY <1>6 DEF WorkerSleep, taskVars, dtorVars
<1>7. CASE WorkerExit
  BY <1>7 DEF WorkerExit, taskVars, dtorVars
<1>8. CASE WorkerTake
  <2>1. tasks' \in Seq(Task \cup {NoTask})
    BY <1>8, ExceptSeq DEF WorkerTake, IsEmpty
  <2>2. current' \in Task \cup {NoTask}
    BY <1>8 DEF WorkerTake, IsEmpty
  <2>3. QED
    BY <1>8, <2>1, <2>2 DEF WorkerTake, dtorVars
<1>9. CASE WorkerRun
  BY <1>9 DEF WorkerRun, dtorVars
<1>10. CASE WorkerPop
  BY <1>10 DEF WorkerPop, taskVars, dtorVars, IInv, SlotsInv
<1>11. CASE WorkerDestroyTask
  BY <1>11 DEF WorkerDestroyTask, dtorVars
<1>12. CASE WorkerSetPromise
  BY <1>12 DEF WorkerSetPromise, dtorVars
<1>13. CASE WorkerSpuriousWakeup
  BY <1>13 DEF WorkerSpuriousWakeup, taskVars, dtorVars
<1>14. CASE UNCHANGED vars
  BY <1>14 DEF vars, workerVars, taskVars, dtorVars
<1>15. QED
  BY <1>1, <1>2, <1>3, <1>4, <1>5, <1>6, <1>7, <1>8, <1>9, <1>10, <1>11, <1>12,
     <1>13, <1>14 DEF Next, WorkerStep, Terminated

-----------------------------------------------------------------------------
(* The strengthening, action by action.  Type correctness of the new state  *)
(* is assumed here and discharged by StepTypeOK.                            *)

LEMMA SubmitStep ==
  ASSUME IInv, TypeOK', NEW c \in Caller, NEW t \in Task, Submit(c, t)
  PROVE  IInv'
<1> USE DEF IInv, TypeOK
<1>1. /\ tasks' = Append(tasks, t)
      /\ Len(tasks') = Len(tasks) + 1
      /\ tasks'[Len(tasks')] = t
      /\ \A k \in 1 .. Len(tasks) : tasks'[k] = tasks[k]
  BY DEF Submit
<1>2. /\ pc \in {"run", "ran"} <=> pc' \in {"run", "ran"}
      /\ Active' <=> Active
  BY DEF Submit, Notified, Active, MutexFree
<1>3. \A k \in 1 .. Len(tasks) : tasks[k] # t
  BY DEF Submit, SlotsInv
<1>4. SlotsInv'
  <2>1. pc' \in {"run", "ran"} => tasks' # <<>>
    BY <1>1
  <2>2. ASSUME NEW k \in 1 .. Len(tasks')
        PROVE /\ tasks'[k] = NoTask <=> k = 1 /\ pc' \in {"run", "ran"}
              /\ tasks'[k] # NoTask => body'[tasks'[k]] = "pending"
    <3>1. CASE k = Len(tasks')
      BY <1>1, <1>2, <3>1 DEF Submit, SlotsInv
    <3>2. CASE k \in 1 .. Len(tasks)
      BY <1>1, <1>2, <1>3, <3>2 DEF Submit, SlotsInv
    <3>3. QED
      BY <1>1, <3>1, <3>2
  <2>3. ASSUME NEW j \in 1 .. Len(tasks'), NEW k \in 1 .. Len(tasks'), tasks'[j] = tasks'[k]
        PROVE j = k
    BY <1>1, <1>3, <2>3 DEF SlotsInv
  <2>4. ASSUME NEW u \in Task, body'[u] = "pending"
        PROVE \E k \in 1 .. Len(tasks') : tasks'[k] = u
    <3>1. CASE u = t
      BY <1>1, <3>1
    <3>2. CASE u # t
      <4>1. body[u] = "pending"
        BY <2>4, <3>2 DEF Submit
      <4>2. PICK k \in 1 .. Len(tasks) : tasks[k] = u
        BY <4>1 DEF SlotsInv
      <4>3. QED
        BY <1>1, <4>2
    <3>3. QED
      BY <3>1, <3>2
  <2>5. QED
    BY <2>1, <2>2, <2>3, <2>4 DEF SlotsInv
<1>5. CurrentInv'
  BY <1>2 DEF Submit, Notified, MutexFree, CurrentInv, Active
<1>6. LifeInv'
  BY DEF Submit, Notified, MutexFree, LifeInv, CurrentInv, Active, Signalled
<1>7. EndInv'
  BY <1>1 DEF Submit, Notified, MutexFree, EndInv, IsEmpty, dtorVars
<1>8. QED
  BY <1>4, <1>5, <1>6, <1>7

LEMMA DtorStopStep ==
  ASSUME IInv, TypeOK', NEW c \in Caller, DtorStop(c)
  PROVE  IInv'
  BY DEF IInv, TypeOK, DtorStop, Notified, MutexFree, taskVars,
         SlotsInv, CurrentInv, LifeInv, EndInv, Active, Signalled, IsEmpty

LEMMA DtorEndStep ==
  ASSUME IInv, TypeOK', DtorDetach \/ DtorJoin
  PROVE  IInv'
  BY DEF IInv, TypeOK, DtorDetach, DtorJoin, taskVars, workerVars,
         SlotsInv, CurrentInv, LifeInv, EndInv, Active, Signalled, IsEmpty

LEMMA WorkerWaitStep ==
  ASSUME IInv, TypeOK',
         WorkerCheck \/ WorkerSleep \/ WorkerExit \/ WorkerSpuriousWakeup
  PROVE  IInv'
<1> USE DEF IInv, WorkerCheck, WorkerSleep, WorkerExit, WorkerSpuriousWakeup, taskVars, dtorVars
<1>1. pc \notin {"run", "ran"} /\ pc' \notin {"run", "ran"} /\ ~Active /\ ~Active'
  BY DEF Active
<1>2. SlotsInv'
  BY <1>1 DEF SlotsInv
<1>3. CurrentInv'
  BY <1>1 DEF CurrentInv, Active
<1>4. LifeInv'
  BY <1>1 DEF LifeInv, Signalled
<1>5. EndInv'
  BY DEF EndInv, IsEmpty
<1>6. QED
  BY <1>2, <1>3, <1>4, <1>5

(* The front slot is emptied and its task becomes the current one. *)
LEMMA TakeStep ==
  ASSUME IInv, TypeOK', WorkerTake
  PROVE  IInv'
<1> USE DEF IInv, TypeOK
<1> DEFINE t == Head(tasks)
<1>1. tasks # <<>> /\ t = tasks[1] /\ Len(tasks) \in Nat \ {0} /\ 1 \in 1 .. Len(tasks)
  BY DEF WorkerTake, IsEmpty
<1>2. /\ Len(tasks') = Len(tasks)
      /\ tasks' # <<>>
      /\ \A k \in 1 .. Len(tasks) : tasks'[k] = IF k = 1 THEN NoTask ELSE tasks[k]
  BY <1>1, ExceptSeq DEF WorkerTake
<1>3. t \in Task /\ body[t] = "pending" /\ tasks[1] # NoTask
  BY <1>1 DEF WorkerTake, SlotsInv
<1>4. pc = "lock" /\ pc' = "run" /\ ~Active /\ Active' /\ current = NoTask
  BY DEF WorkerTake, CurrentInv, Active
<1>5. body' = [body EXCEPT ![t] = "running"] /\ current' = t /\ ~eptr'
  BY DEF WorkerTake
<1>6. SlotsInv'
  <2>1. ASSUME NEW k \in 1 .. Len(tasks')
        PROVE /\ tasks'[k] = NoTask <=> k = 1 /\ pc' \in {"run", "ran"}
              /\ tasks'[k] # NoTask => body'[tasks'[k]] = "pending"
    <3>1. CASE k = 1
      BY <1>2, <1>4, <3>1
    <3>2. CASE k # 1
      <4>1. tasks'[k] = tasks[k] /\ tasks[k] # tasks[1] /\ tasks[k] # NoTask
        BY <1>1, <1>2, <1>4, <3>2 DEF SlotsInv
      <4>2. tasks[k] \in Task /\ body[tasks[k]] = "pending"
        BY <1>2, <4>1 DEF SlotsInv
      <4>3. QED
        BY <1>1, <1>3, <1>5, <3>2, <4>1, <4>2
    <3>3. QED
      BY <3>1, <3>2
  <2>2. ASSUME NEW j \in 1 .. Len(tasks'), NEW k \in 1 .. Len(tasks'), tasks'[j] = tasks'[k]
        PROVE j = k
    BY <1>2, <1>4, <2>2 DEF SlotsInv
  <2>3. ASSUME NEW u \in Task, body'[u] = "pending"
        PROVE \E k \in 1 .. Len(tasks') : tasks'[k] = u
    <3>1. body[u] = "pending" /\ u # t
      BY <1>3, <1>5, <2>3
    <3>2. PICK k \in 1 .. Len(tasks) : tasks[k] = u
      BY <3>1 DEF SlotsInv
    <3>3. QED
      BY <1>1, <1>2, <3>1, <3>2
  <2>4. QED
    BY <1>2, <2>1, <2>2, <2>3 DEF SlotsInv
<1>7. CurrentInv'
  BY <1>3, <1>4, <1>5 DEF CurrentInv
<1>8. LifeInv'
  BY <1>3, <1>4, <1>5 DEF LifeInv, WorkerTake, Signalled
<1>9. EndInv'
  BY <1>4 DEF EndInv, WorkerTake, dtorVars, IsEmpty
<1>10. QED
  BY <1>6, <1>7, <1>8, <1>9

LEMMA RunStep ==
  ASSUME IInv, TypeOK', WorkerRun
  PROVE  IInv'
<1> USE DEF IInv, TypeOK
<1>1. pc = "run" /\ pc' = "ran" /\ Active /\ Active' /\ current \in Task /\ current' = current
  BY DEF WorkerRun, CurrentInv, Active
<1>2. PICK thrown \in BOOLEAN :
        /\ eptr' = thrown
        /\ body' = [body EXCEPT ![current] = IF thrown THEN "threw" ELSE "returned"]
  <2>1. eptr = FALSE
    BY <1>1 DEF CurrentInv
  <2>2. QED
    BY <2>1 DEF WorkerRun
<1>3. body[current] = "running"
  BY <1>1 DEF CurrentInv
<1>4. UNCHANGED <<tasks, objects, future, dtorVars>>
  BY DEF WorkerRun
<1>5. SlotsInv'
  BY <1>1, <1>2, <1>3, <1>4 DEF SlotsInv
<1>6. CurrentInv'
  BY <1>1, <1>2, <1>3 DEF CurrentInv
<1>7. LifeInv'
  BY <1>1, <1>2, <1>3, <1>4 DEF LifeInv, Signalled
<1>8. EndInv'
  BY <1>1, <1>4 DEF EndInv, dtorVars, IsEmpty
<1>9. QED
  BY <1>5, <1>6, <1>7, <1>8

(* The empty slot leaves the queue: what is left is all full. *)
LEMMA PopStep ==
  ASSUME IInv, TypeOK', WorkerPop
  PROVE  IInv'
<1> USE DEF IInv, TypeOK
<1>1. pc = "ran" /\ pc' = "popped" /\ Active /\ Active' /\ UNCHANGED <<current, eptr, taskVars, dtorVars>>
  BY DEF WorkerPop, Active
<1>2. /\ tasks # <<>>
      /\ Len(tasks) \in Nat \ {0}
      /\ Len(tasks') = Len(tasks) - 1
      /\ \A k \in 1 .. Len(tasks') : tasks'[k] = tasks[k + 1]
  BY <1>1, HeadTailProperties DEF WorkerPop, SlotsInv
<1>3. SlotsInv'
  <2>1. ASSUME NEW k \in 1 .. Len(tasks')
        PROVE /\ tasks'[k] = NoTask <=> k = 1 /\ pc' \in {"run", "ran"}
              /\ tasks'[k] # NoTask => body'[tasks'[k]] = "pending"
    <3>1. k + 1 \in 1 .. Len(tasks) /\ k + 1 # 1 /\ tasks'[k] = tasks[k + 1]
      BY <1>2
    <3>2. QED
      BY <1>1, <3>1 DEF SlotsInv, taskVars
  <2>2. ASSUME NEW j \in 1 .. Len(tasks'), NEW k \in 1 .. Len(tasks'), tasks'[j] = tasks'[k]
        PROVE j = k
    <3>1. /\ j + 1 \in 1 .. Len(tasks) /\ tasks'[j] = tasks[j + 1]
          /\ k + 1 \in 1 .. Len(tasks) /\ tasks'[k] = tasks[k + 1]
      BY <1>2
    <3>2. \A a, b \in 1 .. Len(tasks) : tasks[a] = tasks[b] => a = b
      BY DEF SlotsInv
    <3>3. tasks[j + 1] = tasks[k + 1]
      BY <2>2, <3>1
    <3>4. j + 1 = k + 1
      BY <3>1, <3>2, <3>3
    <3>5. QED
      BY <3>4
  <2>3. ASSUME NEW u \in Task, body'[u] = "pending"
        PROVE \E k \in 1 .. Len(tasks') : tasks'[k] = u
    <3>1. PICK k \in 1 .. Len(tasks) : tasks[k] = u
      BY <1>1, <2>3 DEF SlotsInv, taskVars
    <3>2. k # 1
      BY <1>1, <3>1 DEF SlotsInv
    <3>3. k - 1 \in 1 .. Len(tasks') /\ tasks'[k - 1] = tasks[k]
      BY <1>2, <3>2
    <3>4. QED
      BY <3>1, <3>3
  <2>4. QED
    BY <1>1, <2>1, <2>2, <2>3 DEF SlotsInv
<1>4. CurrentInv'
  BY <1>1 DEF CurrentInv, taskVars
<1>5. LifeInv'
  BY <1>1 DEF LifeInv, Signalled, taskVars
<1>6. EndInv'
  BY <1>1 DEF EndInv, dtorVars
<1>7. QED
  BY <1>3, <1>4, <1>5, <1>6

LEMMA DestroyTaskStep ==
  ASSUME IInv, TypeOK', WorkerDestroyTask
  PROVE  IInv'
<1> USE DEF IInv, TypeOK
<1>1. /\ pc = "popped" /\ pc' = "destroyed" /\ Active /\ Active'
      /\ current \in Task
      /\ objects' = objects \ {current}
      /\ UNCHANGED <<tasks, current, eptr, body, future, dtorVars>>
  BY DEF WorkerDestroyTask, CurrentInv, Active
<1>2. body[current] # "pending"
  BY <1>1 DEF CurrentInv
<1>3. SlotsInv'
  BY <1>1 DEF SlotsInv
<1>4. CurrentInv'
  BY <1>1 DEF CurrentInv
<1>5. LifeInv'
  BY <1>1, <1>2 DEF LifeInv, Signalled
<1>6. EndInv'
  BY <1>1 DEF EndInv, dtorVars, IsEmpty
<1>7. QED
  BY <1>3, <1>4, <1>5, <1>6

LEMMA SetPromiseStep ==
  ASSUME IInv, TypeOK', WorkerSetPromise
  PROVE  IInv'
<1> USE DEF IInv, TypeOK
<1>1. /\ pc = "destroyed" /\ pc' = "lock" /\ Active /\ ~Active'
      /\ current \in Task /\ current' = NoTask
      /\ future' = [future EXCEPT ![current] = IF eptr THEN "exception" ELSE "value"]
      /\ UNCHANGED <<tasks, eptr, body, objects, dtorVars>>
  BY DEF WorkerSetPromise, CurrentInv, Active
<1>2. body[current] = IF eptr THEN "threw" ELSE "returned"
  BY <1>1 DEF CurrentInv
<1>3. SlotsInv'
  BY <1>1 DEF SlotsInv
<1>4. CurrentInv'
  BY <1>1 DEF CurrentInv
<1>5. LifeInv'
  BY <1>1, <1>2 DEF LifeInv, Signalled
<1>6. EndInv'
  BY <1>1 DEF EndInv, dtorVars, IsEmpty
<1>7. QED
  BY <1>3, <1>4, <1>5, <1>6

LEMMA StepIInv == IInv /\ [Next]_vars => IInv'
<1> SUFFICES ASSUME IInv, [Next]_vars PROVE IInv'
  OBVIOUS
<1>1. TypeOK'
  BY StepTypeOK
<1>2. CASE UNCHANGED vars
  BY <1>2 DEF vars, workerVars, taskVars, dtorVars, IInv, TypeOK, SlotsInv, CurrentInv,
              LifeInv, EndInv, Active, Signalled, IsEmpty
<1>3. QED
  BY <1>1, <1>2, SubmitStep, DtorStopStep, DtorEndStep, WorkerWaitStep, TakeStep, RunStep,
     PopStep, DestroyTaskStep, SetPromiseStep DEF Next, WorkerStep, Terminated

(* The strengthened invariant holds in every reachable state. *)
THEOREM Invariance == Spec => []IInv
<1>1. QED
  BY InitIInv, StepIInv, PTL DEF Spec

-----------------------------------------------------------------------------
(* What follows from the invariant. *)

(* Every variable keeps its type, for every set of tasks and of clients. *)
THEOREM TypeCorrect == Spec => []TypeOK
  BY Invariance, PTL DEF IInv

(* A task is fully destroyed before its future becomes ready. *)
THEOREM FutureReadyMeansDestroyed == Spec => []FutureAfterDestruction
<1>1. IInv => FutureAfterDestruction
  BY NoTaskAssumption
     DEF IInv, TypeOK, LifeInv, CurrentInv, FutureAfterDestruction, Signalled, Active
<1>2. QED
  BY <1>1, Invariance, PTL

(* isEmpty() is true only when the body of every submitted task is over. *)
THEOREM EmptyQueueIsIdle == Spec => []EmptyMeansNothingRuns
<1>1. IInv => EmptyMeansNothingRuns
  <2> SUFFICES ASSUME IInv, tasks = <<>>, NEW t \in Task, body[t] \in {"pending", "running"}
               PROVE FALSE
    BY DEF EmptyMeansNothingRuns, IsEmpty
  <2>1. CASE body[t] = "pending"
    BY <2>1 DEF IInv, SlotsInv
  <2>2. CASE body[t] = "running"
    BY <2>2 DEF IInv, SlotsInv, CurrentInv
  <2>3. QED
    BY <2>1, <2>2
<1>2. QED
  BY <1>1, Invariance, PTL

(* assert(task) of the worker's loop never fails: a slot that was moved     *)
(* from is popped before the worker looks at the queue again.               *)
THEOREM TakenTaskExists == Spec => []TakenSlotIsFull
<1>1. IInv => TakenSlotIsFull
  <2> SUFFICES ASSUME IInv, pc = "lock", tasks # <<>>
               PROVE  Head(tasks) # NoTask
    BY DEF TakenSlotIsFull, IsEmpty
  <2>1. Len(tasks) >= 1 /\ Head(tasks) = tasks[1]
    BY EmptySeq, HeadTailProperties, LenProperties DEF IInv, TypeOK
  <2>2. QED
    BY <2>1 DEF IInv, SlotsInv
<1>2. QED
  BY <1>1, Invariance, PTL

(* Whoever sees all futures ready sees the queue empty. *)
THEOREM ReadyFuturesMeanEmptyQueue == Spec => []LastFutureSeesEmptyQueue
<1>1. IInv => LastFutureSeesEmptyQueue
  <2> SUFFICES ASSUME IInv, \A t \in Task : future[t] # "pending", tasks # <<>>
               PROVE FALSE
    BY DEF LastFutureSeesEmptyQueue, IsEmpty
  <2>1. tasks[1] \in Task \cup {NoTask} /\ 1 \in 1 .. Len(tasks)
    BY DEF IInv, TypeOK
  <2>2. CASE tasks[1] = NoTask
    <3>1. current # NoTask /\ current \in Task
      BY <2>1, <2>2 DEF IInv, TypeOK, SlotsInv, CurrentInv, Active
    <3>2. QED
      BY <3>1 DEF IInv, LifeInv
  <2>3. CASE tasks[1] # NoTask
    BY <2>1, <2>3 DEF IInv, SlotsInv, LifeInv
  <2>4. QED
    BY <2>2, <2>3
<1>2. QED
  BY <1>1, Invariance, PTL

(* The future of a task carries the outcome of that task. *)
THEOREM OutcomesAreNotMixedUp == Spec => []OutcomeReachesItsFuture
<1>1. IInv => OutcomeReachesItsFuture
  BY DEF IInv, LifeInv, OutcomeReachesItsFuture
<1>2. QED
  BY <1>1, Invariance, PTL

(* A destructor that has joined leaves nothing behind. *)
THEOREM JoinedExecutorIsDrained == Spec => []JoinedMeansDrained
<1>1. IInv => JoinedMeansDrained
  <2> SUFFICES ASSUME IInv, dtor = "joined" PROVE JoinedMeansDrained
    BY DEF JoinedMeansDrained
  <2>1. tasks = <<>> /\ current = NoTask
    BY DEF IInv, EndInv, IsEmpty, CurrentInv, Active
  <2>2. \A t \in Task : t # current
    BY <2>1
  <2>3. \A t \in Task : body[t] # "pending"
    <3>1. \A t \in Task : body[t] = "pending" => \E k \in 1 .. Len(tasks) : tasks[k] = t
      BY DEF IInv, SlotsInv
    <3>2. 1 .. Len(tasks) = {}
      BY <2>1
    <3>3. QED
      BY <3>1, <3>2
  <2>4. QED
    BY <2>1, <2>2, <2>3 DEF JoinedMeansDrained, IsEmpty, IInv, TypeOK, LifeInv
<1>2. QED
  BY <1>1, Invariance, PTL

-----------------------------------------------------------------------------
(* The order of the tasks, for those who wait on a later one.               *)

Over(t) == body[t] \in {"returned", "threw"}

\* The body of u is over before the body of t starts.
Ordered(u, t) ==
  \/ Over(u)
  \/ body[u] = "running" /\ body[t] = "pending"
  \/ \E j, k \in 1 .. Len(tasks) : j < k /\ tasks[j] = u /\ tasks[k] = t

LEMMA BodiesAdvance ==
  ASSUME IInv, [Next]_vars, NEW t \in Task
  PROVE  /\ body[t] # "unsubmitted" => body'[t] # "unsubmitted"
         /\ Over(t) => Over(t)'
<1>0. body \in [Task -> {"unsubmitted", "pending", "running", "returned", "threw"}]
  BY DEF IInv, TypeOK
<1>1. CASE body' = body
  BY <1>1 DEF Over
<1>2. ASSUME NEW c \in Caller, NEW u \in Task, Submit(c, u)
      PROVE  /\ body[t] # "unsubmitted" => body'[t] # "unsubmitted"
             /\ Over(t) => Over(t)'
  BY <1>0, <1>2 DEF Submit, Over
<1>3. CASE WorkerTake
  <2>1. \A u \in Task : body[u] = "pending" <=> \E k \in 1 .. Len(tasks) : tasks[k] = u
    BY DEF IInv, TypeOK, SlotsInv
  <2>2. tasks # <<>> /\ Head(tasks) = tasks[1] /\ 1 \in 1 .. Len(tasks) /\ pc = "lock"
    BY <1>3 DEF WorkerTake, IsEmpty, IInv, TypeOK
  <2>3. tasks[1] \in Task /\ body[tasks[1]] = "pending"
    BY <2>2 DEF IInv, SlotsInv, TypeOK
  <2> QED
    BY <1>0, <1>3, <2>2, <2>3 DEF WorkerTake, Over
<1>4. CASE WorkerRun
  <2>1. current \in Task /\ body[current] = "running"
    BY <1>4 DEF WorkerRun, IInv, TypeOK, CurrentInv, Active
  <2> QED
    BY <1>0, <1>4, <2>1 DEF WorkerRun, Over
<1> QED
  BY <1>1, <1>2, <1>3, <1>4 DEF Next, WorkerStep, Terminated, DtorStop, DtorDetach, DtorJoin,
     WorkerCheck, WorkerSleep, WorkerExit, WorkerPop, WorkerDestroyTask, WorkerSetPromise,
     WorkerSpuriousWakeup, vars, taskVars

LEMMA WorkerSubmitsNothing ==
  ASSUME IInv, WorkerStep \/ WorkerSpuriousWakeup, NEW t \in Task, body[t] = "unsubmitted"
  PROVE  body'[t] = "unsubmitted"
<1>0. body \in [Task -> {"unsubmitted", "pending", "running", "returned", "threw"}]
  BY DEF IInv, TypeOK
<1>1. CASE body' = body
  BY <1>1
<1>2. CASE WorkerTake
  <2>1. tasks # <<>> /\ Head(tasks) = tasks[1] /\ 1 \in 1 .. Len(tasks) /\ pc = "lock"
    BY <1>2 DEF WorkerTake, IsEmpty, IInv, TypeOK
  <2>2. tasks[1] \in Task /\ body[tasks[1]] = "pending"
    BY <2>1 DEF IInv, SlotsInv, TypeOK
  <2> QED
    BY <1>0, <1>2, <2>1, <2>2 DEF WorkerTake
<1>3. CASE WorkerRun
  <2>1. current \in Task /\ body[current] = "running"
    BY <1>3 DEF WorkerRun, IInv, TypeOK, CurrentInv, Active
  <2> QED
    BY <1>0, <1>3, <2>1 DEF WorkerRun
<1> QED
  BY <1>1, <1>2, <1>3 DEF WorkerStep, WorkerCheck, WorkerSleep, WorkerExit, WorkerPop,
     WorkerDestroyTask, WorkerSetPromise, WorkerSpuriousWakeup, taskVars

\* A task that is submitted comes behind all that were.
LEMMA SubmitOrders ==
  ASSUME IInv, NEW c \in Caller, NEW t \in Task, Submit(c, t),
         NEW u \in Task, body[u] # "unsubmitted"
  PROVE  Ordered(u, t)'
<1>1. /\ tasks' = Append(tasks, t) /\ body' = [body EXCEPT ![t] = "pending"]
      /\ body[t] = "unsubmitted" /\ tasks \in Seq(Task \cup {NoTask})
      /\ body \in [Task -> {"unsubmitted", "pending", "running", "returned", "threw"}]
  BY DEF Submit, IInv, TypeOK
<1>2. /\ Len(tasks') = Len(tasks) + 1 /\ tasks'[Len(tasks) + 1] = t
      /\ \A k \in 1 .. Len(tasks) : tasks'[k] = tasks[k]
      /\ Len(tasks) \in Nat
  BY <1>1, AppendProperties
<1>3. u # t /\ body'[u] = body[u] /\ body'[t] = "pending"
  BY <1>1
<1>4. CASE body[u] = "pending"
  <2>1. PICK j \in 1 .. Len(tasks) : tasks[j] = u
    BY <1>4 DEF IInv, SlotsInv
  <2>2. /\ j \in 1 .. Len(tasks') /\ Len(tasks) + 1 \in 1 .. Len(tasks')
        /\ j < Len(tasks) + 1 /\ tasks'[j] = u /\ tasks'[Len(tasks) + 1] = t
    BY <1>2, <2>1
  <2> QED
    BY <2>2 DEF Ordered
<1>5. CASE body[u] # "pending"
  BY <1>1, <1>3, <1>5 DEF Ordered, Over
<1> QED
  BY <1>4, <1>5

LEMMA OrderStays ==
  ASSUME IInv, [Next]_vars, NEW u \in Task, NEW t \in Task, Ordered(u, t)
  PROVE  Ordered(u, t)'
<1>0. /\ body \in [Task -> {"unsubmitted", "pending", "running", "returned", "threw"}]
      /\ tasks \in Seq(Task \cup {NoTask}) /\ Len(tasks) \in Nat
  BY DEF IInv, TypeOK
<1>1. CASE Over(u)
  BY <1>1, BodiesAdvance DEF Ordered
<1>2. CASE body' = body /\ tasks' = tasks
  BY <1>2 DEF Ordered, Over
<1>3. ASSUME NEW c \in Caller, NEW s \in Task, Submit(c, s)
      PROVE  Ordered(u, t)'
  <2>1. /\ tasks' = Append(tasks, s) /\ body' = [body EXCEPT ![s] = "pending"]
        /\ body[s] = "unsubmitted"
    BY <1>3 DEF Submit
  <2>2. /\ Len(tasks') = Len(tasks) + 1
        /\ \A k \in 1 .. Len(tasks) : tasks'[k] = tasks[k] /\ k \in 1 .. Len(tasks')
    BY <1>0, <2>1, AppendProperties
  <2> QED
    BY <1>0, <2>1, <2>2 DEF Ordered, Over
<1>4. CASE WorkerTake /\ ~Over(u)
  <2>1. /\ tasks # <<>> /\ Head(tasks) = tasks[1] /\ 1 \in 1 .. Len(tasks) /\ pc = "lock"
        /\ tasks' = [tasks EXCEPT ![1] = NoTask]
        /\ body' = [body EXCEPT ![tasks[1]] = "running"]
    BY <1>0, <1>4 DEF WorkerTake, IsEmpty
  <2>2. body[u] # "running"
    BY <2>1 DEF IInv, CurrentInv
  <2>3. PICK j \in 1 .. Len(tasks), k \in 1 .. Len(tasks) : j < k /\ tasks[j] = u /\ tasks[k] = t
    BY <1>4, <2>2 DEF Ordered
  <2>4. /\ Len(tasks') = Len(tasks) /\ \A i \in 1 .. Len(tasks) : i # 1 => tasks'[i] = tasks[i]
        /\ k # 1
    BY <1>0, <2>1, <2>3, ExceptSeq
  <2>5. body[t] = "pending" /\ t # tasks[1]
    BY <2>1, <2>3, <2>4 DEF IInv, SlotsInv
  <2>6. CASE j = 1
    BY <1>0, <2>1, <2>3, <2>5, <2>6 DEF Ordered
  <2>7. CASE j # 1
    BY <2>3, <2>4, <2>7 DEF Ordered
  <2> QED
    BY <2>6, <2>7
<1>5. CASE WorkerRun /\ ~Over(u)
  <2>1. current \in Task /\ body[current] = "running" /\ tasks' = tasks
    BY <1>5 DEF WorkerRun, IInv, TypeOK, CurrentInv, Active
  <2>2. body[u] = "running" => u = current
    BY DEF IInv, CurrentInv
  <2>3. body'[current] \in {"returned", "threw"}
    BY <1>0, <1>5, <2>1 DEF WorkerRun
  <2> QED
    BY <1>5, <2>1, <2>2, <2>3 DEF Ordered, Over
<1>6. CASE WorkerPop /\ ~Over(u)
  <2>1. tasks # <<>> /\ tasks' = Tail(tasks) /\ body' = body /\ pc = "ran"
    BY <1>6 DEF WorkerPop, taskVars, IInv, SlotsInv
  <2>2. CASE body[u] = "running" /\ body[t] = "pending"
    BY <2>1, <2>2 DEF Ordered
  <2>3. ASSUME NEW j \in 1 .. Len(tasks), NEW k \in 1 .. Len(tasks),
               j < k, tasks[j] = u, tasks[k] = t
        PROVE  Ordered(u, t)'
    <3>1. j # 1
      BY <2>1, <2>3 DEF IInv, SlotsInv
    <3>2. /\ Len(tasks') = Len(tasks) - 1
          /\ \A i \in 1 .. Len(tasks') : tasks'[i] = tasks[i + 1]
      BY <1>0, <2>1, HeadTailProperties
    <3>3. /\ j - 1 \in 1 .. Len(tasks') /\ k - 1 \in 1 .. Len(tasks') /\ j - 1 < k - 1
          /\ (j - 1) + 1 = j /\ (k - 1) + 1 = k
      BY <1>0, <2>3, <3>1, <3>2
    <3>4. tasks'[j - 1] = u /\ tasks'[k - 1] = t
      BY <2>3, <3>2, <3>3
    <3> QED
      BY <3>3, <3>4 DEF Ordered
  <2> QED
    BY <1>6, <2>2, <2>3 DEF Ordered
<1> QED
  BY <1>1, <1>2, <1>3, <1>4, <1>5, <1>6 DEF Next, WorkerStep, Terminated, DtorStop, DtorDetach,
     DtorJoin, WorkerCheck, WorkerSleep, WorkerExit, WorkerDestroyTask, WorkerSetPromise,
     WorkerSpuriousWakeup, vars, taskVars

\* Once t has started, what is ordered before it is over.
LEMMA OrderedIsOver ==
  ASSUME IInv, NEW u \in Task, NEW t \in Task, Ordered(u, t), body[t] # "pending"
  PROVE  Over(u)
<1>1. \A k \in 1 .. Len(tasks) : tasks[k] = t => body[t] = "pending"
  BY DEF IInv, SlotsInv
<1> QED
  BY <1>1 DEF Ordered

LEMMA EmptyIsOver ==
  ASSUME IInv, IsEmpty, NEW t \in Task
  PROVE  body[t] = "unsubmitted" \/ Over(t)
<1>1. 1 .. Len(tasks) = {} /\ tasks = <<>>
  BY DEF IsEmpty
<1>2. body[t] \notin {"pending", "running"}
  BY <1>1 DEF IInv, SlotsInv, CurrentInv
<1> QED
  BY <1>2 DEF IInv, TypeOK, Over

-----------------------------------------------------------------------------
(* Refinement of SerialExecutor. *)

(* The slots that count as waiting: all but an emptied front slot.          *)
LEMMA WaitingSlots ==
  IInv => Waiting = IF pc \in {"run", "ran"} THEN Tail(tasks) ELSE tasks
<1> SUFFICES ASSUME IInv
             PROVE  Waiting = IF pc \in {"run", "ran"} THEN Tail(tasks) ELSE tasks
  OBVIOUS
<1>1. ASSUME tasks # <<>> PROVE Head(tasks) = tasks[1] /\ 1 \in 1 .. Len(tasks)
  BY <1>1 DEF IInv, TypeOK
<1>2. tasks # <<>> => (Head(tasks) = NoTask <=> pc \in {"run", "ran"})
  BY <1>1 DEF IInv, SlotsInv
<1>3. pc \in {"run", "ran"} => tasks # <<>>
  BY DEF IInv, SlotsInv
<1>4. QED
  BY <1>2, <1>3 DEF Waiting, IsEmpty

LEMMA WaitingSlotsNext ==
  (IInv => Waiting = IF pc \in {"run", "ran"} THEN Tail(tasks) ELSE tasks)'
  BY WaitingSlots, PTL

(* A step that moves no slot and no outcome is a stutter of the executor.   *)
LEMMA StutterRefines ==
  ASSUME IInv, IInv', UNCHANGED <<tasks, current, future, dtor>>,
         pc \in {"run", "ran"} <=> pc' \in {"run", "ran"}
  PROVE  UNCHANGED Executor!vars
<1>1. Waiting' = Waiting
  BY WaitingSlots, WaitingSlotsNext
<1>2. Result' = Result
  BY DEF Result, Signalled
<1>3. QED
  BY <1>1, <1>2 DEF Executor!vars

LEMMA SubmitRefines ==
  ASSUME IInv, IInv', NEW c \in Caller, NEW t \in Task, Submit(c, t)
  PROVE  Executor!Accept(t)
<1>1. tasks \in Seq(Task \cup {NoTask}) /\ (pc \in {"run", "ran"} <=> pc' \in {"run", "ran"})
  BY DEF IInv, TypeOK, Submit, Notified, MutexFree
<1>2. Waiting' = Append(Waiting, t)
  <2>1. CASE pc \in {"run", "ran"}
    <3>1. tasks # <<>>
      BY <2>1 DEF IInv, SlotsInv
    <3>2. Tail(Append(tasks, t)) = Append(Tail(tasks), t)
      BY <1>1, <3>1
    <3>3. QED
      BY <1>1, <2>1, <3>2, WaitingSlots, WaitingSlotsNext DEF Submit
  <2>2. CASE pc \notin {"run", "ran"}
    BY <1>1, <2>2, WaitingSlots, WaitingSlotsNext DEF Submit
  <2>3. QED
    BY <2>1, <2>2
<1>3. Executor!Fresh(t)
  <2>1. \A k \in 1 .. Len(tasks) : tasks[k] # t
    BY DEF IInv, SlotsInv, Submit
  <2>2. \A k \in 1 .. Len(Waiting) : Waiting[k] # t
    BY <1>1, <2>1, WaitingSlots DEF IInv, SlotsInv
  <2>3. future[t] = "none" /\ t # current
    BY DEF IInv, LifeInv, Submit
  <2>4. QED
    BY <2>2, <2>3 DEF Executor!Fresh, Result, Signalled
<1>4. Result' = Result /\ current' = current /\ dtor = "alive" /\ dtor' = dtor
  BY DEF Submit, dtorVars, Result, Signalled, IInv, TypeOK, LifeInv
<1>5. QED
  BY <1>2, <1>3, <1>4 DEF Executor!Accept

LEMMA TakeRefines ==
  ASSUME IInv, IInv', WorkerTake
  PROVE  Executor!Start
<1>1. tasks \in Seq(Task \cup {NoTask}) /\ tasks # <<>> /\ pc = "lock" /\ pc' = "run"
  BY DEF IInv, TypeOK, WorkerTake, IsEmpty
<1>2. Waiting = tasks /\ Waiting' = Tail(tasks')
  BY <1>1, WaitingSlots, WaitingSlotsNext
<1>3. Tail(tasks') = Tail(tasks)
  <2>1. tasks' = [tasks EXCEPT ![1] = NoTask] /\ NoTask \in Task \cup {NoTask}
    BY DEF WorkerTake
  <2>2. /\ tasks' \in Seq(Task \cup {NoTask})
        /\ Len(tasks') = Len(tasks)
        /\ \A k \in 1 .. Len(tasks) : k # 1 => tasks'[k] = tasks[k]
    BY <1>1, <2>1, ExceptSeq
  <2>3. QED
    BY <1>1, <2>2
<1>4. current = NoTask /\ current' = Head(tasks)
  BY <1>1 DEF IInv, CurrentInv, Active, WorkerTake
<1>5. Result' = Result /\ dtor' = dtor
  BY DEF WorkerTake, dtorVars, Result, Signalled
<1>6. QED
  BY <1>1, <1>2, <1>3, <1>4, <1>5 DEF Executor!Start

LEMMA PopRefines ==
  ASSUME IInv, IInv', WorkerPop
  PROVE  UNCHANGED Executor!vars
<1>1. Waiting = Tail(tasks) /\ Waiting' = tasks' /\ tasks' = Tail(tasks)
  BY WaitingSlots, WaitingSlotsNext DEF WorkerPop
<1>2. Result' = Result /\ current' = current /\ dtor' = dtor
  BY DEF WorkerPop, taskVars, dtorVars, Result, Signalled
<1>3. QED
  BY <1>1, <1>2 DEF Executor!vars

LEMMA SetPromiseRefines ==
  ASSUME IInv, IInv', WorkerSetPromise
  PROVE  Executor!Finish
<1>1. current \in Task /\ current # NoTask /\ current' = NoTask
  BY DEF IInv, TypeOK, CurrentInv, Active, WorkerSetPromise
<1>2. PICK r \in {"value", "exception"} : future' = [future EXCEPT ![current] = r]
  BY DEF WorkerSetPromise
<1>3. Result' = [Result EXCEPT ![current] = r]
  BY <1>1, <1>2 DEF Result, Signalled, IInv, TypeOK
<1>4. Waiting' = Waiting /\ dtor' = dtor
  BY WaitingSlots, WaitingSlotsNext DEF WorkerSetPromise, dtorVars
<1>5. QED
  BY <1>1, <1>3, <1>4 DEF Executor!Finish, Executor!Outcome

LEMMA DtorStopRefines ==
  ASSUME IInv, IInv', NEW c \in Caller, DtorStop(c)
  PROVE  Executor!Close
<1>1. Waiting' = Waiting
  <2>1. tasks' = tasks /\ (pc \in {"run", "ran"} <=> pc' \in {"run", "ran"})
    BY DEF DtorStop, Notified
  <2>2. QED
    BY <2>1, WaitingSlots, WaitingSlotsNext
<1>2. Result' = Result /\ current' = current
  BY DEF DtorStop, taskVars, Result, Signalled
<1>3. QED
  BY <1>1, <1>2 DEF DtorStop, Executor!Close

(* The worker, the lock, the condition and the stop token implement an      *)
(* executor that runs what it accepted one by one and in order.             *)
THEOREM Refinement == Spec => ImplementsSerialExecutor
<1>1. Init => Executor!Init
  BY DEF Init, Executor!Init, Waiting, Result, Signalled, IsEmpty
<1>2. IInv /\ IInv' /\ [Next]_vars => [Executor!Next]_(Executor!vars)
  <2> SUFFICES ASSUME IInv, IInv', [Next]_vars
               PROVE  Executor!Next \/ UNCHANGED Executor!vars
    OBVIOUS
  <2>1. ASSUME NEW c \in Caller, NEW t \in Task, Submit(c, t) PROVE Executor!Next
    BY <2>1, SubmitRefines DEF Executor!Next
  <2>2. ASSUME NEW c \in Caller, DtorStop(c) PROVE Executor!Next
    BY <2>2, DtorStopRefines DEF Executor!Next
  <2>3. CASE DtorDetach \/ DtorJoin
    <3>1. UNCHANGED <<tasks, pc, current, future>> /\ dtor # "alive" /\ dtor' # "alive"
      BY <2>3 DEF DtorDetach, DtorJoin, workerVars, taskVars
    <3>2. Waiting' = Waiting
      BY <3>1 DEF Waiting, IsEmpty
    <3>3. Result' = Result
      BY <3>1 DEF Result, Signalled
    <3>4. QED
      BY <3>1, <3>2, <3>3 DEF Executor!vars
  <2>4. CASE WorkerCheck \/ WorkerSleep \/ WorkerExit \/ WorkerSpuriousWakeup
    BY <2>4, StutterRefines
       DEF WorkerCheck, WorkerSleep, WorkerExit, WorkerSpuriousWakeup, taskVars, dtorVars
  <2>5. CASE WorkerTake
    BY <2>5, TakeRefines DEF Executor!Next
  <2>6. CASE WorkerRun \/ WorkerDestroyTask
    BY <2>6, StutterRefines DEF WorkerRun, WorkerDestroyTask, dtorVars
  <2>7. CASE WorkerPop
    BY <2>7, PopRefines
  <2>8. CASE WorkerSetPromise
    BY <2>8, SetPromiseRefines DEF Executor!Next
  <2>9. CASE UNCHANGED vars
    BY <2>9, StutterRefines DEF vars, workerVars, taskVars, dtorVars
  <2>10. QED
    BY <2>1, <2>2, <2>3, <2>4, <2>5, <2>6, <2>7, <2>8, <2>9 DEF Next, WorkerStep, Terminated
<1>3. QED
  BY <1>1, <1>2, Invariance, PTL DEF Spec, ImplementsSerialExecutor, Executor!Spec
=============================================================================
