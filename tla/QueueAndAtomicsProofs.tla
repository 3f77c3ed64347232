------------------------ MODULE QueueAndAtomicsProofs ------------------------
(***************************************************************************)
(* Two components that share nothing but this file.                         *)
(*                                                                         *)
(* What a host queue promises, for any number of operations and threads:   *)
(* a wait and a destructor cover the work, an empty queue has finished it, *)
(* and a deferred operation starts after what was enqueued before it.      *)
(*                                                                         *)
(* The argument: the queue uses its CallbackThread as that module allows,  *)
(* so what is proved there holds here; the executor takes tasks in the     *)
(* order of their submission, so the marker a wait() submits, and a        *)
(* deferred operation, find what was in front of them finished.  In a      *)
(* blocking queue the holder of m_mutex is the one that executes.          *)
(*                                                                         *)
(* And that the back ends implement AtomicMemory, for any number of        *)
(* threads, cells, calls and any width of the words. The one case left     *)
(* out is the Cas of floating point numbers on the host, which compares    *)
(* with ==.                                                                *)
(***************************************************************************)
EXTENDS HostQueue, Atomics, SequenceTheorems, TLAPS

CTP == INSTANCE CallbackThreadProofs WITH MayThrow <- WorkerMayThrow

Types ==
  /\ isBlocking \in BOOLEAN
  /\ lock \in Caller \cup {NoThread}
  /\ busy \in BOOLEAN
  /\ direct \in [Task -> {"none", "submitted", "running", "returned", "threw"}]
  /\ deferred \subseteq User
  /\ preceding \in [User -> SUBSET Task]
  /\ at \in [Caller -> {"idle", "lock", "execute", "check", "submit", "future",
                        "waited", "members", "join", "gone"}]
  /\ op \in [Caller -> {"none", "enqueue", "wait", "destroy"}]
  /\ arg \in [Caller -> Task \cup {NoTask}]
  /\ before \in [Caller -> SUBSET Task]
  /\ alive \in BOOLEAN

\* A call is where its member function may be.
CallFits(c) ==
  /\ at[c] = "idle" => op[c] = "none" /\ arg[c] = NoTask
  /\ at[c] \in {"lock", "execute"} => isBlocking /\ op[c] # "none"
  /\ at[c] \in {"submit", "future"} => ~isBlocking
  /\ at[c] \in {"check", "submit", "future"} => op[c] \in {"wait", "destroy"}
  /\ at[c] = "waited" => op[c] = "wait"
  /\ at[c] \in {"members", "join", "gone"} => op[c] = "destroy"
  /\ op[c] \in {"wait", "destroy"} => arg[c] \in Marker
  /\ op[c] = "enqueue" => arg[c] \in User
  /\ op[c] = "destroy" => ~alive
  /\ at[c] = "gone" => dtor = "joined"
  /\ at[c] \in {"check", "lock"} => direct[arg[c]] \in {"none", "submitted"}
  /\ before[c] \subseteq Enqueued

\* The calls have operations of their own, and a destructor is alone.
Apart ==
  /\ \A c, d \in Caller : arg[c] = arg[d] /\ arg[c] # NoTask => c = d
  /\ ~alive => \A c, d \in Caller : at[c] # "idle" /\ at[d] # "idle" => c = d

\* Only the holder of m_mutex executes, and what it executes is running.
Direct ==
  /\ \A c \in Caller : at[c] = "execute" <=> lock = c
  /\ \A t \in Task : direct[t] = "running" =>
       busy /\ \E c \in Caller : at[c] = "execute" /\ arg[c] = t
  /\ ~isBlocking => \A t \in Task : direct[t] = "none"
  /\ isBlocking => \A t \in Task : body[t] # "unsubmitted" => t \in deferred

\* The queue finishes u before it starts t.
Done(t) == direct[t] \in {"returned", "threw"}
InFront(u, t) == Done(u) \/ CTP!Ordered(u, t)

\* What a caller waits for is in front of its marker, and then finished.
Covered(c) ==
  /\ at[c] = "future" => \A u \in before[c] : InFront(u, arg[c])
  /\ at[c] = "execute" /\ op[c] \in {"wait", "destroy"} =>
       \A u \in before[c] : u \in Invisible \/ Finished(u)
  /\ at[c] \in {"waited", "members", "join", "gone"} =>
       \A u \in before[c] : u \in Invisible \/ Finished(u)

DeferredInOrder ==
  \A t \in deferred :
    /\ body[t] # "unsubmitted"
    /\ preceding[t] \subseteq Enqueued
    /\ \A u \in preceding[t] : (isBlocking /\ u \notin deferred) \/ InFront(u, t)

Calls == \A c \in Caller : CallFits(c) /\ Covered(c)

IInv == CTP!IInv /\ Types /\ Calls /\ Apart /\ Direct /\ DeferredInOrder

-----------------------------------------------------------------------------
(* The queue uses its CallbackThread as that module allows.                 *)

LEMMA CTAssumptions ==
  /\ CTP!NoTaskAssumption /\ CTP!MayThrowAssumption
  /\ CTP!WorkerAssumption /\ CTP!NoThreadAssumption
BY NoTaskAssumption, ThreadAssumption, ThrowAssumption DEF Task, CTP!NoTaskAssumption,
   CTP!MayThrowAssumption, CTP!WorkerAssumption, CTP!NoThreadAssumption

CTStep == [CTP!Next]_(CTP!vars)

LEMMA CTStands ==
  ASSUME UNCHANGED ctVars
  PROVE  CTStep
BY DEF ctVars, CTStep, CTP!vars, CTP!workerVars, CTP!taskVars, CTP!dtorVars

LEMMA CTSubmits ==
  ASSUME NEW c \in Caller, NEW t \in Task, CT!Submit(c, t)
  PROVE  /\ CTP!Submit(c, t) /\ c \in CTP!Caller
         /\ CTStep /\ dtor' = dtor /\ body' = [body EXCEPT ![t] = "pending"]
         /\ body[t] = "unsubmitted"
BY DEF CTStep, CT!Submit, CTP!Next, CTP!Submit, CT!CanCall, CTP!CanCall, CTP!Caller, Caller,
       CT!MutexFree, CTP!MutexFree, CT!Notified, CTP!Notified, CT!dtorVars, CTP!dtorVars,
       CT!InTask, CTP!InTask, CT!WorkerInDtor, CTP!WorkerInDtor

LEMMA CTStops ==
  ASSUME NEW c \in Caller, CT!DtorStop(c)
  PROVE  CTStep /\ dtor = "alive" /\ body' = body
BY DEF CTStep, CT!DtorStop, CTP!Next, CTP!DtorStop, CT!CanCall, CTP!CanCall, CTP!Caller, Caller,
       CT!MutexFree, CTP!MutexFree, CT!Notified, CTP!Notified, CT!taskVars, CTP!taskVars,
       CT!InTask, CTP!InTask, CT!WorkerInDtor, CTP!WorkerInDtor

LEMMA CTJoins ==
  ASSUME CT!DtorJoin
  PROVE  CTStep /\ dtor' = "joined" /\ body' = body
BY DEF CTStep, CT!DtorJoin, CTP!Next, CTP!DtorJoin, CT!taskVars, CTP!taskVars,
       CT!workerVars, CTP!workerVars

LEMMA CTWorks ==
  ASSUME CT!WorkerStep \/ CT!WorkerSpuriousWakeup
  PROVE  CTStep /\ dtor' = dtor /\ (CTP!WorkerStep \/ CTP!WorkerSpuriousWakeup)
<1>1. CTP!WorkerStep \/ CTP!WorkerSpuriousWakeup
  BY DEF CT!WorkerStep, CT!WorkerSpuriousWakeup, CT!WorkerCheck, CT!WorkerSleep, CT!WorkerExit,
         CT!WorkerTake, CT!WorkerRun, CT!WorkerPop, CT!WorkerDestroyTask, CT!WorkerSetPromise,
         CTP!WorkerStep, CTP!WorkerSpuriousWakeup, CTP!WorkerCheck, CTP!WorkerSleep,
         CTP!WorkerExit, CTP!WorkerTake, CTP!WorkerRun, CTP!WorkerPop, CTP!WorkerDestroyTask,
         CTP!WorkerSetPromise, CT!IsEmpty, CTP!IsEmpty, CT!WorkerInDtor, CTP!WorkerInDtor,
         CT!taskVars, CTP!taskVars, CT!dtorVars, CTP!dtorVars
<1>2. dtor' = dtor
  BY <1>1 DEF CTP!WorkerStep, CTP!WorkerSpuriousWakeup, CTP!WorkerCheck, CTP!WorkerSleep,
         CTP!WorkerExit, CTP!WorkerTake, CTP!WorkerRun, CTP!WorkerPop, CTP!WorkerDestroyTask,
         CTP!WorkerSetPromise, CTP!dtorVars
<1> QED
  BY <1>1, <1>2 DEF CTStep, CTP!Next

\* What the callback thread keeps, and what it never takes back.
LEMMA CTKeeps ==
  ASSUME IInv, CTStep
  PROVE  /\ CTP!IInv'
         /\ \A t \in Task : /\ body[t] # "unsubmitted" => body'[t] # "unsubmitted"
                            /\ CTP!Over(t) => CTP!Over(t)'
         /\ \A u, t \in Task : CTP!Ordered(u, t) => CTP!Ordered(u, t)'
         /\ dtor = "joined" => dtor' = "joined"
<1>1. CTP!IInv /\ [CTP!Next]_(CTP!vars)
  BY DEF IInv, CTStep
<1>2. CTP!IInv'
  BY <1>1, CTP!StepIInv, CTAssumptions
<1>3. \A t \in Task : /\ body[t] # "unsubmitted" => body'[t] # "unsubmitted"
                      /\ CTP!Over(t) => CTP!Over(t)'
  BY <1>1, CTP!BodiesAdvance, CTAssumptions
<1>4. \A u, t \in Task : CTP!Ordered(u, t) => CTP!Ordered(u, t)'
  BY <1>1, CTP!OrderStays, CTAssumptions
<1>5. dtor = "joined" => dtor' = "joined"
  BY <1>1 DEF CTP!Next, CTP!vars, CTP!Submit, CTP!DtorStop, CTP!DtorDetach, CTP!DtorJoin,
         CTP!WorkerStep, CTP!WorkerSpuriousWakeup, CTP!WorkerCheck, CTP!WorkerSleep,
         CTP!WorkerExit, CTP!WorkerTake, CTP!WorkerRun, CTP!WorkerPop, CTP!WorkerDestroyTask,
         CTP!WorkerSetPromise, CTP!dtorVars, CTP!Terminated
<1> QED
  BY <1>2, <1>3, <1>4, <1>5

-----------------------------------------------------------------------------
(* The invariant, put together from what a step does to the calls.          *)

DirectAdvances ==
  \A t \in Task :
    /\ direct[t] \in {"running", "returned", "threw"}
         => direct'[t] \in {"running", "returned", "threw"}
    /\ Done(t) => Done(t)'

Same(c) ==
  /\ at'[c] = at[c] /\ op'[c] = op[c] /\ arg'[c] = arg[c] /\ before'[c] = before[c]
  /\ at[c] \in {"check", "lock"} => direct'[arg[c]] \in {"none", "submitted"}

LEMMA Advance ==
  ASSUME IInv, CTStep, DirectAdvances
  PROVE  /\ \A t \in Task : Finished(t) => Finished(t)'
         /\ \A t \in Enqueued : t \in Enqueued'
         /\ \A u, t \in Task : InFront(u, t) => InFront(u, t)'
<1>1. \A t \in Task : /\ body[t] # "unsubmitted" => body'[t] # "unsubmitted"
                      /\ CTP!Over(t) => CTP!Over(t)'
  BY CTKeeps
<1>2. \A t \in Task : Finished(t) <=> Done(t) \/ CTP!Over(t)
  BY DEF Finished, Done, CTP!Over
<1>3. \A t \in Task : Finished(t)' <=> Done(t)' \/ CTP!Over(t)'
  BY DEF Finished, Done, CTP!Over
<1>4. \A t \in Task : Finished(t) => Finished(t)'
  BY <1>1, <1>2, <1>3 DEF DirectAdvances
<1>5. \A t \in Enqueued : t \in Enqueued'
  BY <1>1 DEF Enqueued, DirectAdvances
<1>6. \A u, t \in Task : InFront(u, t) => InFront(u, t)'
  BY CTKeeps DEF InFront, DirectAdvances
<1> QED
  BY <1>4, <1>5, <1>6

LEMMA Assemble ==
  ASSUME IInv, Types', CTStep, isBlocking' = isBlocking, DirectAdvances, alive' => alive,
         deferred \subseteq deferred',
         \A t \in deferred : preceding'[t] = preceding[t],
         \A t \in deferred' \ deferred :
           /\ t \notin Enqueued /\ body'[t] # "unsubmitted" /\ preceding'[t] \subseteq Enqueued
           /\ \A u \in preceding'[t] : (isBlocking /\ u \notin deferred') \/ InFront(u, t)',
         \A c \in Caller : Same(c) \/ (CallFits(c)' /\ Covered(c)'),
         Apart', Direct'
  PROVE  IInv'
<1> USE Advance
<1>1. CTP!IInv'
  BY CTKeeps
<1>2. ASSUME NEW c \in Caller, Same(c)
      PROVE  CallFits(c)'
  <2>1. CallFits(c)
    BY DEF IInv, Calls
  <2>2. dtor = "joined" => dtor' = "joined"
    BY CTKeeps
  <2>3. before'[c] \subseteq Enqueued'
    BY <1>2, <2>1 DEF Same, CallFits
  <2> QED
    BY <1>2, <2>1, <2>2, <2>3 DEF Same, CallFits
<1>3. ASSUME NEW c \in Caller, Same(c)
      PROVE  Covered(c)'
  <2>1. CallFits(c) /\ Covered(c) /\ before[c] \subseteq Task
    BY DEF IInv, Calls, Types
  <2>2. ASSUME at[c] = "future", NEW u \in before[c]
        PROVE  InFront(u, arg[c])'
    <3>1. arg[c] \in Task /\ u \in Task /\ InFront(u, arg[c])
      BY <2>1, <2>2 DEF CallFits, Covered, Task
    <3>2. \A a \in Task : a = arg[c] => InFront(u, a)'
      BY <3>1
    <3>3. \A a \in Task : a = arg'[c] => InFront(u, a)'
      BY <1>3, <3>2 DEF Same
    <3> QED
      BY <1>3, <3>1, <3>3 DEF Same, InFront
  <2>3. ASSUME NEW u \in before[c], u \in Invisible \/ Finished(u)
        PROVE  u \in Invisible' \/ Finished(u)'
    BY <2>1, <2>3 DEF Invisible
  <2> QED
    BY <1>3, <2>1, <2>2, <2>3 DEF Same, Covered
<1>4. Calls'
  BY <1>2, <1>3 DEF Calls
<1>5. DeferredInOrder'
  <2> SUFFICES ASSUME NEW t \in deferred'
      PROVE  /\ body'[t] # "unsubmitted"
             /\ preceding'[t] \subseteq Enqueued'
             /\ \A u \in preceding'[t] : (isBlocking /\ u \notin deferred') \/ InFront(u, t)'
    BY DEF DeferredInOrder
  <2>1. CASE t \in deferred
    <3>1. /\ t \in Task /\ body[t] # "unsubmitted" /\ preceding'[t] \subseteq Enqueued
          /\ preceding'[t] = preceding[t]
          /\ Enqueued \subseteq Task
          /\ \A u \in preceding[t] : (isBlocking /\ u \notin deferred) \/ InFront(u, t)
      BY <2>1 DEF IInv, Types, Task, DeferredInOrder, Enqueued
    <3>2. body'[t] # "unsubmitted"
      BY <3>1, CTKeeps
    <3>3. \A u \in preceding'[t] : (isBlocking /\ u \notin deferred') \/ InFront(u, t)'
      BY <3>1
    <3> QED
      BY <3>1, <3>2, <3>3
  <2>2. CASE t \notin deferred
    BY <2>2
  <2> QED
    BY <2>1, <2>2
<1> QED
  BY <1>1, <1>4, <1>5 DEF IInv

-----------------------------------------------------------------------------
(* A step of one call.                                                      *)

Moves(c) ==
  \A d \in Caller : d # c =>
    at'[d] = at[d] /\ op'[d] = op[d] /\ arg'[d] = arg[d] /\ before'[d] = before[d]

LEMMA OthersStay ==
  ASSUME IInv, NEW c \in Caller, Moves(c),
         \A t \in Task : direct'[t] = direct[t] \/ t = arg[c] \/ direct'[t] = "submitted"
  PROVE  \A d \in Caller : d # c => Same(d)
<1> SUFFICES ASSUME NEW d \in Caller, d # c, at[d] \in {"check", "lock"}
             PROVE  direct'[arg[d]] \in {"none", "submitted"}
  BY DEF Moves, Same
<1>1. CallFits(d) /\ op[d] \in {"none", "enqueue", "wait", "destroy"}
  BY DEF IInv, Calls, Types
<1>2. arg[d] \in Task /\ direct[arg[d]] \in {"none", "submitted"}
  BY <1>1 DEF CallFits, Task
<1>3. arg[d] # arg[c]
  BY <1>2, NoTaskAssumption DEF IInv, Apart, Task
<1> QED
  BY <1>2, <1>3

LEMMA ApartStays ==
  ASSUME IInv, NEW c \in Caller, Moves(c), alive' = alive,
         arg'[c] = arg[c] \/ arg'[c] = NoTask \/ (\A d \in Caller : arg[d] # arg'[c]),
         alive \/ at[c] # "idle" \/ at'[c] = "idle"
  PROVE  Apart'
<1>1. \A d, e \in Caller : arg'[d] = arg'[e] /\ arg'[d] # NoTask => d = e
  BY DEF IInv, Apart, Moves
<1>2. ~alive => \A d, e \in Caller : at'[d] # "idle" /\ at'[e] # "idle" => d = e
  BY DEF IInv, Apart, Moves
<1> QED
  BY <1>1, <1>2 DEF Apart

LEMMA CallMoves ==
  ASSUME IInv, NEW c \in Caller, Types', CTStep, Moves(c),
         UNCHANGED <<isBlocking, deferVars, alive>>,
         DirectAdvances,
         \A t \in Task : direct'[t] = direct[t] \/ t = arg[c] \/ direct'[t] = "submitted",
         arg'[c] = arg[c] \/ arg'[c] = NoTask \/ (\A d \in Caller : arg[d] # arg'[c]),
         alive \/ at[c] # "idle" \/ at'[c] = "idle",
         CallFits(c)', Covered(c)', Direct'
  PROVE  IInv'
<1>1. \A d \in Caller : Same(d) \/ (CallFits(d)' /\ Covered(d)')
  BY OthersStay
<1>2. Apart'
  BY ApartStays
<1>3. deferred' = deferred /\ preceding' = preceding
  BY DEF deferVars
<1> QED
  BY <1>1, <1>2, <1>3, Assemble

\* A step of the callback thread, or of nobody.
LEMMA NobodyMoves ==
  ASSUME IInv, Types', CTStep, UNCHANGED <<isBlocking, direct, callVars, alive>>,
         deferred \subseteq deferred',
         \A t \in deferred : preceding'[t] = preceding[t],
         \A t \in deferred' \ deferred :
           /\ t \notin Enqueued /\ body'[t] # "unsubmitted" /\ preceding'[t] \subseteq Enqueued
           /\ \A u \in preceding'[t] : (isBlocking /\ u \notin deferred') \/ InFront(u, t)',
         Direct'
  PROVE  IInv'
<1>1. DirectAdvances
  BY DEF DirectAdvances, Done
<1>2. at' = at /\ op' = op /\ arg' = arg /\ before' = before
  BY DEF callVars
<1>3. \A c \in Caller : Same(c)
  BY <1>2 DEF IInv, Calls, CallFits, Same
<1>4. Apart'
  BY <1>2 DEF IInv, Apart
<1> QED
  BY <1>1, <1>3, <1>4, Assemble

-----------------------------------------------------------------------------
(* What is seen of the queue.                                               *)

\* What is in the queue is in the callback thread or has been executed.
LEMMA WhereWorkIs ==
  ASSUME IInv, NEW t \in Enqueued
  PROVE  /\ t \in Task
         /\ ~isBlocking => body[t] # "unsubmitted"
         /\ isBlocking => t \in deferred \/ direct[t] = "running" \/ Done(t)
         /\ t \in deferred => body[t] # "unsubmitted"
<1>1. t \in Task /\ (body[t] # "unsubmitted" \/ direct[t] \in {"running", "returned", "threw"})
  BY DEF Enqueued
<1>2. ~isBlocking => body[t] # "unsubmitted"
  BY <1>1 DEF IInv, Direct
<1>3. isBlocking => t \in deferred \/ direct[t] = "running" \/ Done(t)
  BY <1>1 DEF IInv, Direct, Done
<1>4. t \in deferred => body[t] # "unsubmitted"
  BY DEF IInv, DeferredInOrder
<1> QED
  BY <1>1, <1>2, <1>3, <1>4

LEMMA UnusedIsNew ==
  ASSUME IInv, NEW t \in Task, Unused(t)
  PROVE  t \notin Enqueued /\ t \notin deferred /\ \A c \in Caller : arg[c] # t
BY DEF IInv, DeferredInOrder, Unused, Enqueued

LEMMA EmptyIsFinished ==
  ASSUME IInv, IsQueueEmpty, NEW t \in Enqueued, t \notin Invisible
  PROVE  Finished(t)
<1>1. CASE isBlocking
  <2>1. t \notin deferred /\ ~busy
    BY <1>1 DEF Invisible, IsQueueEmpty
  <2>2. direct[t] # "running"
    BY <2>1, WhereWorkIs DEF IInv, Direct
  <2> QED
    BY <1>1, <2>1, <2>2, WhereWorkIs DEF Finished, Done
<1>2. CASE ~isBlocking
  <2>1. CTP!IsEmpty
    BY <1>2 DEF IsQueueEmpty, CT!IsEmpty, CTP!IsEmpty
  <2>2. t \in Task /\ body[t] # "unsubmitted"
    BY <1>2, WhereWorkIs
  <2>3. CTP!Over(t)
    BY <2>1, <2>2, CTP!EmptyIsOver, CTAssumptions DEF IInv
  <2> QED
    BY <2>3 DEF Finished, CTP!Over
<1> QED
  BY <1>1, <1>2

\* When t has started, what is in front of it has finished.
LEMMA InFrontIsFinished ==
  ASSUME IInv, NEW u \in Task, NEW t \in Task, InFront(u, t), body[t] # "pending"
  PROVE  Finished(u)
<1>1. CASE Done(u)
  BY <1>1 DEF Done, Finished
<1>2. CASE CTP!Ordered(u, t)
  <2>1. CTP!Over(u)
    BY <1>2, CTP!OrderedIsOver, CTAssumptions DEF IInv
  <2> QED
    BY <2>1 DEF CTP!Over, Finished
<1> QED
  BY <1>1, <1>2 DEF InFront

\* Without a holder of m_mutex nothing is executed by its caller.
LEMMA FreeMeansIdle ==
  ASSUME IInv, lock = NoThread
  PROVE  \A t \in Task : direct[t] # "running"
<1>1. \A c \in Caller : c # NoThread
  BY ThreadAssumption DEF Caller
<1> QED
  BY <1>1 DEF IInv, Direct

-----------------------------------------------------------------------------
(* One lemma for each step.                                                 *)

LEMMA EnqueueNonBlockingStep ==
  ASSUME IInv, NEW c \in Caller, NEW t \in User, EnqueueNonBlocking(c, t)
  PROVE  IInv'
<1>1. CTStep
  BY CTSubmits DEF EnqueueNonBlocking, Task
<1>2. Types'
  BY DEF EnqueueNonBlocking, IInv, Types, deferVars, callVars, Task
<1>3. Direct'
  BY DEF EnqueueNonBlocking, IInv, Direct, callVars
<1>4. deferred' = deferred /\ preceding' = preceding
  BY DEF EnqueueNonBlocking, deferVars
<1> QED
  BY <1>1, <1>2, <1>3, <1>4, NobodyMoves DEF EnqueueNonBlocking

LEMMA EnqueueBlockingStep ==
  ASSUME IInv, NEW c \in Caller, NEW t \in User, EnqueueBlocking(c, t)
  PROVE  IInv'
<1>0. t \in Task /\ direct[t] = "none" /\ at[c] = "idle" /\ alive /\ t \in User
  BY DEF EnqueueBlocking, Ready, Unused, Task
<1>1. CTStep /\ body' = body
  BY CTStands DEF EnqueueBlocking, ctVars
<1>2. /\ direct' = [direct EXCEPT ![t] = "submitted"]
      /\ at' = [at EXCEPT ![c] = "lock"] /\ op' = [op EXCEPT ![c] = "enqueue"]
      /\ arg' = [arg EXCEPT ![c] = t] /\ before' = before
      /\ UNCHANGED <<isBlocking, lock, busy, deferVars, alive, deferred, preceding>>
  BY DEF EnqueueBlocking, Goto, deferVars
<1>3. Types'
  BY <1>0, <1>2 DEF IInv, Types
<1>4. /\ Moves(c) /\ at'[c] = "lock" /\ op'[c] = "enqueue" /\ arg'[c] = t
      /\ before'[c] = before[c]
  BY <1>2 DEF IInv, Types, Moves
<1>5. DirectAdvances /\ \A s \in Task : s # t => direct'[s] = direct[s]
  BY <1>0, <1>2 DEF IInv, Types, DirectAdvances, Done
<1>6. direct'[t] = "submitted"
  BY <1>0, <1>2 DEF IInv, Types
<1>7. CallFits(c)'
  <2>1. before'[c] \subseteq Enqueued'
    BY <1>1, <1>4, <1>5, Advance DEF IInv, Calls, CallFits
  <2> QED
    BY <1>0, <1>2, <1>4, <1>6, <2>1 DEF EnqueueBlocking, CallFits
<1>8. Covered(c)'
  BY <1>4 DEF Covered
<1>9. Direct'
  <2>1. \A d \in Caller : at'[d] = "execute" <=> at[d] = "execute"
    BY <1>0, <1>4 DEF Moves
  <2>2. \A d \in Caller : at[d] = "execute" => arg'[d] = arg[d]
    BY <1>0, <1>4 DEF Moves
  <2>3. \A s \in Task : direct'[s] = "running" => direct[s] = "running"
    BY <1>5, <1>6
  <2> QED
    BY <1>1, <1>2, <2>1, <2>2, <2>3 DEF IInv, Direct, EnqueueBlocking
<1>10. \A d \in Caller : arg[d] # arg'[c]
  BY <1>0, <1>4, UnusedIsNew DEF EnqueueBlocking
<1> QED
  BY <1>0, <1>1, <1>2, <1>3, <1>4, <1>5, <1>6, <1>7, <1>8, <1>9, <1>10, CallMoves

LEMMA EnqueueDeferredStep ==
  ASSUME IInv, NEW c \in Caller, NEW t \in User, EnqueueDeferred(c, t)
  PROVE  IInv'
<1>0. t \in Task /\ t \notin Enqueued /\ t \notin deferred
  BY UnusedIsNew DEF EnqueueDeferred, Task
<1>1. CTStep /\ CTP!Submit(c, t) /\ c \in CTP!Caller /\ body' = [body EXCEPT ![t] = "pending"]
  BY <1>0, CTSubmits DEF EnqueueDeferred
<1>2. /\ deferred' = deferred \cup {t} /\ preceding' = [preceding EXCEPT ![t] = Enqueued]
      /\ UNCHANGED <<isBlocking, lock, busy, direct, callVars, alive, at, op, arg, before>>
  BY DEF EnqueueDeferred, callVars
<1>3. Types'
  <2>1. Enqueued \subseteq Task
    BY DEF Enqueued
  <2> QED
    BY <1>2, <2>1 DEF IInv, Types
<1>4. body'[t] = "pending" /\ \A s \in Task : s # t => body'[s] = body[s]
  BY <1>0, <1>1 DEF IInv, CTP!IInv, CTP!TypeOK
<1>5. Direct'
  BY <1>2, <1>4 DEF IInv, Direct
<1>6. preceding'[t] = Enqueued /\ \A s \in deferred : preceding'[s] = preceding[s]
  BY <1>0, <1>2 DEF IInv, Types
<1>7. ASSUME NEW u \in Enqueued
      PROVE  (isBlocking /\ u \notin deferred') \/ InFront(u, t)'
  <2>1. u \in Task /\ u # t
    BY <1>0 DEF Enqueued
  <2>2. CASE body[u] # "unsubmitted"
    <3>1. CTP!Ordered(u, t)'
      BY <1>0, <1>1, <2>1, <2>2, CTP!SubmitOrders, CTAssumptions DEF IInv
    <3> QED
      BY <3>1 DEF InFront
  <2>3. CASE body[u] = "unsubmitted"
    BY <1>2, <2>1, <2>3, WhereWorkIs
  <2> QED
    BY <2>2, <2>3
<1> QED
  BY <1>0, <1>1, <1>2, <1>3, <1>4, <1>5, <1>6, <1>7, NobodyMoves

LEMMA BlockingLockStep ==
  ASSUME IInv, NEW c \in Caller, BlockingLock(c)
  PROVE  IInv'
<1>0. at[c] = "lock" /\ lock = NoThread /\ CallFits(c) /\ isBlocking /\ op[c] # "none"
  BY DEF BlockingLock, IInv, Calls, CallFits
<1>1. arg[c] \in Task /\ direct[arg[c]] \in {"none", "submitted"}
  BY <1>0 DEF IInv, Types, CallFits, Task
<1>2. CTStep /\ body' = body
  BY CTStands DEF BlockingLock, ctVars
<1>3. /\ direct' = [direct EXCEPT ![arg[c]] = "running"] /\ lock' = c /\ busy' = TRUE
      /\ at' = [at EXCEPT ![c] = "execute"]
      /\ UNCHANGED <<isBlocking, deferVars, op, arg, before, alive, deferred, preceding>>
  BY DEF BlockingLock, Goto, deferVars
<1>4. Types'
  BY <1>1, <1>3 DEF IInv, Types
<1>5. /\ Moves(c) /\ at'[c] = "execute" /\ op'[c] = op[c] /\ arg'[c] = arg[c]
      /\ before'[c] = before[c]
  BY <1>3 DEF IInv, Types, Moves
<1>6. DirectAdvances /\ \A s \in Task : s # arg[c] => direct'[s] = direct[s]
  BY <1>1, <1>3 DEF IInv, Types, DirectAdvances, Done
<1>7. before'[c] \subseteq Enqueued'
  BY <1>0, <1>2, <1>5, <1>6, Advance DEF CallFits
<1>8. CallFits(c)'
  BY <1>0, <1>3, <1>5, <1>7 DEF CallFits
<1>9. ASSUME NEW u \in before[c]
      PROVE  u \in Invisible' \/ Finished(u)'
  <2>1. u \in Enqueued /\ u \in Task /\ (u \in deferred \/ direct[u] = "running" \/ Done(u))
    BY <1>0, WhereWorkIs DEF CallFits
  <2>2. direct[u] # "running"
    BY <1>0, <2>1, FreeMeansIdle
  <2>3. Done(u) => Finished(u)'
    BY <1>2, <1>6, <2>1, Advance DEF Done, Finished
  <2> QED
    BY <1>0, <1>3, <2>1, <2>2, <2>3 DEF Invisible
<1>10. Covered(c)'
  BY <1>5, <1>9 DEF Covered
<1>11. Direct'
  <2>1. \A d \in Caller : at'[d] = "execute" <=> lock' = d
    <3>1. \A d \in Caller : at[d] # "execute"
      BY <1>0, ThreadAssumption DEF IInv, Direct, Caller
    <3> QED
      BY <1>3, <1>5, <3>1 DEF Moves
  <2>2. \A t \in Task : direct'[t] = "running" => t = arg[c]
    BY <1>0, <1>6, FreeMeansIdle
  <2> QED
    BY <1>0, <1>2, <1>3, <1>5, <2>1, <2>2 DEF IInv, Direct
<1> QED
  BY <1>0, <1>2, <1>3, <1>4, <1>5, <1>6, <1>8, <1>10, <1>11, CallMoves

\* The executing caller, and only it, lets go of m_mutex.
LEMMA UnlockKeepsDirect ==
  ASSUME IInv, NEW c \in Caller, at[c] = "execute", Moves(c), at'[c] # "execute",
         lock' = NoThread, direct'[arg[c]] # "running",
         \A s \in Task : s # arg[c] => direct'[s] = direct[s],
         UNCHANGED <<isBlocking, body, deferred>>
  PROVE  Direct'
<1>1. isBlocking
  BY DEF IInv, Calls, CallFits
<1>2. \A d \in Caller : at[d] = "execute" => d = c
  BY DEF IInv, Direct
<1>3. \A d \in Caller : at'[d] # "execute" /\ d # NoThread
  BY <1>2, ThreadAssumption DEF Moves, Caller
<1>4. \A t \in Task : direct'[t] # "running"
  BY <1>2 DEF IInv, Direct
<1> QED
  BY <1>1, <1>3, <1>4 DEF IInv, Direct

LEMMA BlockingReturnStep ==
  ASSUME IInv, NEW c \in Caller, BlockingReturn(c)
  PROVE  IInv'
<1>0. /\ at[c] = "execute" /\ CallFits(c) /\ Covered(c) /\ isBlocking
      /\ op[c] \in {"enqueue", "wait", "destroy"} /\ arg[c] \in Task
  BY DEF BlockingReturn, IInv, Calls, CallFits, Types, Task
<1>1. CTStep /\ body' = body
  BY CTStands DEF BlockingReturn, ctVars
<1>2. /\ direct' = [direct EXCEPT ![arg[c]] = "returned"] /\ lock' = NoThread /\ busy' = FALSE
      /\ UNCHANGED <<isBlocking, deferVars, alive, deferred, preceding>>
  BY DEF BlockingReturn, deferVars
<1>3. DirectAdvances /\ direct'[arg[c]] = "returned"
      /\ \A s \in Task : s # arg[c] => direct'[s] = direct[s]
  BY <1>0, <1>2 DEF IInv, Types, DirectAdvances, Done
<1>4. ASSUME NEW u \in before[c], op[c] \in {"wait", "destroy"}
      PROVE  u \in Invisible' \/ Finished(u)'
  <2>1. u \in Task /\ (u \in Invisible \/ Finished(u))
    BY <1>0, <1>4 DEF Covered, IInv, Types
  <2>2. Finished(u) => Finished(u)'
    BY <1>1, <1>3, <2>1, Advance
  <2> QED
    BY <1>2, <2>1, <2>2 DEF Invisible
<1>5. before[c] \subseteq Enqueued'
  BY <1>0, <1>1, <1>3, Advance DEF CallFits
<1>6. CASE op[c] = "enqueue"
  <2>1. /\ at' = [at EXCEPT ![c] = "idle"] /\ op' = [op EXCEPT ![c] = "none"]
        /\ arg' = [arg EXCEPT ![c] = NoTask] /\ before' = [before EXCEPT ![c] = {}]
    BY <1>6 DEF BlockingReturn, Return, Goto
  <2>2. Types'
    BY <1>0, <1>2, <2>1 DEF IInv, Types
  <2>3. /\ Moves(c) /\ at'[c] = "idle" /\ op'[c] = "none" /\ arg'[c] = NoTask
        /\ before'[c] = {}
    BY <2>1 DEF IInv, Types, Moves
  <2>4. CallFits(c)' /\ Covered(c)'
    BY <2>3, NoTaskAssumption DEF CallFits, Covered, Task
  <2>5. Direct'
    BY <1>0, <1>1, <1>2, <1>3, <2>3, UnlockKeepsDirect
  <2> QED
    BY <1>0, <1>1, <1>2, <1>3, <2>2, <2>3, <2>4, <2>5, CallMoves
<1>7. ASSUME NEW place \in {"waited", "members"}, at' = [at EXCEPT ![c] = place],
             UNCHANGED <<op, arg, before>>, op[c] = "wait" <=> place = "waited",
             op[c] \in {"wait", "destroy"}
      PROVE  IInv'
  <2>1. Types'
    BY <1>0, <1>2, <1>7 DEF IInv, Types
  <2>2. /\ Moves(c) /\ at'[c] = place /\ op'[c] = op[c] /\ arg'[c] = arg[c]
        /\ before'[c] = before[c]
    BY <1>7 DEF IInv, Types, Moves
  <2>3. CallFits(c)'
    BY <1>0, <1>2, <1>5, <1>7, <2>2 DEF CallFits
  <2>4. Covered(c)'
    BY <1>4, <1>7, <2>2 DEF Covered
  <2>5. Direct'
    BY <1>0, <1>1, <1>2, <1>3, <2>2, UnlockKeepsDirect
  <2> QED
    BY <1>0, <1>1, <1>2, <1>3, <2>1, <2>2, <2>3, <2>4, <2>5, CallMoves
<1>8. CASE op[c] = "wait"
  BY <1>7, <1>8 DEF BlockingReturn, Goto
<1>9. CASE op[c] = "destroy"
  BY <1>7, <1>9 DEF BlockingReturn, Goto
<1> QED
  BY <1>0, <1>6, <1>8, <1>9

LEMMA BlockingThrowStep ==
  ASSUME IInv, NEW c \in Caller, BlockingThrow(c)
  PROVE  IInv'
<1>0. at[c] = "execute" /\ CallFits(c) /\ arg[c] \in Task
  BY ThrowAssumption DEF BlockingThrow, IInv, Calls, Task
<1>1. CTStep /\ body' = body
  BY CTStands DEF BlockingThrow, ctVars
<1>2. /\ direct' = [direct EXCEPT ![arg[c]] = "threw"] /\ lock' = NoThread
      /\ at' = [at EXCEPT ![c] = "idle"] /\ op' = [op EXCEPT ![c] = "none"]
      /\ arg' = [arg EXCEPT ![c] = NoTask] /\ before' = [before EXCEPT ![c] = {}]
      /\ UNCHANGED <<isBlocking, busy, deferVars, alive, deferred, preceding>>
  BY DEF BlockingThrow, Return, Goto, deferVars
<1>3. DirectAdvances /\ direct'[arg[c]] = "threw"
      /\ \A s \in Task : s # arg[c] => direct'[s] = direct[s]
  BY <1>0, <1>2 DEF IInv, Types, DirectAdvances, Done
<1>4. Types'
  BY <1>0, <1>2 DEF IInv, Types
<1>5. /\ Moves(c) /\ at'[c] = "idle" /\ op'[c] = "none" /\ arg'[c] = NoTask
      /\ before'[c] = {}
  BY <1>2 DEF IInv, Types, Moves
<1>6. CallFits(c)' /\ Covered(c)'
  BY <1>5, NoTaskAssumption DEF CallFits, Covered, Task
<1>7. Direct'
  BY <1>0, <1>1, <1>2, <1>3, <1>5, UnlockKeepsDirect
<1> QED
  BY <1>0, <1>1, <1>2, <1>3, <1>4, <1>5, <1>6, <1>7, CallMoves

LEMMA WaitBeginStep ==
  ASSUME IInv, NEW c \in Caller, NEW m \in Marker, WaitBegin(c, m)
  PROVE  IInv'
<1>0. /\ at[c] = "idle" /\ alive /\ m \in Task /\ direct[m] = "none"
      /\ \A d \in Caller : arg[d] # m
  BY DEF WaitBegin, Ready, Unused, Task
<1>1. CTStep /\ body' = body
  BY CTStands DEF WaitBegin, ctVars
<1>2. /\ at' = [at EXCEPT ![c] = "check"] /\ op' = [op EXCEPT ![c] = "wait"]
      /\ arg' = [arg EXCEPT ![c] = m] /\ before' = [before EXCEPT ![c] = Enqueued]
      /\ UNCHANGED <<isBlocking, lock, busy, direct, deferVars, alive, deferred, preceding>>
  BY DEF WaitBegin, Goto, deferVars
<1>3. Enqueued \subseteq Task /\ Enqueued' = Enqueued
  BY <1>1, <1>2 DEF Enqueued
<1>4. Types'
  BY <1>0, <1>2, <1>3 DEF IInv, Types
<1>5. /\ Moves(c) /\ at'[c] = "check" /\ op'[c] = "wait" /\ arg'[c] = m
      /\ before'[c] = Enqueued
  BY <1>2, <1>3 DEF IInv, Types, Moves
<1>6. DirectAdvances
  BY <1>2 DEF DirectAdvances, Done
<1>7. CallFits(c)' /\ Covered(c)'
  BY <1>0, <1>2, <1>3, <1>5 DEF CallFits, Covered
<1>8. Direct'
  BY <1>0, <1>1, <1>2, <1>5 DEF IInv, Direct, Moves
<1> QED
  BY <1>0, <1>1, <1>2, <1>4, <1>5, <1>6, <1>7, <1>8, CallMoves

LEMMA DestroyBeginStep ==
  ASSUME IInv, NEW c \in Caller, NEW m \in Marker, DestroyBegin(c, m)
  PROVE  IInv'
<1>0. /\ \A d \in Caller : at[d] = "idle" /\ arg[d] # m
      /\ m \in Task /\ direct[m] = "none"
  BY DEF DestroyBegin, Ready, Unused, Task
<1>1. CTStep /\ body' = body
  BY CTStands DEF DestroyBegin, ctVars
<1>2. /\ at' = [at EXCEPT ![c] = "check"] /\ op' = [op EXCEPT ![c] = "destroy"]
      /\ arg' = [arg EXCEPT ![c] = m] /\ before' = [before EXCEPT ![c] = Enqueued]
      /\ alive' = FALSE
      /\ UNCHANGED <<isBlocking, lock, busy, direct, deferVars, deferred, preceding>>
  BY DEF DestroyBegin, Goto, deferVars
<1>3. Enqueued \subseteq Task /\ Enqueued' = Enqueued
  BY <1>1, <1>2 DEF Enqueued
<1>4. Types'
  BY <1>0, <1>2, <1>3 DEF IInv, Types
<1>5. /\ Moves(c) /\ at'[c] = "check" /\ op'[c] = "destroy" /\ arg'[c] = m
      /\ before'[c] = Enqueued
  BY <1>2, <1>3 DEF IInv, Types, Moves
<1>6. DirectAdvances
  BY <1>2 DEF DirectAdvances, Done
<1>7. CallFits(c)' /\ Covered(c)'
  BY <1>0, <1>2, <1>3, <1>5 DEF CallFits, Covered
<1>8. Direct'
  BY <1>0, <1>1, <1>2, <1>5 DEF IInv, Direct, Moves
<1>9. Apart'
  <2>1. \A d \in Caller : at'[d] # "idle" => d = c
    BY <1>0, <1>5 DEF Moves
  <2>2. \A d, e \in Caller : arg'[d] = arg'[e] /\ arg'[d] # NoTask => d = e
    BY <1>0, <1>5 DEF IInv, Apart, Moves
  <2> QED
    BY <2>1, <2>2 DEF Apart
<1>10. \A d \in Caller : Same(d) \/ (CallFits(d)' /\ Covered(d)')
  BY <1>2, <1>5, <1>7, OthersStay
<1> QED
  BY <1>1, <1>2, <1>4, <1>6, <1>8, <1>9, <1>10, Assemble

\* A caller goes on to the next place in a member function.
LEMMA GotoKeeps ==
  ASSUME IInv, NEW c \in Caller, at[c] \notin {"idle", "execute", "lock"},
         NEW place \in {"lock", "submit", "future", "waited", "members", "join", "gone"},
         at' = [at EXCEPT ![c] = place],
         UNCHANGED <<isBlocking, lock, busy, direct, deferVars, op, arg, before, alive>>,
         CTStep, isBlocking => body' = body,
         place \in {"submit", "future"} => ~isBlocking /\ op[c] \in {"wait", "destroy"},
         place = "lock" => isBlocking /\ at[c] = "check",
         place = "waited" => op[c] = "wait",
         place \in {"members", "join", "gone"} => op[c] = "destroy",
         place = "gone" => dtor' = "joined",
         place = "future" => \A u \in before[c] : InFront(u, arg[c])',
         place \in {"waited", "members", "join", "gone"} =>
           \A u \in before[c] : u \in Invisible \/ Finished(u)
  PROVE  IInv'
<1>0. CallFits(c) /\ before[c] \subseteq Task
  BY DEF IInv, Calls, Types
<1>1. Types'
  BY DEF IInv, Types, deferVars
<1>2. /\ Moves(c) /\ at'[c] = place /\ op'[c] = op[c] /\ arg'[c] = arg[c]
      /\ before'[c] = before[c] /\ deferred' = deferred
  BY DEF IInv, Types, Moves, deferVars
<1>3. DirectAdvances
  BY DEF DirectAdvances, Done
<1>4. CallFits(c)'
  <2>1. before'[c] \subseteq Enqueued'
    BY <1>0, <1>2, <1>3, Advance DEF CallFits
  <2>2. place = "lock" => op[c] # "none" /\ direct'[arg'[c]] \in {"none", "submitted"}
    BY <1>0, <1>2 DEF CallFits
  <2> QED
    BY <1>0, <1>2, <2>1, <2>2 DEF CallFits
<1>5. Covered(c)'
  <2>1. ASSUME NEW u \in before[c], u \in Invisible \/ Finished(u)
        PROVE  u \in Invisible' \/ Finished(u)'
    BY <1>0, <1>2, <1>3, <2>1, Advance DEF Invisible
  <2>2. place = "future" => \A u \in before'[c] : InFront(u, arg[c])'
    BY <1>2
  <2> QED
    BY <1>2, <2>1, <2>2 DEF Covered
<1>6. Direct'
  <2>1. \A d \in Caller : at'[d] = "execute" <=> at[d] = "execute"
    BY <1>2 DEF Moves
  <2> QED
    BY <1>2, <2>1 DEF IInv, Direct
<1> QED
  BY <1>1, <1>2, <1>3, <1>4, <1>5, <1>6, CallMoves

LEMMA WaitSeesEmptyStep ==
  ASSUME IInv, NEW c \in Caller, WaitSeesEmpty(c)
  PROVE  IInv'
<1>0. CallFits(c) /\ at[c] = "check" /\ op[c] \in {"wait", "destroy"}
  BY DEF WaitSeesEmpty, IInv, Calls, CallFits
<1>1. CTStep /\ body' = body
  BY CTStands DEF WaitSeesEmpty, ctVars
<1>2. \A u \in before[c] : u \in Invisible \/ Finished(u)
  BY <1>0, EmptyIsFinished DEF WaitSeesEmpty, CallFits
<1>3. PICK place \in {"waited", "members"} :
        at' = [at EXCEPT ![c] = place] /\ (place = "waited" <=> op[c] = "wait")
  BY DEF WaitSeesEmpty, Goto
<1> QED
  BY <1>0, <1>1, <1>2, <1>3, GotoKeeps DEF WaitSeesEmpty

LEMMA WaitSeesWorkStep ==
  ASSUME IInv, NEW c \in Caller, WaitSeesWork(c)
  PROVE  IInv'
<1>0. at[c] = "check" /\ op[c] \in {"wait", "destroy"}
  BY DEF WaitSeesWork, IInv, Calls, CallFits
<1>1. CTStep /\ body' = body
  BY CTStands DEF WaitSeesWork, ctVars
<1>2. PICK place \in {"lock", "submit"} :
        at' = [at EXCEPT ![c] = place] /\ (place = "lock" <=> isBlocking)
  BY DEF WaitSeesWork, Goto, IInv, Types
<1> QED
  BY <1>0, <1>1, <1>2, GotoKeeps DEF WaitSeesWork

LEMMA WaitSubmitStep ==
  ASSUME IInv, NEW c \in Caller, WaitSubmit(c)
  PROVE  IInv'
<1>0. /\ CallFits(c) /\ at[c] = "submit" /\ op[c] \in {"wait", "destroy"} /\ ~isBlocking
      /\ arg[c] \in Task
  BY DEF WaitSubmit, IInv, Calls, CallFits, Task
<1>1. CTStep /\ CTP!Submit(c, arg[c]) /\ c \in CTP!Caller
  BY <1>0, CTSubmits DEF WaitSubmit
<1>2. ASSUME NEW u \in before[c]
      PROVE  InFront(u, arg[c])'
  <2>1. u \in Task /\ body[u] # "unsubmitted"
    BY <1>0, WhereWorkIs DEF CallFits
  <2>2. ASSUME NEW m \in Task, m = arg[c]
        PROVE  InFront(u, m)'
    BY <1>1, <2>1, <2>2, CTP!SubmitOrders, CTAssumptions DEF IInv, InFront
  <2>3. \A m \in Task : m = arg'[c] => InFront(u, m)'
    BY <2>2 DEF WaitSubmit
  <2> QED
    BY <1>0, <2>3 DEF WaitSubmit, InFront, CTP!Ordered
<1>3. at' = [at EXCEPT ![c] = "future"]
  BY DEF WaitSubmit, Goto
<1> QED
  BY <1>0, <1>1, <1>2, <1>3, GotoKeeps DEF WaitSubmit

LEMMA WaitFutureStep ==
  ASSUME IInv, NEW c \in Caller, WaitFuture(c)
  PROVE  IInv'
<1>0. /\ Covered(c) /\ at[c] = "future" /\ op[c] \in {"wait", "destroy"} /\ arg[c] \in Task
  BY DEF WaitFuture, IInv, Calls, CallFits, Task
<1>1. CTStep /\ body' = body
  BY CTStands DEF WaitFuture, ctVars
<1>2. body[arg[c]] # "pending"
  BY <1>0 DEF WaitFuture, CT!Signalled, IInv, CTP!IInv, CTP!LifeInv
<1>3. \A u \in before[c] : Finished(u)
  BY <1>0, <1>2, InFrontIsFinished DEF Covered, IInv, Types
<1>4. PICK place \in {"waited", "members"} :
        at' = [at EXCEPT ![c] = place] /\ (place = "waited" <=> op[c] = "wait")
  BY DEF WaitFuture, Goto
<1> QED
  BY <1>0, <1>1, <1>3, <1>4, GotoKeeps DEF WaitFuture

LEMMA WaitReturnStep ==
  ASSUME IInv, NEW c \in Caller, WaitReturn(c)
  PROVE  IInv'
<1>0. at[c] = "waited"
  BY DEF WaitReturn
<1>1. CTStep /\ body' = body
  BY CTStands DEF WaitReturn, ctVars
<1>2. /\ at' = [at EXCEPT ![c] = "idle"] /\ op' = [op EXCEPT ![c] = "none"]
      /\ arg' = [arg EXCEPT ![c] = NoTask] /\ before' = [before EXCEPT ![c] = {}]
      /\ UNCHANGED <<isBlocking, lock, busy, direct, deferVars, alive, deferred, preceding>>
  BY DEF WaitReturn, Return, Goto, deferVars
<1>3. Types'
  BY <1>2 DEF IInv, Types
<1>4. /\ Moves(c) /\ at'[c] = "idle" /\ op'[c] = "none" /\ arg'[c] = NoTask
      /\ before'[c] = {}
  BY <1>2 DEF IInv, Types, Moves
<1>5. DirectAdvances
  BY <1>2 DEF DirectAdvances, Done
<1>6. CallFits(c)' /\ Covered(c)'
  BY <1>4, NoTaskAssumption DEF CallFits, Covered, Task
<1>7. Direct'
  <2>1. \A d \in Caller : /\ at'[d] = "execute" <=> at[d] = "execute"
                          /\ at[d] = "execute" => arg'[d] = arg[d]
    BY <1>0, <1>4 DEF Moves
  <2> QED
    BY <1>1, <1>2, <2>1 DEF IInv, Direct
<1> QED
  BY <1>1, <1>2, <1>3, <1>4, <1>5, <1>6, <1>7, CallMoves

LEMMA DestroyMembersStep ==
  ASSUME IInv, NEW c \in Caller, DestroyMembers(c)
  PROVE  IInv'
<1>0. /\ Covered(c) /\ CallFits(c) /\ at[c] = "members" /\ op[c] = "destroy"
  BY DEF DestroyMembers, IInv, Calls, CallFits
<1>1. CTStep /\ body' = body
  BY CTStops DEF DestroyMembers
<1>2. at' = [at EXCEPT ![c] = "join"]
  BY DEF DestroyMembers, Goto
<1> QED
  BY <1>0, <1>1, <1>2, GotoKeeps DEF DestroyMembers, Covered

LEMMA DestroyJoinStep ==
  ASSUME IInv, NEW c \in Caller, DestroyJoin(c)
  PROVE  IInv'
<1>0. /\ Covered(c) /\ CallFits(c) /\ at[c] = "join" /\ op[c] = "destroy"
  BY DEF DestroyJoin, IInv, Calls, CallFits
<1>1. CTStep /\ body' = body /\ dtor' = "joined"
  BY CTJoins DEF DestroyJoin
<1>2. at' = [at EXCEPT ![c] = "gone"]
  BY DEF DestroyJoin, Goto
<1> QED
  BY <1>0, <1>1, <1>2, GotoKeeps DEF DestroyJoin, Covered

LEMMA CallbackThreadStep ==
  ASSUME IInv, WorkerStep \/ WorkerSpuriousWakeup
  PROVE  IInv'
<1>1. /\ CTStep /\ (CTP!WorkerStep \/ CTP!WorkerSpuriousWakeup)
      /\ UNCHANGED <<isBlocking, lock, busy, direct, deferVars, callVars, alive>>
  BY CTWorks DEF WorkerStep, WorkerSpuriousWakeup
<1>2. UNCHANGED <<deferred, preceding, at, op, arg, before>>
  BY <1>1 DEF deferVars, callVars
<1>3. Types'
  BY <1>1, <1>2 DEF IInv, Types
<1>4. \A t \in Task : body[t] = "unsubmitted" => body'[t] = "unsubmitted"
  BY <1>1, CTP!WorkerSubmitsNothing, CTAssumptions DEF IInv
<1>5. Direct'
  BY <1>1, <1>2, <1>4 DEF IInv, Direct
<1> QED
  BY <1>1, <1>2, <1>3, <1>5, NobodyMoves

LEMMA StutterStep ==
  ASSUME IInv, UNCHANGED vars
  PROVE  IInv'
<1>1. /\ CTStep /\ body' = body
      /\ UNCHANGED <<isBlocking, lock, busy, direct, deferVars, callVars, alive>>
  BY CTStands DEF vars, ctVars
<1>2. UNCHANGED <<deferred, preceding, at, op, arg, before>>
  BY <1>1 DEF deferVars, callVars
<1>3. Types' /\ Direct'
  BY <1>1, <1>2 DEF IInv, Types, Direct
<1> QED
  BY <1>1, <1>2, <1>3, NobodyMoves

-----------------------------------------------------------------------------
(* The invariant. *)

LEMMA InitIInv == Init => IInv
<1> SUFFICES ASSUME Init PROVE IInv
  OBVIOUS
<1>1. CTP!IInv
  <2>1. CTP!Init
    BY DEF Init, CT!Init, CTP!Init
  <2> QED
    BY <2>1, CTP!InitIInv, CTAssumptions
<1>2. Types
  BY KindAssumption DEF Init, Types, Caller, Task
<1>3. \A c \in Caller : c # NoThread
  BY ThreadAssumption DEF Caller
<1>4. Calls
  BY NoTaskAssumption DEF Init, Calls, CallFits, Covered, Task
<1>5. Apart /\ Direct /\ DeferredInOrder
  BY <1>3 DEF Init, CT!Init, Apart, Direct, DeferredInOrder
<1> QED
  BY <1>1, <1>2, <1>4, <1>5 DEF IInv

LEMMA StepIInv == IInv /\ [Next]_vars => IInv'
<1> SUFFICES ASSUME IInv, [Next]_vars PROVE IInv'
  OBVIOUS
<1>1. ASSUME NEW c \in Caller, NEW t \in User,
             EnqueueNonBlocking(c, t) \/ EnqueueBlocking(c, t) \/ EnqueueDeferred(c, t)
      PROVE  IInv'
  BY <1>1, EnqueueNonBlockingStep, EnqueueBlockingStep, EnqueueDeferredStep
<1>2. ASSUME NEW c \in Caller, NEW m \in Marker, WaitBegin(c, m) \/ DestroyBegin(c, m)
      PROVE  IInv'
  BY <1>2, WaitBeginStep, DestroyBeginStep
<1>3. ASSUME NEW c \in Caller, CallStep(c)
      PROVE  IInv'
  BY <1>3, BlockingLockStep, BlockingReturnStep, BlockingThrowStep, WaitSeesEmptyStep,
     WaitSeesWorkStep, WaitSubmitStep, WaitFutureStep, WaitReturnStep, DestroyMembersStep,
     DestroyJoinStep DEF CallStep
<1>4. CASE WorkerStep \/ WorkerSpuriousWakeup
  BY <1>4, CallbackThreadStep
<1>5. CASE Terminated \/ UNCHANGED vars
  BY <1>5, StutterStep DEF Terminated
<1> QED
  BY <1>1, <1>2, <1>3, <1>4, <1>5 DEF Next

(* Every state of the queue satisfies the invariant, its types included.    *)
THEOREM Invariance == Spec => []IInv
<1> QED
  BY InitIInv, StepIInv, PTL DEF Spec

(* isQueueEmpty() is right for whoever asks: what it can see has finished.  *)
THEOREM EmptyQueueHasFinished == Spec => []EmptyMeansFinished
<1>1. IInv => EmptyMeansFinished
  BY EmptyIsFinished DEF EmptyMeansFinished
<1> QED
  BY <1>1, Invariance, PTL

(* enqueueHostFnDeferred(): the operation starts after all that was in the  *)
(* queue, whoever enqueued it.                                              *)
THEOREM DeferredIsLate == Spec => []DeferredStartsAfterPreceding
<1>1. IInv => DeferredStartsAfterPreceding
  <2> SUFFICES ASSUME IInv, NEW t \in deferred, body[t] # "pending", NEW u \in preceding[t]
               PROVE  (isBlocking /\ u \notin deferred) \/ Finished(u)
    BY DEF DeferredStartsAfterPreceding
  <2>1. t \in Task /\ u \in Task
    BY DEF IInv, Types, Task
  <2>2. (isBlocking /\ u \notin deferred) \/ InFront(u, t)
    BY DEF IInv, DeferredInOrder
  <2> QED
    BY <2>1, <2>2, InFrontIsFinished
<1> QED
  BY <1>1, Invariance, PTL

(* When wait() or ~Queue has returned, what was enqueued before is done,    *)
(* and ~Queue leaves neither an operation nor a running thread behind.      *)
THEOREM ReturnsCoverWork == Spec => []ReturnCoversWork
<1>1. IInv => WaitCoversVisibleWork
  BY DEF IInv, Calls, Covered, WaitCoversVisibleWork, Caller
<1>2. IInv => DestroyedMeansDrained
  <2> SUFFICES ASSUME IInv, NEW c \in Client, at[c] = "gone"
               PROVE  /\ \A t \in Enqueued : Finished(t)
                      /\ objects = {}
                      /\ pc \in {"none", "exited"}
    BY DEF DestroyedMeansDrained
  <2>1. c \in Caller /\ dtor = "joined" /\ ~alive
    BY DEF Caller, IInv, Calls, CallFits
  <2>2. CTP!IsEmpty /\ pc \in {"none", "exited"}
    BY <2>1 DEF IInv, CTP!IInv, CTP!EndInv
  <2>3. \A t \in Task : body[t] = "unsubmitted" \/ CTP!Over(t)
    BY <2>2, CTP!EmptyIsOver, CTAssumptions DEF IInv
  <2>4. objects = {}
    BY <2>2, <2>3 DEF IInv, CTP!IInv, CTP!LifeInv, CTP!TypeOK, CTP!Over
  <2>5. \A t \in Task : direct[t] # "running"
    BY <2>1 DEF IInv, Direct, Apart
  <2>6. \A t \in Enqueued : Finished(t)
    BY <2>3, <2>5 DEF Enqueued, Finished, CTP!Over
  <2> QED
    BY <2>2, <2>4, <2>6
<1> QED
  BY <1>1, <1>2, Invariance, PTL DEF ReturnCoversWork

(***************************************************************************)
(* Atomic operations.                                                       *)
(***************************************************************************)

NoFloatCasOnHost ==
    \A j \in Jobs : \A t \in Thread : \A c \in CallsOf(j, t) :
        j.api = "host" /\ IsFloat(j.type) => c.op # "Cas"

\* A call in progress holds the result of its functor on the value it has
\* loaded; the plain functor still finds that value when it writes.
HeldIsExact(t) ==
    call[t] # Idle =>
        /\ call[t].new = Result(job.type, NextCall(t), call[t].old)
        /\ call[t].pc = "write" =>
              /\ Way(Current(t)) = "functor"
              /\ call[t].old = memory[NextCall(t).cell]

AInv == ATypeOK /\ \A t \in Thread : HeldIsExact(t)

-----------------------------------------------------------------------------
\* Subtracting is adding the negated value, whatever wraps around: the
\* emulation of Sub by Add (unifiedCudaHip/atomic.hpp:115).
LEMMA SubtractionIsAddition ==
    ASSUME NEW type, NEW a \in Value(type), NEW b \in Value(type)
    PROVE  Plus(type, a, Negated(type, b)) = Minus(type, a, b)
<1>1. CASE IsFloat(type)
  BY <1>1 DEF Plus, Minus
<1>2. CASE ~IsFloat(type)
  <2>1. a \in 0 .. Words - 1 /\ b \in 0 .. Words - 1 /\ Words \in Nat
    BY <1>2, WordsAssumption DEF Value, Word
  <2>2. Wrap(a + Wrap(-b)) = Wrap(a - b)
    BY <2>1 DEF Wrap
  <2> QED
    BY <1>2, <2>2 DEF Plus, Minus, Negated
<1> QED
  BY <1>1, <1>2

\* Negation and addition stay in the type of their operands.
LEMMA NegatedType ==
    ASSUME NEW type, NEW a \in Value(type)
    PROVE  Negated(type, a) \in Value(type)
<1>1. CASE IsFloat(type)
  BY <1>1 DEF Value, Float, Negated
<1>2. CASE ~IsFloat(type)
  BY <1>2, WordsAssumption DEF Value, Word, Negated, Wrap
<1> QED
  BY <1>1, <1>2

LEMMA PlusType ==
    ASSUME NEW type, NEW a \in Value(type), NEW b \in Value(type)
    PROVE  Plus(type, a, b) \in Value(type)
<1>1. CASE IsFloat(type)
  <2>1. a \in Float /\ b \in Float
    BY <1>1 DEF Value
  <2>2. Number(a) \in Int /\ Number(b) \in Int
    BY <2>1 DEF Number, Float
  <2>3. FloatSum(a, b) \in Float
    BY <2>1, <2>2 DEF FloatSum, Float
  <2> QED
    BY <1>1, <2>3 DEF Plus, Value
<1>2. CASE ~IsFloat(type)
  BY <1>2, WordsAssumption DEF Value, Word, Plus, Wrap
<1> QED
  BY <1>1, <1>2

\* Every functor of operation.hpp leaves a value of the type of the cell.
LEMMA ResultType ==
    ASSUME NEW type, NEW c \in CallType(type), NEW old \in Value(type),
           c.op \in IF IsFloat(type) THEN FloatOp ELSE Op
    PROVE  Result(type, c, old) \in Value(type)
<1>1. c.op \in Op /\ c.value \in Value(type)
  BY DEF CallType
<1>2. CASE c.op = "Add"
  BY <1>1, <1>2, PlusType DEF Result
<1>3. CASE c.op = "Sub"
  <2>1. Minus(type, old, c.value) \in Value(type)
    BY <1>1, SubtractionIsAddition, NegatedType, PlusType
  <2> QED
    BY <1>3, <2>1 DEF Result
<1>4. CASE c.op \in {"Min", "Max", "Exch", "Cas"}
  BY <1>1, <1>4 DEF Result
<1>5. CASE c.op \in {"Inc", "Dec", "And", "Or", "Xor"}
  <2>1. Value(type) = Word
    BY <1>5 DEF FloatOp, Value
  <2>2. CASE c.op = "Inc"
    BY <1>1, <2>1, <2>2, WordsAssumption DEF Result, Word
  <2>3. CASE c.op = "Dec"
    BY <1>1, <2>1, <2>3, WordsAssumption DEF Result, Word
  <2>4. CASE c.op \in {"And", "Or", "Xor"}
    BY <1>1, <2>1, <2>4, BitsAssumption DEF Result
  <2> QED
    BY <1>5, <2>2, <2>3, <2>4
<1> QED
  BY <1>1, <1>2, <1>3, <1>4, <1>5 DEF Op, FloatOp

-----------------------------------------------------------------------------
\* What a job guarantees of the call a thread makes next.
LEMMA NextCallIsLegal ==
    ASSUME ATypeOK, NEW t \in Thread, HasCall(t)
    PROVE  /\ NextCall(t) \in CallsOf(job, t)
           /\ NextCall(t) \in CallType(job.type)
           /\ NextCall(t).op \in IF IsFloat(job.type) THEN FloatOp ELSE Op
<1>1. IsJob(job)
  BY JobsAssumption DEF ATypeOK
<1>2. /\ Len(returned[t]) + 1 \in 1 .. Len(job.program[t])
      /\ job.program[t] \in Seq(CallType(job.type))
  <2>1. Len(returned[t]) \in Nat
    BY DEF ATypeOK
  <2>2. Len(job.program[t]) \in Nat /\ job.program[t] \in Seq(CallType(job.type))
    BY <1>1 DEF IsJob
  <2> QED
    BY <2>1, <2>2 DEF HasCall
<1>3. DOMAIN job.program[t] = 1 .. Len(job.program[t])
  BY <1>2
<1>4. NextCall(t) \in CallType(job.type)
  BY <1>2 DEF NextCall
<1>5. NextCall(t) \in CallsOf(job, t)
  BY <1>2, <1>3 DEF NextCall, CallsOf
<1>6. NextCall(t).op \in IF IsFloat(job.type) THEN FloatOp ELSE Op
  BY <1>1, <1>5 DEF IsJob, OperationsExist
<1> QED
  BY <1>4, <1>5, <1>6

\* The call that is carried out updates the same cell to the same value.
LEMMA LoweringIsExact ==
    ASSUME ATypeOK, NEW t \in Thread, HasCall(t), NEW old \in Value(job.type)
    PROVE  /\ Current(t).cell = NextCall(t).cell
           /\ Result(job.type, Current(t), old)
                 = Result(job.type, NextCall(t), old)
<1> DEFINE c == NextCall(t)
<1>1. c \in CallType(job.type)
  BY NextCallIsLegal
<1> HIDE DEF c
<1>2. CASE Lowered(c) = c
  BY <1>2 DEF Current, c
<1>3. CASE /\ Lowered(c) = [c EXCEPT !.op = "Add", !.value = Negated(job.type, @)]
           /\ c.op = "Sub"
  <2>1. /\ Lowered(c).op = "Add"
        /\ Lowered(c).value = Negated(job.type, c.value)
        /\ Lowered(c).cell = c.cell
        /\ c.value \in Value(job.type)
    BY <1>1, <1>3 DEF CallType
  <2>2. Result(job.type, Lowered(c), old)
           = Plus(job.type, old, Negated(job.type, c.value))
    BY <2>1 DEF Result
  <2>3. Result(job.type, c, old) = Minus(job.type, old, c.value)
    BY <1>3 DEF Result
  <2> QED
    BY <2>1, <2>2, <2>3, SubtractionIsAddition DEF Current, c
<1>4. Lowered(c) = c \/ /\ Lowered(c) = [c EXCEPT !.op = "Add", !.value = Negated(job.type, @)]
                        /\ c.op = "Sub"
  BY DEF Lowered
<1> QED
  BY <1>2, <1>3, <1>4

\* The value a back end computes is the one the functor leaves.
LEMMA DesiredIsResult ==
    ASSUME NoFloatCasOnHost, ATypeOK, NEW t \in Thread, HasCall(t),
           NEW old \in Value(job.type)
    PROVE  /\ Desired(Current(t), old) = Result(job.type, NextCall(t), old)
           /\ Desired(Current(t), old) \in Value(job.type)
<1> DEFINE c == Current(t)
<1>1. Result(job.type, c, old) = Result(job.type, NextCall(t), old)
  BY LoweringIsExact
<1>2. Result(job.type, NextCall(t), old) \in Value(job.type)
  BY NextCallIsLegal, ResultType
<1>3. Desired(c, old) = Result(job.type, c, old)
  <2>1. CASE ~(c.op = "Cas" /\ Way(c) = "loop")
    BY <2>1 DEF Desired
  <2>2. CASE c.op = "Cas" /\ Way(c) = "loop"
    <3>1. c = NextCall(t)
      <4>1. IsJob(job)
        BY JobsAssumption DEF ATypeOK
      <4>2. NextCall(t) \in CallType(job.type)
        BY NextCallIsLegal
      <4> QED
        BY <2>2, <4>2 DEF Current, Lowered, CallType
    <3>2. job.api = "host"
      <4>1. job.api \in {"host", "cuda", "hip", "sycl"}
        BY JobsAssumption DEF ATypeOK, IsJob
      <4>2. CASE job.api = "sycl"
        BY <2>2, <4>2 DEF Way
      <4>3. CASE job.api \in {"cuda", "hip"}
        BY <2>2, <4>3 DEF Way
      <4> QED
        BY <4>1, <4>2, <4>3
    <3>3. ~IsFloat(job.type)
      BY <2>2, <3>1, <3>2, NextCallIsLegal DEF NoFloatCasOnHost, ATypeOK
    <3>4. Desired(c, old) = IF old = c.compare THEN c.value ELSE old
      BY <2>2, <3>3 DEF Desired, SameValue
    <3>5. Result(job.type, c, old) = IF old = c.compare THEN c.value ELSE old
      BY <2>2 DEF Result, SameBits
    <3> QED
      BY <3>4, <3>5
  <2> QED
    BY <2>1, <2>2
<1> QED
  BY <1>1, <1>2, <1>3

-----------------------------------------------------------------------------
LEMMA Initially == AInit => AInv
<1> SUFFICES ASSUME AInit PROVE AInv
  OBVIOUS
<1>1. /\ job \in Jobs /\ IsJob(job)
      /\ memory = job.initial
      /\ returned = [t \in Thread |-> <<>>]
      /\ call = [t \in Thread |-> Idle]
  BY JobsAssumption DEF AInit, MInit
<1>2. ATypeOK
  BY <1>1 DEF ATypeOK, IsJob
<1> QED
  BY <1>1, <1>2 DEF AInv, HeldIsExact

\* The value a thread holds or finds is of the type of the cell.
LEMMA CellType ==
    ASSUME ATypeOK, NEW t \in Thread, HasCall(t)
    PROVE  /\ NextCall(t).cell \in Cell
           /\ memory[NextCall(t).cell] \in Value(job.type)
<1>1. NextCall(t) \in CallType(job.type)
  BY NextCallIsLegal
<1> QED
  BY <1>1 DEF CallType, ATypeOK

\* A step that ends a call: it stores the result of the functor on the value
\* the cell holds, and returns that value.
LEMMA EndingStep ==
    ASSUME AInv, NEW t \in Thread, HasCall(t), NEW value,
           value = Result(job.type, NextCall(t), memory[NextCall(t).cell]),
           value \in Value(job.type),
           memory' = [memory EXCEPT ![NextCall(t).cell] = value],
           Finish(t, memory[NextCall(t).cell]),
           \A u \in Thread \ {t} :
              call[u] # Idle /\ call[u].pc = "write"
                 => NextCall(u).cell # NextCall(t).cell
    PROVE  Apply(t) /\ AInv'
<1>1. Apply(t)
  BY DEF Apply, Finish, AInv, ATypeOK
<1>2. ATypeOK'
  <2>1. job' = job /\ job \in Jobs
    BY DEF Finish, AInv, ATypeOK
  <2>2. memory' \in [Cell -> Value(job.type)]
    BY CellType DEF AInv, ATypeOK
  <2>3. returned' \in [Thread -> Seq(Value(job.type))]
    BY CellType DEF Finish, AInv, ATypeOK
  <2>4. DOMAIN call' = Thread
    BY DEF Finish, AInv, ATypeOK
  <2>5. ASSUME NEW u \in Thread
        PROVE  /\ call'[u] = Idle \/ call'[u] \in Held(u)
               /\ call'[u] # Idle => Len(returned'[u]) < Len(job.program[u])
    BY DEF Finish, AInv, ATypeOK, HasCall
  <2> QED
    BY <2>1, <2>2, <2>3, <2>4, <2>5 DEF ATypeOK, Held, HasCall
<1>3. ASSUME NEW u \in Thread PROVE HeldIsExact(u)'
  <2>1. CASE u = t
    BY <2>1 DEF Finish, HeldIsExact, AInv, ATypeOK
  <2>2. CASE u # t
    <3>1. call'[u] = call[u] /\ returned'[u] = returned[u] /\ job' = job
      BY <2>2 DEF Finish, AInv, ATypeOK
    <3>2. NextCall(u)' = NextCall(u) /\ Current(u)' = Current(u)
      BY <3>1 DEF NextCall, Current, Lowered
    <3>3. Way(Current(u))' = Way(Current(u))
      BY <3>1, <3>2 DEF Way
    <3>4. HeldIsExact(u)
      BY DEF AInv
    <3>5. SUFFICES ASSUME call[u] # Idle
                   PROVE  /\ call[u].new = Result(job.type, NextCall(u), call[u].old)
                          /\ call[u].pc = "write" =>
                                /\ Way(Current(u)) = "functor"
                                /\ call[u].old = memory'[NextCall(u).cell]
      BY <3>1, <3>2, <3>3 DEF HeldIsExact
    <3>6. HasCall(u)
      BY <3>5 DEF AInv, ATypeOK
    <3>7. NextCall(u).cell \in Cell
      BY <3>6, CellType DEF AInv
    <3> QED
      BY <2>2, <3>4, <3>5, <3>7 DEF HeldIsExact, AInv, ATypeOK
  <2> QED
    BY <2>1, <2>2
<1> QED
  BY <1>1, <1>2, <1>3 DEF AInv

\* A step that loads the cell changes nothing a caller sees.
LEMMA LoadingStep ==
    ASSUME NoFloatCasOnHost, AInv, NEW t \in Thread, HasCall(t),
           NEW point \in {"swap", "write"},
           point = "write" => Way(Current(t)) = "functor",
           call' = Holds(t, point, memory[Current(t).cell]),
           UNCHANGED <<job, memory, returned>>
    PROVE  AInv'
<1> DEFINE old == memory[NextCall(t).cell]
<1>1. /\ Current(t).cell = NextCall(t).cell
      /\ old \in Value(job.type)
  BY CellType, LoweringIsExact DEF AInv
<1>2. /\ Desired(Current(t), old) = Result(job.type, NextCall(t), old)
      /\ Desired(Current(t), old) \in Value(job.type)
  BY <1>1, DesiredIsResult DEF AInv
<1>3. call' = [call EXCEPT ![t] =
                  [pc |-> point, old |-> old, new |-> Desired(Current(t), old)]]
  BY <1>1 DEF Holds
<1>4. ATypeOK'
  <2>1. ASSUME NEW u \in Thread
        PROVE  /\ call'[u] = Idle \/ call'[u] \in Held(u)
               /\ call'[u] # Idle => HasCall(u)
    BY <1>1, <1>2, <1>3 DEF AInv, ATypeOK, Held
  <2>2. DOMAIN call' = Thread
    BY <1>3 DEF AInv, ATypeOK
  <2> QED
    BY <2>1, <2>2 DEF AInv, ATypeOK, Held, HasCall
<1>5. ASSUME NEW u \in Thread PROVE HeldIsExact(u)'
  <2>1. NextCall(u)' = NextCall(u) /\ Current(u)' = Current(u)
    BY DEF NextCall, Current, Lowered
  <2>2. Way(Current(u))' = Way(Current(u))
    BY <2>1 DEF Way
  <2>3. /\ call'[u] # Idle =>
             call'[u].new = Result(job.type, NextCall(u), call'[u].old)
        /\ call'[u] # Idle /\ call'[u].pc = "write" =>
              /\ Way(Current(u)) = "functor"
              /\ call'[u].old = memory[NextCall(u).cell]
    BY <1>2, <1>3 DEF AInv, HeldIsExact, ATypeOK
  <2> QED
    BY <2>1, <2>2, <2>3 DEF HeldIsExact
<1> QED
  BY <1>4, <1>5 DEF AInv

\* Only the plain functor of the host leaves a value to be written, and the
\* cell it writes is used by no other thread.
LEMMA WrittenCellIsOwned ==
    ASSUME AInv, NEW t \in Thread, NEW u \in Thread, t # u, HasCall(t),
           call[u] # Idle, call[u].pc = "write"
    PROVE  NextCall(u).cell # NextCall(t).cell
<1>1. IsJob(job) /\ HasCall(u) /\ Way(Current(u)) = "functor"
  BY JobsAssumption DEF AInv, ATypeOK, HeldIsExact
<1>2. job.api = "host" /\ Current(u).scope = "Block"
  <2>1. job.api \in {"host", "cuda", "hip", "sycl"}
    BY <1>1 DEF IsJob
  <2>2. CASE job.api = "host" /\ Current(u).scope # "Block"
    BY <1>1, <2>2 DEF Way
  <2>3. CASE job.api = "sycl"
    BY <1>1, <2>3 DEF Way
  <2>4. CASE job.api \in {"cuda", "hip"}
    BY <1>1, <2>4 DEF Way
  <2> QED
    BY <2>1, <2>2, <2>3, <2>4
<1>3. Current(u) = NextCall(u)
  BY <1>2 DEF Current, Lowered
<1>4. /\ NextCall(t) \in CallsOf(job, t)
      /\ NextCall(u) \in CallsOf(job, u)
  BY <1>1, NextCallIsLegal DEF AInv
<1> QED
  BY <1>1, <1>2, <1>3, <1>4 DEF IsJob, BlockCellsAreOwned

\* Every step of a back end is one step of the atomic memory, or none.
LEMMA EveryStep ==
    ASSUME NoFloatCasOnHost, AInv, [ANext]_vs
    PROVE  AInv' /\ [MNext]_mVars
<1>1. CASE UNCHANGED vs
  <2>1. ATypeOK'
    BY <1>1 DEF vs, AInv, ATypeOK, Held, HasCall
  <2>2. ASSUME NEW t \in Thread PROVE HeldIsExact(t)'
    <3>1. /\ NextCall(t)' = NextCall(t) /\ Current(t)' = Current(t)
          /\ Way(Current(t))' = Way(Current(t))
      BY <1>1 DEF vs, NextCall, Current, Lowered, Way
    <3> QED
      BY <1>1, <3>1 DEF vs, AInv, HeldIsExact
  <2> QED
    BY <1>1, <2>1, <2>2 DEF vs, mVars, AInv
<1>2. ASSUME NEW t \in Thread, Step(t) PROVE AInv' /\ [MNext]_mVars
  <2>1. \A u \in Thread \ {t} :
           HasCall(t) /\ call[u] # Idle /\ call[u].pc = "write"
              => NextCall(u).cell # NextCall(t).cell
    BY WrittenCellIsOwned
  <2>2. CASE Instruction(t)
    <3>1. HasCall(t) /\ Current(t).cell = NextCall(t).cell
      BY <2>2, CellType, LoweringIsExact DEF Instruction, Start, AInv
    <3>2. NextCall(t).cell \in Cell /\ memory[NextCall(t).cell] \in Value(job.type)
      BY <3>1, CellType DEF AInv
    <3>3. PICK value : value = Desired(Current(t), memory[NextCall(t).cell])
      OBVIOUS
    <3>4. /\ memory' = [memory EXCEPT ![NextCall(t).cell] = value]
          /\ Finish(t, memory[NextCall(t).cell])
      BY <2>2, <3>1, <3>2, <3>3 DEF Instruction, AInv, ATypeOK
    <3>5. /\ value = Result(job.type, NextCall(t), memory[NextCall(t).cell])
          /\ value \in Value(job.type)
      BY <3>1, <3>2, <3>3, DesiredIsResult DEF AInv
    <3>6. Apply(t) /\ AInv'
      BY <2>1, <3>1, <3>4, <3>5, EndingStep
    <3> QED
      BY <3>6 DEF MNext
  <2>3. CASE Load(t)
    BY <2>3, LoadingStep DEF Load, Start, mVars
  <2>4. CASE Retry(t)
    <3>1. call[t] # Idle
      BY <2>4 DEF Retry, Idle
    <3>2. HasCall(t)
      BY <3>1 DEF AInv, ATypeOK
    <3> QED
      BY <2>4, <3>2, LoadingStep DEF Retry, mVars
  <2>5. CASE Read(t)
    BY <2>5, LoadingStep DEF Read, Start, mVars
  <2>6. CASE Swap(t) \/ Write(t)
    <3>1. call[t] # Idle
      BY <2>6 DEF Swap, Write, Idle
    <3>2. HasCall(t) /\ call[t] \in Held(t)
      BY <3>1 DEF AInv, ATypeOK
    <3>3. Current(t).cell = NextCall(t).cell
      BY <3>2, CellType, LoweringIsExact DEF AInv
    <3>4. call[t].old = memory[NextCall(t).cell]
      BY <2>6, <3>1, <3>3 DEF Swap, Write, SameBits, AInv, HeldIsExact
    <3>5. /\ call[t].new = Result(job.type, NextCall(t), memory[NextCall(t).cell])
          /\ call[t].new \in Value(job.type)
      BY <3>1, <3>2, <3>4 DEF Held, AInv, HeldIsExact
    <3>6. /\ memory' = [memory EXCEPT ![NextCall(t).cell] = call[t].new]
          /\ Finish(t, memory[NextCall(t).cell])
      BY <2>6, <3>3, <3>4 DEF Swap, Write
    <3> QED
      BY <2>1, <3>2, <3>5, <3>6, EndingStep DEF MNext
  <2> QED
    BY <1>2, <2>2, <2>3, <2>4, <2>5, <2>6 DEF Step
<1> QED
  BY <1>1, <1>2 DEF ANext

\* Atomic operations of all back ends are atomic: whatever the threads, the
\* cells and the calls, the memory and the values returned are those of the
\* functors of operation.hpp applied one at a time.
THEOREM AtomicOpIsAtomic ==
    ASSUME NoFloatCasOnHost
    PROVE  ASpec => ImplementsAtomicMemory
<1>1. AInit => AInv /\ MInit
  BY Initially DEF AInit
<1>2. AInv /\ [ANext]_vs => AInv' /\ [MNext]_mVars
  BY EveryStep
<1> QED
  BY <1>1, <1>2, PTL DEF ASpec, MSpec, ImplementsAtomicMemory

\* Values stay in the range of their type.
THEOREM AtomicsTypes ==
    ASSUME NoFloatCasOnHost
    PROVE  ASpec => []ATypeOK
<1>1. AInit => AInv
  BY Initially
<1>2. AInv /\ [ANext]_vs => AInv'
  BY EveryStep
<1>3. AInv => ATypeOK
  BY DEF AInv
<1> QED
  BY <1>1, <1>2, <1>3, PTL DEF ASpec

=============================================================================
