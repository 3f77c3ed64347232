--------------------------- MODULE SerialExecutor ---------------------------
(***************************************************************************)
(* What core::CallbackThread promises its users: tasks are accepted until  *)
(* the executor is closed, they are executed one after the other in the    *)
(* order in which they were accepted, and the future of a task becomes     *)
(* ready, with a value or an exception, only when the task is over.        *)
(* Nothing is said of threads, locks, condition variables or task objects. *)
(***************************************************************************)
EXTENDS Sequences, Integers

CONSTANTS
  Task,     \* the tasks that may be submitted, each at most once
  NoTask    \* "no task"

VARIABLES
  waiting,  \* accepted tasks that have not started, in order of acceptance
  active,   \* the task being executed, or NoTask
  result,   \* result[t]: "none" until the future of t is ready
  closed    \* TRUE once the executor takes no more tasks

vars == <<waiting, active, result, closed>>

Outcome == {"value", "exception"}

Init ==
  /\ waiting = <<>>
  /\ active = NoTask
  /\ result = [t \in Task |-> "none"]
  /\ closed = FALSE

Fresh(t) ==
  /\ result[t] = "none"
  /\ active # t
  /\ \A i \in 1 .. Len(waiting) : waiting[i] # t

Accept(t) ==
  /\ ~closed
  /\ Fresh(t)
  /\ waiting' = Append(waiting, t)
  /\ UNCHANGED <<active, result, closed>>

Start ==
  /\ active = NoTask
  /\ waiting # <<>>
  /\ active' = Head(waiting)
  /\ waiting' = Tail(waiting)
  /\ UNCHANGED <<result, closed>>

Finish ==
  /\ active # NoTask
  /\ \E r \in Outcome : result' = [result EXCEPT ![active] = r]
  /\ active' = NoTask
  /\ UNCHANGED <<waiting, closed>>

(* Closing refuses new tasks; what was accepted is still executed. *)
Close ==
  /\ ~closed
  /\ closed' = TRUE
  /\ UNCHANGED <<waiting, active, result>>

Next ==
  \/ \E t \in Task : Accept(t)
  \/ Start
  \/ Finish
  \/ Close

Spec == Init /\ [][Next]_vars

FairSpec == Spec /\ WF_vars(Start) /\ WF_vars(Finish)
=============================================================================
