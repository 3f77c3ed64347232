---------------------------- MODULE MCHostMemory ----------------------------
(* Small instances of HostMemory. *)
EXTENDS HostMemory

CONSTANTS q1, q2, b1, c1, c2

MCQueue == {q1, q2}
MCBuffer == {b1}
MCClient == {c1, c2}

(* One thread has two queues, or two threads share a queue.                 *)
MCProgram == {[threads |-> {c1}, queues |-> {q1, q2}],
              [threads |-> {c1, c2}, queues |-> {q1}]}
=============================================================================
