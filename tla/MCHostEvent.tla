---------------------------- MODULE MCHostEvent ----------------------------
(* Instances of HostEvent for TLC. *)
EXTENDS HostEvent, TLC

CONSTANTS q1, q2, b1, c1, c2

(* Two threads share two non-blocking queues, or one thread uses them and a  *)
(* blocking queue.                                                           *)
MCQueue == {q1, q2, b1}
MCBlockingQueue == {b1}
MCClient == {c1, c2}
MCSharing == {(c1 :> {q1, q2} @@ c2 :> {q1, q2}), (c1 :> MCQueue @@ c2 :> {})}
=============================================================================
