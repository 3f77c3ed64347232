-------------------------- MODULE MCCallbackThread --------------------------
(* The instance of CallbackThread for TLC: three tasks, one of which never  *)
(* throws, so that a task that throws is followed and preceded by one that   *)
(* does not.                                                                *)
EXTENDS CallbackThread

CONSTANTS t1, t2, t3, c1, c2

MCTask == {t1, t2, t3}
MCMayThrow == {t1, t2}
MCClient == {c1, c2}
=============================================================================
