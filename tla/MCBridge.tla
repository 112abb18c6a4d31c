------------------------------ MODULE MCBridge ------------------------------
(* Model values for the runs of Bridge. *)
EXTENDS Bridge

CONSTANTS t1, t2

TwoThreads == {t1, t2}
=============================================================================
