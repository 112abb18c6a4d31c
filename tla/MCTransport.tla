---------------------------- MODULE MCTransport -----------------------------
(* Model values for the run of Transport. *)
EXTENDS Transport

CONSTANTS c1, c2

TwoCallers == {c1, c2}
=============================================================================
