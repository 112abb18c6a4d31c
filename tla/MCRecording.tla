---------------------------- MODULE MCRecording ----------------------------
(* Model values for the runs of Recording. *)
EXTENDS Recording

CONSTANTS c1, c2

TwoClients == {c1, c2}
=============================================================================
