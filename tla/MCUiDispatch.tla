---------------------------- MODULE MCUiDispatch ----------------------------
(* Model values for the run of UiDispatch. *)
EXTENDS UiDispatch

CONSTANTS c1, c2

TwoCalls == {c1, c2}
=============================================================================
