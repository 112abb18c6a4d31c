------------------------------- MODULE OwnedHost -------------------------------
(***************************************************************************)
(* An OBS process that this program has started (OwnedObsHost of           *)
(* owned_obs.py).  The process is held by its original Popen; only the     *)
(* wait on that handle tells that it has ended, and nothing ever kills it. *)
(* OBS itself is external: it boots, serves, leaves when it is asked to,   *)
(* and may be closed or crash at any time.  The actions leave it to the    *)
(* program that uses the owner where it goes on.                           *)
(***************************************************************************)
EXTENDS Integers

VARIABLES
    obs,     \* the process: its phase (absent, booting, serving, leaving or exited),
             \* its exit code, whether another process has its port
    owner,   \* the attributes of OwnedObsHost
    record   \* "state" in owned-obs-lifecycle.json, "none" without the file

hostVars == <<obs, owner, record>>

NoCode == -1

NewOwner == [process |-> FALSE, ready |-> FALSE, attempted |-> FALSE,
             code |-> NoCode, primary |-> "none", cleanup |-> FALSE,
             transport |-> "none"]

-----------------------------------------------------------------------------
(* Records and failures.                                                   *)

RecordedState(o) ==
    IF o.code # NoCode THEN "TERMINAL"
    ELSE IF o.ready THEN "READY"
    ELSE IF o.primary # "none" THEN "UNKNOWN"
    ELSE "STARTING"

\* Mutant of Blamed: the last error is the one that is reported.
BlamedLast(o, error) == [o EXCEPT !.primary = error]

Blamed(o, error) == [o EXCEPT !.primary = IF @ = "none" THEN error ELSE @]

\* failure(), of the owner as it is by then: the record may be impossible to write.
Failure(o, error) ==
    LET failed == [Blamed(o, error) EXCEPT !.ready = FALSE]
    IN  \/ /\ owner' = failed
           /\ record' = RecordedState(failed)
        \/ /\ owner' = [failed EXCEPT !.cleanup = TRUE]
           /\ UNCHANGED record

-----------------------------------------------------------------------------
(* start().                                                                *)

\* The image has changed or the logs exist: there is no process.
LaunchFails ==
    /\ Failure(owner, "launch")
    /\ UNCHANGED obs

\* Popen; the logs are closed after it.
Launch ==
    /\ obs' = [obs EXCEPT !.phase = "booting"]
    /\ owner' = [owner EXCEPT !.process = TRUE]
    /\ UNCHANGED record

LaunchedButFails ==
    /\ obs' = [obs EXCEPT !.phase = "booting"]
    /\ Failure([owner EXCEPT !.process = TRUE], "launch")

\* verify_identity and the first record.
Identify ==
    /\ record' = RecordedState(owner)
    /\ UNCHANGED <<obs, owner>>

StartFails(error) ==
    /\ Failure(owner, error)
    /\ UNCHANGED obs

\* Something listens on the port and asks for authentication.
Connect ==
    /\ obs.phase = "serving" \/ obs.foreign
    /\ owner' = [owner EXCEPT !.transport = "open"]
    /\ UNCHANGED <<obs, record>>

\* The authenticated status names the child, whose identity is verified again.
BecomeReady ==
    /\ obs.phase = "serving"
    /\ ~obs.foreign
    /\ owner' = [owner EXCEPT !.ready = TRUE]
    /\ record' = RecordedState(owner')
    /\ UNCHANGED obs

-----------------------------------------------------------------------------
(* wait_for_exit() and disconnect().                                       *)

WaitReturns ==
    /\ obs.phase = "exited"
    /\ owner' = [owner EXCEPT !.code = obs.code, !.ready = FALSE]
    /\ record' = RecordedState(owner')
    /\ UNCHANGED obs

\* The process has ended but that cannot be recorded.
WaitUnrecorded ==
    /\ obs.phase = "exited"
    /\ Failure([owner EXCEPT !.code = obs.code], "wait")
    /\ UNCHANGED obs

\* The wait times out or is interrupted.
WaitFails ==
    /\ Failure(owner, "wait")
    /\ UNCHANGED obs

Disconnected(o) == [o EXCEPT !.transport = IF @ = "open" THEN "closed" ELSE @]

-----------------------------------------------------------------------------
(* OBS.                                                                    *)

ObsBoots ==
    /\ obs.phase = "booting"
    /\ obs' = [obs EXCEPT !.phase = "serving"]
    /\ UNCHANGED <<owner, record>>

\* The port was only found free: another program may get it first.
PortIsTaken ==
    /\ obs.phase = "booting"
    /\ ~obs.foreign
    /\ obs' = [obs EXCEPT !.foreign = TRUE]
    /\ UNCHANGED <<owner, record>>

\* The user closes OBS, it leaves as it was asked to, or it crashes.
ObsExits(code) ==
    /\ obs.phase \in {"booting", "serving", "leaving"}
    /\ obs' = [obs EXCEPT !.phase = "exited", !.code = code]
    /\ UNCHANGED <<owner, record>>
=============================================================================
