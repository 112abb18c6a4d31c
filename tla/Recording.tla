----------------------------- MODULE Recording -----------------------------
(***************************************************************************)
(* The normal recording of OBS as the plugin controls it                   *)
(* (native/src/plugin-main.cpp) and as the bridge verifies it              *)
(* (ObsControlBridge._recording_mutation, _output_mutation).               *)
(* OBS stops a recording asynchronously: it stays active until the muxer   *)
(* is done, and the frontend event comes later still.  The plugin keeps    *)
(* one flag, g_recording_stop_requested, to tell "finalizing" from         *)
(* "recording"; several clients and the user of OBS act on the one         *)
(* recorder between any two steps of an operation.                         *)
(* What UiDispatch and Bridge show is taken for granted here: an operation *)
(* runs in one step of the UI thread, a response is of this OBS.           *)
(***************************************************************************)
EXTENDS Naturals, Sequences

CONSTANTS
    Clients,       \* bridges, one operation each
    Operations,    \* what they may ask for, a subset of AllOperations
    Attempts,      \* postcondition_attempts
    MaxRecordings  \* OBS fails to start more recordings (bound of the model)

AllOperations ==
    {"StartRecording", "StartInDirectory", "StopRecording", "PauseRecording",
     "ResumeRecording", "StartOutput", "StopOutput"}

ASSUME ConstantsAssumption == /\ Operations \subseteq AllOperations
                              /\ Attempts \in Nat \ {0}
                              /\ MaxRecordings \in Nat

VARIABLES
    recorder,       \* OBS: "idle", "recording", "paused" or "stopping"
    number,         \* OBS: recordings started so far
    directory,      \* OBS: where the last one is written
    pending,        \* OBS: frontend events not yet delivered, oldest first
    stopRequested,  \* g_recording_stop_requested
    pc,             \* pc[c]: "idle", "poll" or "done"
    op,             \* op[c]: the operation of client c
    attempts,       \* attempts[c]: read-backs that did not match
    result,         \* result[c]: how it ended
    stopped,        \* history: recordings that somebody asked to stop
    before,         \* history: number when c's mutation ran
    ending,         \* history: whether a recording was stopping then
    seen            \* history: the recording of c's last read-back

recorderVars == <<recorder, number, directory, pending>>
clientVars == <<pc, op, attempts, result>>
vars == <<recorderVars, stopRequested, clientVars, stopped, before, ending, seen>>

Active == recorder # "idle"

TypeOK ==
    /\ recorder \in {"idle", "recording", "paused", "stopping"}
    /\ number \in 0..MaxRecordings
    /\ directory \in {"profile", "requested"}
    /\ pending \in Seq({"started", "stopped"})
    /\ stopRequested \in BOOLEAN
    /\ pc \in [Clients -> {"idle", "poll", "done"}]
    /\ op \in [Clients -> Operations \cup {"none"}]
    /\ attempts \in [Clients -> 0..Attempts - 1]
    /\ result \in [Clients -> {"none", "verified", "stopPending", "error"}]
    /\ stopped \subseteq 1..MaxRecordings
    /\ before \in [Clients -> 0..MaxRecordings]
    /\ ending \in [Clients -> BOOLEAN]
    /\ seen \in [Clients -> 0..MaxRecordings]

Init ==
    /\ recorder = "idle"
    /\ number = 0
    /\ directory = "profile"
    /\ pending = <<>>
    /\ stopRequested = FALSE
    /\ pc = [c \in Clients |-> "idle"]
    /\ op = [c \in Clients |-> "none"]
    /\ attempts = [c \in Clients |-> 0]
    /\ result = [c \in Clients |-> "none"]
    /\ stopped = {}
    /\ before = [c \in Clients |-> 0]
    /\ ending = [c \in Clients |-> FALSE]
    /\ seen = [c \in Clients |-> 0]

-----------------------------------------------------------------------------
(* OBS's recorder, as the frontend API shows it.                           *)

\* obs_frontend_recording_start: nothing if there is a recording, and the start
\* may fail.
RecorderStart(d) ==
    \/ UNCHANGED recorderVars
    \/ /\ ~Active
       /\ number < MaxRecordings
       /\ recorder' = "recording"
       /\ number' = number + 1
       /\ directory' = d
       /\ pending' = Append(pending, "started")

\* obs_frontend_recording_stop: it is only asked to stop.
RecorderStop ==
    /\ recorder' = IF Active THEN "stopping" ELSE "idle"
    /\ stopped' = IF Active THEN stopped \cup {number} ELSE stopped
    /\ UNCHANGED <<number, directory, pending>>

\* obs_frontend_recording_pause: without effect on one that stops.
RecorderPause(from, to) ==
    /\ recorder' = IF recorder = from THEN to ELSE recorder
    /\ UNCHANGED <<number, directory, pending>>

\* The muxer is done, or the output ended by itself.
Finalize ==
    /\ Active
    /\ recorder' = "idle"
    /\ pending' = Append(pending, "stopped")
    /\ UNCHANGED <<number, directory, stopRequested, clientVars, stopped,
                   before, ending, seen>>

\* The user of OBS, a hotkey or another client of obs-websocket.
User ==
    /\ \/ RecorderStart("profile") /\ UNCHANGED stopped
       \/ RecorderStop
       \/ RecorderPause("recording", "paused") /\ UNCHANGED stopped
       \/ RecorderPause("paused", "recording") /\ UNCHANGED stopped
    /\ UNCHANGED <<stopRequested, clientVars, before, ending, seen>>

-----------------------------------------------------------------------------
(* The plugin: cases of execute_ui_operation, and frontend_event.          *)

\* Mutant of FrontendEvent: the events of the recorder are not observed.
FrontendEventIgnored ==
    /\ pending # <<>>
    /\ pending' = Tail(pending)
    /\ UNCHANGED <<recorder, number, directory, stopRequested, clientVars,
                   stopped, before, ending, seen>>

FrontendEvent ==
    /\ pending # <<>>
    /\ pending' = Tail(pending)
    /\ stopRequested' = FALSE
    /\ UNCHANGED <<recorder, number, directory, clientVars, stopped, before,
                   ending, seen>>

\* StartRecording without a directory is accepted whatever the recorder does.
StartRecording ==
    /\ stopRequested' = FALSE
    /\ IF Active THEN UNCHANGED recorderVars ELSE RecorderStart("profile")
    /\ UNCHANGED stopped

\* Mutant of StartInDirectory: an active recording is taken for the new one.
StartInDirectoryActive ==
    /\ stopRequested' = FALSE
    /\ IF Active THEN UNCHANGED recorderVars ELSE RecorderStart("requested")
    /\ UNCHANGED stopped

StartInDirectory ==
    /\ ~Active
    /\ stopRequested' = FALSE
    /\ RecorderStart("requested")
    /\ UNCHANGED stopped

\* Mutant of StopRecording: the flag is set even if there is nothing to stop.
StopRecordingAlways ==
    /\ stopRequested' = TRUE
    /\ RecorderStop

StopRecording ==
    /\ stopRequested' = Active
    /\ RecorderStop

PauseRecording ==
    /\ Active
    /\ RecorderPause("recording", "paused")
    /\ UNCHANGED <<stopRequested, stopped>>

ResumeRecording ==
    /\ Active
    /\ RecorderPause("paused", "recording")
    /\ UNCHANGED <<stopRequested, stopped>>

\* StartOutput and StopOutput with the output "recording": the flag is not used.
StartOutput == RecorderStart("profile") /\ UNCHANGED <<stopRequested, stopped>>
StopOutput == RecorderStop /\ UNCHANGED stopRequested

Perform(o) ==
    \/ o = "StartRecording" /\ StartRecording
    \/ o = "StartInDirectory" /\ StartInDirectory
    \/ o = "StopRecording" /\ StopRecording
    \/ o = "PauseRecording" /\ PauseRecording
    \/ o = "ResumeRecording" /\ ResumeRecording
    \/ o = "StartOutput" /\ StartOutput
    \/ o = "StopOutput" /\ StopOutput

\* OBS_OUTPUT_ACTIVE, OBS_RECORDING_NOT_ACTIVE.  When the directory cannot be
\* made (OBS_RECORDING_PATH_INVALID) the flag has been cleared already.
Refused(o) ==
    \/ /\ o = "StartInDirectory"
       /\ stopRequested' = IF Active THEN stopRequested ELSE FALSE
    \/ /\ o \in {"PauseRecording", "ResumeRecording"}
       /\ ~Active
       /\ UNCHANGED stopRequested

-----------------------------------------------------------------------------
(* The bridge.                                                             *)

Finish(c, r) == /\ pc' = [pc EXCEPT ![c] = "done"]
                /\ result' = [result EXCEPT ![c] = r]

\* The mutation is accepted.
Mutate(c, o) ==
    /\ pc[c] = "idle"
    /\ Perform(o)
    /\ pc' = [pc EXCEPT ![c] = "poll"]
    /\ op' = [op EXCEPT ![c] = o]
    /\ before' = [before EXCEPT ![c] = number]
    /\ ending' = [ending EXCEPT ![c] = recorder = "stopping"]
    /\ UNCHANGED <<attempts, result, seen>>

Reject(c, o) ==
    /\ pc[c] = "idle"
    /\ Refused(o)
    /\ Finish(c, "error")
    /\ op' = [op EXCEPT ![c] = o]
    /\ UNCHANGED <<recorderVars, attempts, stopped, before, ending, seen>>

\* Mutant of Matches: a recording that is asked to stop counts as stopped.
MatchesEarly(o) ==
    /\ o \in {"StopRecording", "StopOutput"} <=>
          recorder \notin {"recording", "paused"}
    /\ o = "PauseRecording" => recorder = "paused"
    /\ o = "StartInDirectory" => directory = "requested"

\* The state that the operation o asks for, as GetRecordingStatus or, for the
\* two output operations, GetOutputStatus shows it.
Matches(o) ==
    /\ o \in {"StopRecording", "StopOutput"} <=> ~Active
    /\ o = "PauseRecording" => recorder = "paused"
    /\ o \in {"StartRecording", "StartInDirectory", "ResumeRecording"} =>
          recorder # "paused"
    /\ o = "StartInDirectory" => directory = "requested"

\* Mutant of AttemptsLeft: one attempt too many.
AttemptsLeftByOne(c) == attempts[c] < Attempts

AttemptsLeft(c) == attempts[c] + 1 < Attempts

\* One turn of the loop.  A stop polls until the margin before its deadline is
\* reached, which may be any time; the others have a number of attempts.
ReadBack(c) ==
    /\ pc[c] = "poll"
    /\ seen' = [seen EXCEPT ![c] = number]
    /\ \/ Matches(op[c]) /\ Finish(c, "verified") /\ UNCHANGED attempts
       \/ /\ ~Matches(op[c])
          /\ op[c] = "StopRecording"
          /\ \/ Finish(c, "stopPending")
             \/ UNCHANGED <<pc, result>>
          /\ UNCHANGED attempts
       \/ /\ ~Matches(op[c])
          /\ op[c] # "StopRecording"
          /\ IF AttemptsLeft(c)
             THEN /\ attempts' = [attempts EXCEPT ![c] = @ + 1]
                  /\ UNCHANGED <<pc, result>>
             ELSE Finish(c, "error") /\ UNCHANGED attempts
    /\ UNCHANGED <<recorderVars, stopRequested, op, stopped, before, ending>>

\* A request raises, or the deadline passes.
GiveUp(c) ==
    /\ pc[c] = "poll"
    /\ Finish(c, "error")
    /\ UNCHANGED <<recorderVars, stopRequested, op, attempts, stopped, before,
                   ending, seen>>

-----------------------------------------------------------------------------

Next == \/ User \/ Finalize \/ FrontendEvent
        \/ \E c \in Clients :
              \/ ReadBack(c) \/ GiveUp(c)
              \/ \E o \in Operations : Mutate(c, o) \/ Reject(c, o)

Spec == Init /\ [][Next]_vars

\* OBS finalizes a recording that is asked to stop, and its event loop runs.
FairSpec == Spec /\ WF_vars(recorder = "stopping" /\ Finalize)
                 /\ WF_vars(FrontendEvent)

-----------------------------------------------------------------------------
(* Properties.                                                             *)

\* "finalizing" in the status of recording_status() is explained: the recording
\* that is active was asked to stop, or an event that clears the flag is on its
\* way.  The flag outlives neither the recording nor its events.
FinalizingExplained ==
    Active /\ stopRequested => number \in stopped \/ pending # <<>>

\* A start in a directory is reported as verified only for a recording that did
\* not exist when the request was made: never for one that another client or the
\* user had running, whatever its directory (the OBS_OUTPUT_ACTIVE case of
\* StartRecording, _output_path_matches_directory).
FreshRecording ==
    \A c \in Clients : result[c] = "verified" /\ op[c] = "StartInDirectory" =>
        seen[c] > before[c]

\* A stop that is reported as verified is over: the recording it was asked to
\* stop is not active any more, nor ever again (_recording_mutation and
\* _output_mutation wait for outputActive to be false).
StoppedIsOver ==
    \A c \in Clients :
        result[c] = "verified" /\ op[c] \in {"StopRecording", "StopOutput"} =>
            ~(Active /\ number = before[c])

\* The plugin does not show "finalizing" for ever: the flag is cleared again
\* when OBS has finalized the recording (frontend_event).
FinalizingEnds == stopRequested ~> ~stopRequested

\* start_recording.py: "OBS recording started and was verified.": the recording
\* that was seen is not one that had been asked to stop before.
StartedIsNotEnding ==
    \A c \in Clients : result[c] = "verified" /\ op[c] = "StartRecording" =>
        ~(ending[c] /\ seen[c] = before[c])

\* stop_recording.py: "OBS accepted the stop request and is still finalizing the
\* output.": when the bridge says so, the recording it saw was asked to stop.
StopPendingIsTrue ==
    \A c \in Clients : result[c] = "stopPending" => seen[c] \in stopped
=============================================================================
