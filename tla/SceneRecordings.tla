-------------------------- MODULE SceneRecordings --------------------------
(***************************************************************************)
(* SceneRecordingSessionManager (native/src/scene-recording-session.cpp):  *)
(* sessions of private outputs, one per scene.  Its operations run one at  *)
(* a time on the UI thread; the outputs end whenever they like, also       *)
(* between two outputs that a start is starting, so a start is several     *)
(* steps here: what it checks and creates, each output, then the session   *)
(* is kept or rolled back.                                                 *)
(***************************************************************************)
EXTENDS Naturals, FiniteSets

CONSTANTS
    Scenes,        \* scenes that can be recorded
    Paths,         \* names under which files can be written
    FileOf,        \* FileOf[p]: the file that p names; on a disk that folds the
                   \* case of names several paths name one file
    OutputLimit,   \* kMaxSceneRecordings
    HistoryLimit,  \* history_limit
    MaxSessions    \* how many starts there may be (bound of the model)

ASSUME LimitsAssumption == /\ OutputLimit \in Nat \ {0}
                           /\ HistoryLimit \in Nat
                           /\ OutputLimit <= HistoryLimit
                           /\ MaxSessions \in Nat

\* What the limits count can be counted: a request names finitely many scenes.
ASSUME ScenesAssumption == IsFiniteSet(Scenes)

Sessions == 1..MaxSessions
Files == {FileOf[p] : p \in Paths}

VARIABLES
    loaded,      \* the manager exists
    created,     \* sessions created so far; they are numbered in that order
    sessions,    \* the vector sessions, in the order of their numbers
    building,    \* the session that start is starting, 0 for none
    recordings,  \* recordings[s]: the recordings of session s by scene: the path,
                 \* stopRequested, and the output: created, ended, released or Running
    stoppedAt,   \* sessions with a stop time
    files,       \* files that exist
    stops        \* history: stops[s]: stop requests that name session s, at most 2

vars == <<loaded, created, sessions, building, recordings, stoppedAt, files, stops>>

\* An output is active until it has ended, also after a stop.
Running == {"active", "stopping", "forced"}
Plans == UNION {[chosen -> Paths] : chosen \in SUBSET Scenes}
NoRecordings == [x \in {} |-> {}]

Init ==
    /\ loaded = TRUE
    /\ created = 0
    /\ sessions = {}
    /\ building = 0
    /\ recordings = [s \in Sessions |-> NoRecordings]
    /\ stoppedAt = {}
    /\ files = {}
    /\ stops = [s \in Sessions |-> 0]

-----------------------------------------------------------------------------

ActiveIn(rs) == {x \in DOMAIN rs : rs[x].output \in Running}
SessionActive(s) == ActiveIn(recordings[s]) # {}
ActiveOutputs ==
    {o \in Sessions \X Scenes : o[2] \in ActiveIn(recordings[o[1]])}

PathOf(o) == recordings[o[1]][o[2]].path
WrittenBy(o) == FileOf[PathOf(o)]

SetOutput(rs, scenes, state) ==
    [x \in DOMAIN rs |-> IF x \in scenes THEN [rs[x] EXCEPT !.output = state]
                                         ELSE rs[x]]

\* Session::release_inactive of the sessions ss.
Released(ss) ==
    [s \in Sessions |->
        IF s \in ss
        THEN SetOutput(recordings[s],
                       DOMAIN recordings[s] \ ActiveIn(recordings[s]), "released")
        ELSE recordings[s]]

Over(ss) == {s \in ss : ~SessionActive(s)}

ReleaseInactive(ss) == /\ recordings' = Released(ss)
                       /\ stoppedAt' = stoppedAt \cup Over(ss)

-----------------------------------------------------------------------------
(* SceneRecordingSessionManager::start.                                    *)

\* Mutant of WithinOutputLimit: the outputs of other sessions are not counted.
WithinOutputLimitAlone(plan) == Cardinality(DOMAIN plan) <= OutputLimit

WithinOutputLimit(plan) ==
    Cardinality(ActiveOutputs) + Cardinality(DOMAIN plan) <= OutputLimit

\* Mutant of Unused: a scene may be recorded twice.
UnusedFiles(plan) ==
    /\ \A x \in DOMAIN plan : FileOf[plan[x]] \notin files
    /\ \A x, y \in DOMAIN plan : plan[x] = plan[y] => x = y

\* scene_active, QFileInfo::exists and output_paths: what exists is asked of the
\* disk, the names of one request are compared as they are spelled.
Unused(plan) ==
    /\ \A x \in DOMAIN plan : FileOf[plan[x]] \notin files
    /\ \A x, y \in DOMAIN plan : plan[x] = plan[y] => x = y
    /\ \A s \in sessions : DOMAIN plan \cap ActiveIn(recordings[s]) = {}

\* Everything is checked and every output is created; none is started yet.
Begin(plan) ==
    /\ loaded /\ building = 0 /\ created < MaxSessions
    /\ DOMAIN plan # {}
    /\ WithinOutputLimit(plan)
    /\ Unused(plan)
    /\ created' = created + 1
    /\ building' = created + 1
    /\ recordings' =
          [Released(sessions) EXCEPT ![created + 1] =
              [x \in DOMAIN plan |-> [path |-> plan[x], output |-> "created",
                                      stopRequested |-> FALSE]]]
    /\ stoppedAt' = stoppedAt \cup Over(sessions)
    /\ UNCHANGED <<loaded, sessions, files, stops>>

\* A check fails, or something cannot be created: session.shutdown() releases
\* what was created.  Only the sessions there are have been tidied up.
Reject ==
    /\ loaded /\ building = 0
    /\ ReleaseInactive(sessions)
    /\ UNCHANGED <<loaded, created, sessions, building, files, stops>>

\* obs_output_start succeeds for the recording of scene x.
StartOutput(x) ==
    /\ building # 0
    /\ x \in DOMAIN recordings[building]
    /\ recordings[building][x].output = "created"
    /\ recordings' = [recordings EXCEPT ![building][x].output = "active"]
    /\ files' = files \cup {WrittenBy(<<building, x>>)}
    /\ UNCHANGED <<loaded, created, sessions, building, stoppedAt, stops>>

PlannedFiles(s) == {WrittenBy(<<s, x>>) : x \in DOMAIN recordings[s]}

StartReturns == building' = 0

\* Mutant of Rollback: the outputs that were started keep running.
RollbackFilesOnly ==
    /\ building # 0
    /\ \E x \in DOMAIN recordings[building] :
          recordings[building][x].output = "created"
    /\ files' = files \ PlannedFiles(building)
    /\ StartReturns
    /\ UNCHANGED <<loaded, created, sessions, recordings, stoppedAt, stops>>

\* obs_output_start fails for one: all are released and their files removed.
Rollback ==
    /\ building # 0
    /\ \E x \in DOMAIN recordings[building] :
          recordings[building][x].output = "created"
    /\ recordings' = [recordings EXCEPT ![building] = NoRecordings]
    /\ files' = files \ PlannedFiles(building)
    /\ StartReturns
    /\ UNCHANGED <<loaded, created, sessions, stoppedAt, stops>>

Oldest(ss) == CHOOSE s \in ss : \A other \in ss : s <= other

\* Mutant of Pruned: the oldest session goes, active or not.
PrunedOldest == IF Cardinality(sessions) < HistoryLimit THEN {}
                ELSE {Oldest(sessions)}
\* prune_history: its loop makes one turn at most, start adds one session.
Pruned == IF Cardinality(sessions) < HistoryLimit \/ Over(sessions) = {} THEN {}
          ELSE {Oldest(Over(sessions))}

\* All outputs are started: the session is kept.
Keep ==
    /\ building # 0
    /\ \A x \in DOMAIN recordings[building] :
          recordings[building][x].output # "created"
    /\ sessions' = (sessions \ Pruned) \cup {building}
    /\ recordings' = [s \in Sessions |-> IF s \in Pruned THEN NoRecordings
                                                         ELSE recordings[s]]
    /\ StartReturns
    /\ UNCHANGED <<loaded, created, stoppedAt, files, stops>>

-----------------------------------------------------------------------------
(* The other operations.                                                   *)

Status(s) ==
    /\ loaded /\ building = 0
    /\ s \in sessions
    /\ ReleaseInactive({s})
    /\ UNCHANGED <<loaded, created, sessions, building, files, stops>>

\* Mutant of Stopped: the second stop is not forced.
StoppedGently(r) ==
    IF r.output \notin Running THEN r
    ELSE [r EXCEPT !.output = "stopping", !.stopRequested = TRUE]

\* One recording in stop(): the second stop that finds it active is forced.
Stopped(r) ==
    IF r.output \notin Running THEN r
    ELSE [r EXCEPT !.output = IF r.stopRequested THEN "forced" ELSE "stopping",
                   !.stopRequested = TRUE]

Stop(s) ==
    /\ loaded /\ building = 0
    /\ s \in sessions
    /\ recordings' =
          [recordings EXCEPT ![s] =
              [x \in DOMAIN recordings[s] |-> Stopped(recordings[s][x])]]
    /\ stops' = [stops EXCEPT ![s] = IF @ = 2 THEN 2 ELSE @ + 1]
    /\ UNCHANGED <<loaded, created, sessions, building, stoppedAt, files>>

\* The module is unloaded: shutdown() ends everything, and the manager is gone.
Shutdown ==
    /\ loaded /\ building = 0
    /\ loaded' = FALSE
    /\ sessions' = {}
    /\ recordings' = [s \in Sessions |-> NoRecordings]
    /\ stoppedAt' = stoppedAt \cup sessions
    /\ UNCHANGED <<created, building, files, stops>>

-----------------------------------------------------------------------------
(* Outside the plugin.                                                     *)

\* The muxer is done after a stop, or the output fails.
OutputEnds(s, x) ==
    /\ x \in ActiveIn(recordings[s])
    /\ recordings' = [recordings EXCEPT ![s][x].output = "ended"]
    /\ UNCHANGED <<loaded, created, sessions, building, stoppedAt, files, stops>>

\* A file that is not being written is removed.
RemoveFile(f) ==
    /\ f \in files
    /\ \A o \in ActiveOutputs : WrittenBy(o) # f
    /\ files' = files \ {f}
    /\ UNCHANGED <<loaded, created, sessions, building, recordings, stoppedAt,
                   stops>>

-----------------------------------------------------------------------------

Next == \/ \E plan \in Plans : Begin(plan)
        \/ Reject \/ Rollback \/ Keep \/ Shutdown
        \/ \E x \in Scenes : StartOutput(x)
        \/ \E s \in Sessions : \/ Status(s) \/ Stop(s)
                               \/ \E x \in Scenes : OutputEnds(s, x)
        \/ \E f \in Files : RemoveFile(f)

Spec == Init /\ [][Next]_vars

-----------------------------------------------------------------------------
(* Properties.                                                             *)

\* README: at most kMaxSceneRecordings outputs are active in one OBS instance,
\* whatever sessions they belong to (the check of start over all sessions).
\* The history is bounded too: prune_history always finds a session to drop.
WithinLimit ==
    /\ Cardinality(ActiveOutputs) <= OutputLimit
    /\ Cardinality(sessions) <= HistoryLimit

\* No two active outputs record the same scene or write under the same name, and
\* those of different sessions never write the same file, however it is spelled
\* (scene_active, QFileInfo::exists, output_paths).  Within one session two names
\* that the disk takes for one file can both be written: start compares them
\* before either exists.
Exclusive ==
    \A o, other \in ActiveOutputs :
        /\ o[2] = other[2] \/ PathOf(o) = PathOf(other) => o = other
        /\ WrittenBy(o) = WrittenBy(other) => o[1] = other[1]

\* An active output belongs to a session that a client can ask about and stop,
\* or that start is still busy with: a rollback stops what it had started.
NoOrphans == \A o \in ActiveOutputs : o[1] \in sessions \cup {building}

\* The output of session s for scene x goes on, or ends by itself; its file stays.
GoesOn(s, x) ==
    /\ x \in DOMAIN recordings'[s]
    /\ recordings'[s][x].output \in {recordings[s][x].output, "ended"}
    /\ WrittenBy(<<s, x>>) \in files'

\* README: stopping one session leaves the others running.  No step of the plugin
\* stops, drops or takes the file of an active output, be it a stop of another
\* session, a start that prunes the history, one that is rolled back or tidying
\* up, but a stop that names its session, the rollback of its own start and the
\* end of the plugin (stop, prune_history, release_inactive, shutdown).
OnlyNamedStops ==
    [][\A s \in Sessions : \A x \in ActiveIn(recordings[s]) :
          \/ GoesOn(s, x)
          \/ stops'[s] # stops[s]
          \/ s = building /\ building' = 0 /\ s \notin sessions'
          \/ ~loaded']_vars

\* Stops are what they are said to be, although outputs end and are looked at
\* between them: a session with a stop time is over (release_inactive, status_data),
\* and the second stop of a session leaves no output that may hang, what is still
\* active has been stopped by force (stop_requested, stop_scene_recordings).
StopsAreTrue ==
    /\ \A s \in stoppedAt : ~SessionActive(s)
    /\ \A s \in Sessions : stops[s] = 2 =>
          \A x \in ActiveIn(recordings[s]) : recordings[s][x].output = "forced"
=============================================================================
