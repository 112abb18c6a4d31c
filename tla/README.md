# dcc-mcp-obs: a TLA+ model

dcc-mcp-obs lets an agent control OBS Studio. A C++ plugin inside OBS registers
typed requests with obs-websocket; a Python sidecar offers them as tools, checks
identity and postconditions, and starts and stops with OBS. This directory holds
TLA+ modules translated from that code, the TLC runs that check them on small
instances, and TLAPS proofs for instances of any size. `PROJECT.json` lists the
runs, the mutants that show each property can fail, and the source lines behind
every definition.

    tlc -workers 2 -config MCUiDispatch.cfg MCUiDispatch.tla     # one run
    tlapm UiDispatchProofs.tla                                   # the proofs

## The system

    agent -> skill script -> ObsControlBridge -> ObsWebSocketTransport
          -> obs-websocket -> vendor_request (handler thread)
          -> OBS UI task queue -> execute_ui_operation (UI thread) -> OBS
    OBS -> frontend_event, output signals -> plugin globals, vendor events
    dcc-mcp-obs (sidecar), dcc-mcp-obs-accept, dcc-mcp-obs-accept-host -> the adapter, OBS processes
    dcc-mcp-obs-install -> the plug-in directory

| part | state it keeps | operations | what is hard |
|---|---|---|---|
| UI dispatch: `plugin-main.cpp` (`vendor_request`, `run_ui_operation`, `execute_ui_operation`), `ui-task-gate.hpp` | per call a `UiState` (deadline, gate, mutex, condition, result); global `g_event_sequence` | one handler thread per request posts to one UI thread and waits with a bound | giving up races with starting; deadlines; lost wake-ups; order of event sequences |
| Transport: `protocol.py` | lock, one socket | `vendor_request`, `close`, handshake, receive loop | threads share a connection that breaks; late and foreign answers; what an error says about a mutation |
| Bridge: `bridge.py` | pinned identity, last event sequence, request lock | `_checked`, mutate-and-read-back, one method per typed operation | OBS restarted behind the sidecar; interleaved operations; answers out of order; OBS changed by others before the read-back |
| Scene graph: `plugin-main.cpp`, `bridge.py` | scenes, items, transitions, studio mode, profiles, collections of OBS | select by name, mutate, read back | lists that are cut; names one side refuses; what changes between list, request and read-back |
| Typed sources: `typed-source-control.cpp`, `bridge.py` | settings, filters, audio and media of sources | reviewed mutations | floats; kinds nobody reviewed; media that open slowly |
| Overlays: `agent-input-overlay.cpp`, `presentation-overlay.cpp`, `bridge.py` | one source shared by the scenes that show it | create, layout, activity, clear, content | other agents; expiry by the wall clock; anchors read back from positions |
| Window capture: `plugin-main.cpp`, `bridge.py` | a source bound to one window of another program | create, rebind, method and audio, restore; verified and undone in one task | the window changes between two looks at it |
| Recording: `plugin-main.cpp`, `bridge._recording_mutation` | `g_recording_stop_requested`; OBS's recording output | start, stop, pause, resume, status; frontend events | stopping is asynchronous; other clients and hotkeys; two places that remember the stop |
| Scene recordings: `scene-recording-session.cpp` | sessions of private outputs | start with rollback, stop, forced stop, status, prune, shutdown | limits over all sessions; partial failure; outputs that end by themselves |
| Sidecar server: `server.py`, `process.py`, `config.py`, `shared_runtime.py` | one global adapter, its transport | `start_server`, `stop_server`, poll of the host process | failure half-way through a start or a stop |
| Owned OBS: `owned_obs.py`, `disposable_obs.py` | a child OBS in a private tree, its record | prepare, start, verify, close, retain | every step may fail or be interrupted; OBS may refuse to leave |
| Acceptance: `real_obs_acceptance.py` | a script of tool calls, the public evidence | gate, session, script, evidence | calls given up on that go on; cleaning up after any failure |
| Installer: `install_cli.py` | plug-in directory, receipt, recovery directories | install, upgrade, verify, uninstall | kills and failing file operations between two moves; other programs changing the files |
| Plugin life cycle, `sidecar-launcher.cpp`, menu | vendor handle, sidecar process | load, register, exit event, unload | order of the teardown against obs-websocket |

Correctness, part by part: the dispatch and the transport must tell the truth
about whether a mutation happened, and always return; the bridge must report
`verified` only for what was so in the OBS it is bound to, and a failure only where
there is one; a refusal must have changed nothing; recording status must not
contradict what was asked; scene recordings must respect their limit and leave
nothing behind after a failed start; an OBS that was started must be waited for,
whatever fails, and evidence be published only when it was earned; an
installation must be complete or be restored, and its report be true.

## Modules

| module | what it models | code |
|---|---|---|
| `VendorCall` | abstract: what the plugin promises of one request | the contract of `vendor_request` |
| `UiDispatch` | detailed: handler threads, the UI thread, the gate | `plugin-main.cpp`, `ui-task-gate.hpp` |
| `Transport` | threads of the sidecar over one connection; uses `VendorCall` for the plugin and implements it end to end | `protocol.py` |
| `Bridge` | checked responses, mutate and read back | `bridge.py` |
| `Recording` | the recorder of OBS, the plugin's stop flag, the bridge's recording operations | `plugin-main.cpp`, `bridge.py` |
| `SceneRecordings` | the session manager | `scene-recording-session.cpp` |
| `BridgeRequests` | what the typed operations have in common: a request, its outcomes, numbers as OBS keeps them | `bridge.py`, `plugin-main.cpp` |
| `SceneGraph` | scenes, items, transitions, studio mode, profiles, collections | `plugin-main.cpp`, `bridge.py` |
| `SourceControl` | sources, filters, audio, media | `typed-source-control.cpp`, `bridge.py` |
| `OverlayControl` | the two overlays, their geometry and expiry | `agent-input-overlay.cpp`, `presentation-overlay.cpp`, `bridge.py` |
| `CaptureControl` | captures of one exact window | `plugin-main.cpp`, `bridge.py` |
| `BridgeOperations` | one typed operation from the call to its answer, on any of the four, while others change OBS | `bridge.py` |
| `AdapterServer` | which OBS is served; who holds the adapter | `server.py`, `process.py`, `config.py`, `shared_runtime.py` |
| `DisposableLayout` | the private tree, the plugin in it, the artifacts | `disposable_obs.py`, `owned_obs.py`, `real_obs_acceptance.py` |
| `AcceptanceScript` | the calls of the acceptance run and what they do | `real_obs_acceptance.py`, `disposable_obs.py` |
| `OwnedHost` | a child OBS and the object that owns it | `owned_obs.py` |
| `DisposableRun` | the programs around a live OBS; composes the four above | `disposable_obs.py`, `real_obs_acceptance.py`, `server.py` |
| `InstallBundle` | what an archive may hold | `install_cli.py` |
| `InstallTransaction` | install, upgrade, verify and uninstall, file by file | `install_cli.py` |
| `MC...` | constants and symmetry for TLC | |
| `UiDispatchProofs`, `TransportProofs`, `BridgeProofs`, `BridgeOperationsProofs`, `RecordingProofs`, `SceneRecordingsProofs`, `DisposableRunProofs` | inductive invariants and theorems of the modules they are named after | |
| `InstallProofs` | the inductive invariant of `InstallTransaction`, what each action does, the proof that the invariant is kept, and the theorems | |

How they fit: `UiDispatch` implements `VendorCall` (run `dispatch`, theorem
`Refinement`). `Transport` assumes of the plugin only `VendorCall` and is itself
shown to implement it for mutations, seen from the caller (run `transport`, theorem
`Refinement` of `TransportProofs`).
`Bridge` assumes that a request ends and that an answer is the answer to that
request (`CallersReturn`, `OwnAnswer`). `Recording` and `SceneRecordings` assume
that an operation runs in one go on the UI thread, at most once, which is what
the dispatch shows. `BridgeOperations` assumes the same and, of the bridge, that an
operation deals with one instance of OBS; between its requests, each of which is one
task of the UI thread, anything may happen to OBS. `DisposableRun` sees a tool call
as a whole, with an effect and a check, which is what `BridgeOperations` shows of
the operations behind the tools. `InstallTransaction` shares nothing with the rest.

### UiDispatch

One variable per field of `UiState` (`deadline`, `gate`, `complete`, `outcome`),
the queue of the UI thread, and a program counter for each side of a call:
`handler[c]` for the thread in `run_ui_operation`, `stage[c]` for
`execute_ui_operation`. An action is one atomic step of one thread, so the claim
of the gate (`Claim`) and its late check of the deadline (`CheckDeadline`) are
two steps between which the handler may cancel. The mutex of `UiState` appears
as the state `expired`: a handler whose wait is over holds it until it has tried
the gate, and `Publish` waits for that. `performed`, `claimedAt` and `earlier`
are history. What an operation does to OBS is the single step `Run`.

### Transport

`pc[c]` follows a thread through `vendor_request`; from `connect` on it holds the
lock. A frame sent is `travelling` until it is delivered or lost, also when the
connection it was sent on is gone. `Receive` is one turn of `_receive_response`:
an event is read over, a foreign response is an error, and after any error the
connection is dropped (`Disconnect`). `RaisedCode` turns an error into
`OBS_UI_INDETERMINATE` once a mutation has been sent. Error codes other than
`OBS_TIMEOUT` are one value, `error`. `Interrupt` is an exception outside the two
`except` clauses (a `KeyboardInterrupt`), which leaves the connection alone.

### Bridge

`pinned` and `eventSequence` are `_identity` and `_event_sequence`. An operation
goes mutate, mutating, mutated, read, reading, readback, poll; the lock is held
in the four states between `Acquire` and `Accept` or `Reject`, so two threads
interleave between requests and not within one. `Serve` is the request being
carried out by whichever instance is reached; `GiveUp` is any exception, before
or after that. The state of OBS is one bit that accepted mutations change late
(`effects`), that `HostEvent` changes at any time, and that is lost with
`Restart`.

### Recording

`recorder` is what the frontend API of OBS shows: a stop makes a recording
`stopping`, still active, until `Finalize`; events are delivered later, from
`pending`. `stopRequested` is `g_recording_stop_requested`. `Perform` holds the
cases of `execute_ui_operation`, one action each; `User` is the user, a hotkey or
a raw obs-websocket client, which the plugin hears of only through events. A stop
polls until shortly before its deadline (which may be any time, so it may always
return `stopPending`), the others for a number of attempts.

### SceneRecordings

Sessions are numbered in the order of their creation, which is the order of the
vector. `start` is cut where outputs can end under it: `Begin` (checks and
creation), `StartOutput` for each output, then `Keep` or `Rollback`. Everything
else is one step. An output is active until `OutputEnds`, which may happen at any
time; after a gentle stop it may also never happen. A path is a name, and `FileOf`
gives the file it names: on a disk that folds case two names may be one file. The
code asks the disk whether a file exists, but compares the names of one request as
they are spelled, and so does `Unused`. The binding of a scene to a window, the
encoders and the overlays are left out, they only add reasons for `Reject`.

### BridgeOperations and the four parts of OBS

An operation is a record: the request with its target and value, the list or
status it consults first, what it reads back, and which comparison the answer must
pass. The four modules below it give, for their part of OBS, the operations as the
methods of `ObsControlBridge` make them (`CreateSceneRequest`, ...), what the
plugin does with the request (`PerformOnSource`, `PerformOnGraph`,
`PerformOnOverlay`, `PerformOnCapture`: the set of outcomes, each an answer with
the state after it), what a read answers with the checks of
`_validate_read_only_response` on it (`ReadSource`, ...), and the comparison
(`SourceMatches`, ...). `BridgeOperations` drives one operation: `RejectArguments`,
`SelectTarget`, `Send`, `ReadBack` until it matches or `Attempts` are spent, with
`Expire` and `AnsweredLate` where the deadline passes. `Interfere` lets the user or
another agent change OBS up to `MaxChanges` times at any point, `Settle` lets OBS
finish what it began (a medium opens, a transition ends, a frame is drawn). `Goal`
states what the caller asked for on the state of OBS itself, independently of
what the bridge compares; `held` is history and records whether it was so when OBS
was last asked.

`IsOperation` says what an operation is made of, request by request, and `IsWorld`
what a state of each part of OBS is made of; what is called and what OBS is like
are constants that satisfy both (`CallsAssumption`). Others leave OBS in a state
that is made the same way, and what they do to an overlay is numbered: the number of
the activity grows with each change, and an overlay that is made anew is another one
(`Possible`). The plugin itself stamps these numbers, whoever sends the request.

In `CaptureControl` a task of the UI thread looks at the windows at up to four
instants (validation, the check after the claim, and the two looks of the
verification that ends it), and the windows may change between any two of these
(`Glimpses`), since other programs do not wait for the UI thread of OBS.

### DisposableRun

Three programs that are sequential in themselves: `run.pc` is where the program
is, and an action is one call of the code that may fail, with the handler its
exception goes to. `OwnedHost` holds the child process (`obs`), the attributes of
the owner and the state in its record; `AdapterServer` gives `start_server` and
`stop_server` as sets of outcomes, since every step of the DCC server under them
may fail. Between two steps OBS boots, is closed or crashes, its user records by
hand (`Disturb`, also between the check of a graceful shutdown and the end of OBS),
another program takes the port, and a tool call that nobody waits for any longer is
carried out (`JobEnds`). A call goes to the adapter that is there, be it the one the
run started or, in attach mode, one that was running before (`held = "prior"`). The
adapter has two places for a connection: `connection` is that of the adapter in
`_server`; `unmade` that of an adapter whose construction failed and whose transport
could not be closed, which nobody but the `AdapterConstructionError` knows. The close
of an owner asks OBS to leave once (`Asked`) and refuses a second call
(`CloseRaises`). `requests`, `first` and `said` are
history: requests to leave, the first error, what was printed.

### InstallTransaction

`at[p][n]` is the file n in directory p (the plug-in directory, its backup, its
uninstall quarantine), with the version whose content it has and the object it is;
`tx` is all the installer has in memory, lost in a `Crash`. One action is one
operation on one file, and what the code looks at before it uses it is a step of its
own, so that another program may come in between: forward `CheckSource`, `Move`,
`Confirm` for each previous file and `CheckPlace`, `Publish`, `Record` for each new
one, then `Settle`; `RetireFile` and `RetireBreaks` for the recovery directory;
backward `CheckPublished`, `Unpublish` and `CheckBack`, `Restore`. `tx.seen` is what
the look found, `tx.own` the objects that were recorded as published: whatever has the
name by the time it is recorded. A step goes `Wrong` because the disk is not as it
must be (`Drift`: another program edited, replaced, deleted or created a file) or
because the operating system refuses. `InstallBundle` holds the checks of an archive;
a path is a sequence of components with a letter case.

## Runs

| run | bounds | shows |
|---|---|---|
| `dispatch` | 2 calls, time 0..1, deadlines up to 2, waits up to 1 | what a caller is told is true of what ran (`SettledNeverPerformed`, `DeadlineHonoured`, `SequenceCausal`, the refinement of `VendorCall`); handlers return without the UI thread; a live UI thread disposes of every task |
| `transport` | 2 threads, time 0..2, 1 unit to a deadline, 1 event read over, 1 frame waiting, the answer `ok` or a refusal | own answers, clean connections, honest errors, every call returns |
| `bridge` | 2 threads, 2 attempts, 2 instances, 3 events | no false alarm about sequences; verified means bound and read back; operations end |
| `bridge_binding` | the same, 1 attempt | violated: see Findings |
| `recording` | 2 clients, any operation each, 2 attempts, 2 recordings | the flag is explained and ends; fresh recordings; final stops |
| `recording_start`, `recording_pending` | the same, 1 attempt | violated: see Findings |
| `scene_recordings` | 3 scenes, 3 paths of which two name one file, output limit 2, history limit 2, 3 sessions | limits of outputs and history, exclusion of scenes, names and files, rollback, nobody else's output stopped, true stop times and forced stops |
| `operations` | 40 typed operations with their arguments, 2 attempts, 2 changes by others, lists of 2 entries | verified was so; a failure is one; a refusal changed nothing; an activity is the caller's own |
| `acceptance` | 33 scenarios (program, platform, artifacts and their versions, an adapter that is there), 1 recording by hand, 1 interrupted wait | OBS is waited for and not called ended before; evidence is earned and complete; sound builds pass the gate and no others get evidence; one request to leave; first error; no connection without a holder; programs end |
| `install` | 2 directories, 2 versions of 1 file and the receipt, 7 archives, 2 commands; of 1 drift, 1 failing operation and 1 kill any two, or all if the kill is the last | the previous install survives; the report is true; foreign files stay unless they come between a look and its use, and so does what a killed run left; an accepted archive fits |
| `install_recovery` | the same, 1 command and 1 drift | violated: see Findings |

Why the bounds are enough. Two calls, threads or clients are the smallest number
that interferes, and every rule of the code is about pairs (an earlier and a
later call, two users of a lock, a request and an outsider). With a deadline of
0, 1 or 2 and a clock that reaches 1, a request can be past its deadline when it
is posted, reach it while it waits, or outlive the wait of its handler; in `transport` a
thread may call after the deadline of the other has passed. The transport passes
every answer of the plugin on as it is, so that one answer and one refusal stand
for all; the limit of 64 events read over is 1 there (`EventLimit`). Two
instances of OBS give one restart under an operation; the bridge never pins
again, so a second restart adds nothing. A second recording is the one that is
confused with the first. The constants 8 and 32 of the scene recordings are
`OutputLimit` and `HistoryLimit`; what the code needs of them is only that the
first is not the larger (`LimitsAssumption`: otherwise `prune_history` may find
nothing to drop), and with both at 2 three starts fill the history, also while a
session in it is active. The last of the three is there for that: the state
constraint `SmallLastSession` gives it one recording and no stop. Deadlock is not
checked: calls and operations are made once, so that every behaviour may stop,
and the liveness properties show that none stops early. Bounds that stand for
nothing in the code are `MaxTime`, `MaxBudget`, `MaxWaiting`, `MaxInstances`, `MaxEvents`,
`MaxRecordings` and `MaxSessions`.

In `operations` two changes by others are one before and one after the request, or one
that is undone by the next; a second attempt is the only difference between reading
once and reading again. The states OBS starts from and the changes others make are
listed in `MCBridgeOperations`: lists that fit, are cut (`MaxListed`) or hold a name
one of the two sides refuses (`LongNames`, `WideNames`), filters of another kind,
stored settings out of the reviewed range (`Largest`), volumes and positions on both
sides of 2^24, where a float stops being exact, a canvas on which all anchors differ
and one on which some coincide, and windows that are closed, hidden, renamed,
minimised, or replaced under the same handle or even the same process number. In
`acceptance` every scenario that is not sound is wrong in one respect (the plugin and
its archive agree on another version or platform than the package that runs, or the
wheel does). In `install` one drift, one failing operation and one kill in two
commands meet in any order, all three only if the kill is the last and ends the
behaviour (`TwoMishaps`); a version has one file besides the receipt so that a move
has a before, a between and an after, and the second command meets what the first
left. Deadlock is not checked in the last two, whose programs end; an operation
stutters in `Ended`.

Fairness. Handler threads and threads of the sidecar are scheduled by the operating
system, and clocks run: weak fairness of their own steps and of `Tick`. The UI thread
belongs to OBS and may hang in a dialog; its fairness is a premise of `TasksDisposed`
alone. In `Transport` neither OBS nor the network is fair. In `Bridge` the step of a
thread is fair as a whole, which rests on `CallersReturn`: a request ends, in an
answer or an error. `Recording` assumes that OBS finishes a recording that was asked
to stop and that its event loop runs; a recording may otherwise go on for ever.
`SceneRecordings` needs none: what is shown is that a second stop leaves only outputs
stopped by force, which OBS ends. `DisposableRun` assumes that the program is
scheduled and that OBS ends some day, closed by its user if it does not leave: the
last wait has no limit by design. It assumes of the adapter nothing, since the driver
has a time-out for each call. `InstallTransaction` and `BridgeOperations` check no
liveness: their loops are bounded by the files and the attempts.

## Findings

- `bridge_binding`: a mutation is not bound to the pinned instance. The request
  carries no instance identifier; after a restart of OBS the new instance carries
  it out and the bridge notices in the response (`OBS_INSTANCE_DRIFT`).
  `docs/scene-graph.md` says that mutations are bound to the exact native plugin
  instance. What does hold is `VerifiedOnPinned`: such a mutation is never
  reported as verified.
- `recording_start`: `start_recording` without a directory, while the previous
  recording is being finalized, is accepted, clears the stop flag, starts nothing,
  and is reported as started and verified because the old output is still active.
  With a directory the plugin refuses (`OBS_OUTPUT_ACTIVE`), and `FreshRecording`
  holds.
- `recording_pending`: when a stop runs out of time the bridge returns
  `stopPending` and overwrites `outputState` with `finalizing` without looking at
  the read-back, also when the recording it sees is a new one that nobody asked
  to stop.
- `install_recovery`: when another program replaces or removes a published file just
  before the publication guard is active, the rollback of an upgrade cannot take that
  file away, does not put the previous files back, and then deletes the recovery
  directory with the only copy of them, while it reports `OBS_RECOVERY_REQUIRED`: in
  the trace neither version is left. The tests of the same situation a moment later
  assert that the backup is kept.

Smaller observations that are in the model and have no run of their own.

- Acceptance: `docs/real-obs-acceptance.md` (lines 33 and 34) says that the test scenes
  are removed and the original disposable scene is restored; the script creates the
  baseline scene, never removes it and ends on it, in `current` of `EvidenceEarned`. In
  attach mode an adapter that is there already is used, its run may end in evidence,
  and it is stopped at the end. When the construction of the adapter fails and its
  connection cannot be closed, only the exception holds it (`LeftOpenIsHeld`); the
  comment at `disposable_obs.py:465` counts on the runner having closed it. After a
  failed gate with a recording active OBS refuses to leave and the program waits until
  the user closes it. A user who starts a recording after the check of a graceful
  shutdown has it ended with OBS (`plugin-main.cpp:2187` to `2199` check, the window
  closes later), and the evidence is published all the same.
- Scene recordings: two explicit names of one request that differ only in letter case
  pass the checks of `start` (`scene-recording-session.cpp:537`; only the prefix is
  folded, lines 474 to 485), and on a disk that folds case two outputs write one file.
  `Exclusive` therefore speaks of names within a session and of files between sessions.
- Installer: between a look at a file and its use another program's file is moved
  aside (`install_cli.py:799`, `800`), overwritten (`809`, `811`; `850` and the move
  back at `1522`), deleted (`837`, `841`), or recorded as the installer's own (`811`,
  `812`); `ForeignKept` allows for these windows and no others. A file whose move or
  publication fails its check afterwards is in no list: the way back leaves it in the
  recovery directory or in the plug-in directory. An archive with a target below the
  receipt's own name is accepted and fails only when it is unpacked. An empty recovery
  directory, left by a failure before the first move, refuses every later upgrade. A
  kill under the POSIX guard leaves the directory read-only. A foreign file inside the
  recovery directory may be overwritten by a move.
- Typed sources: `create_source` with a subset of the settings creates the source and
  always reports a failure; its `enabled` is never read back. A filter of any kind
  may be switched or removed, though the documentation speaks of gain only. Stored
  settings out of the reviewed range make the read-back after a change fail.
- Scenes: a name of more than 256 characters anywhere in a list makes the operations
  that consult it fail, and `create_scene` only after its change. A created or removed
  scene beyond the end of a cut list cannot be seen. `trigger_transition` reads back
  the transition and not the scene. Positions from 2^15 pixels on that are no floats
  fail their read-back. A name of at most 256 characters but more bytes passes the
  bridge and is refused by the plugin.
- Overlays: on a small canvas two anchors coincide and the wrong one is read back; the
  size of a presentation overlay follows with the next frame, so that its anchor is
  first computed from the old size; a wall clock that is set back makes a verified
  activity look wrong; shortcuts of more than 32 bytes are refused by the plugin only.
- Everywhere: `OBS_TIMEOUT` after the request was sent does not say whether it was
  carried out (`AnsweredLate`).

## Proofs

A theorem holds for any set of calls, threads, clients, scenarios, operations, targets
or bundles and any bounds that satisfy the named assumptions of its module; `tlapm`
checks it without further hypotheses. The assumptions say that bounds are numbers
(`BoundsAssumption`, `OperationBounds`, `ListsAssumption`; `OutputLimit <= HistoryLimit`
in `LimitsAssumption`), that the
operations and codes given are among those of the code (`ConstantsAssumption`,
`CodesAssumption`), that a request names finitely many scenes (`ScenesAssumption`:
what the limits count can be counted), that the typed operations given are made as the
methods of the bridge make them and meet states of their part of OBS (`CallsAssumption`:
`IsOperation`, `IsWorld`), that each of the two versions is a list of distinct
files besides the receipt and that no file is not a file (`InstallAssumption`,
`FilesAssumption`), and that what is read from a manifest and an archive are lists
(`BundlesAssumption`).

Every inductive invariant was first checked by TLC as an invariant of the run it
belongs to, that of the installer also with other numbers of commands, drifts,
failing operations and kills than `MCLimit`.

| module | theorem | property |
|---|---|---|
| `UiDispatchProofs` | `TypeCorrect`, `SettledNeverRuns`, `DeadlineIsHonoured`, `SequenceIsCausal`, `Refinement` | `TypeOK`, `SettledNeverPerformed`, `DeadlineHonoured`, `SequenceCausal`, `ImplementsVendorCall` |
| `TransportProofs` | `AnswerIsOwn`, `ConnectionIsClean`, `Refinement` | `OwnAnswer`, `CleanConnection`, `ImplementsVendorCall` |
| `BridgeProofs` | `TypeCorrect`, `NoFalseAlarm`, `VerifiedIsBound` | `TypeOK`, `NoFalseSequenceAlarm`, `VerifiedOnPinned` |
| `BridgeOperationsProofs` | `OperationTyped`, `VerifiedOperationHeld`, `FailedOperationIsReal`, `RefusedOperationChangedNothing`, `EmittedActivityIsOurs` | its own `Typed` and `Stage`; `VerifiedHeld`, `FailureIsReal`, `RefusedChangedNothing`, `ActivityIsOurs` |
| `RecordingProofs` | `TypeCorrect`, `FinalizingIsExplained`, `RecordingIsFresh`, `StopIsOver` | `TypeOK`, `FinalizingExplained`, `FreshRecording`, `StoppedIsOver` |
| `SceneRecordingsProofs` | `LimitsHold`, `RecordingsAreExclusive`, `OutputsAreOwned`, `OthersAreLeftAlone`, `StopsHold` | `WithinLimit`, `Exclusive`, `NoOrphans`, `OnlyNamedStops`, `StopsAreTrue` |
| `DisposableRunProofs` | `LeavesAreAskedOnce`, `HostsAreHeld`, `ReportsAreFirst`, `AdaptersAreHeld`, `EvidenceIsTrue` | `AskedOnce`, `NeverAbandoned`, `FirstErrorReported`, `LeftOpenIsHeld`, `EvidenceEarned` |
| `InstallProofs` | `PreviousIsKept`, `ReportIsHonest`, `AcceptedBundlesFit`, `ForeignIsKept` | `PreviousSurvives`, `HonestReport`, `AcceptedFits`, `ForeignKept` |

The arguments.

- `UiDispatchProofs`. The inductive invariant says for each call what the stage
  of the UI thread and the state of the handler tell about the gate, the result
  and the reply (`QueueInv`, `GateInv`, `ReplyInv`): a settled reply goes with a
  gate that is cancelled or a task that decided not to run, which is what keeps a
  queued task from running later. `SequenceInv` bounds every number stamped by
  the counter, and what returned earlier by what a call will be given. The step
  simulation of `VendorCall` follows.
- `TransportProofs`. A response in the inbox is what the plugin answered to its
  call, and there is one per call at most (`InboxInv`). Before a thread has sent
  anything, nothing of it is on its way (`CallInv`); and a call that is over has
  nothing to come on the connection that is kept, unless it was interrupted
  (`LeftClean`, which is stronger than `CleanConnection` by what is still
  travelling). For the refinement: an error other than `OBS_UI_INDETERMINATE` is
  raised of a mutation only while its request is not, and will never be, on its way.
- `BridgeProofs`. The sequence the bridge keeps belongs to the pinned instance and
  says nothing of another (`PinInv`); only one thread holds an answer
  (`OneHolder`), so the sequence does not move until that answer has been
  checked (`ThreadInv`).
- `BridgeOperationsProofs`. The loop is short and its operations are many, so the work
  is in the operations, for each part of OBS in the same steps: which comparison goes
  with which request (`SourceForm`, ...); that a read-back which matches shows the goal,
  up to `Unseen` (`SourceMatchShows`, ...), and that one which fails or does not match
  shows that the goal is missed, up to `Unrecognised` (`SourceFailureShows`, ...); that
  what the plugin does leaves a state of the same make (`SourcesKept`, ...); and what an
  accepted answer, or a refusal, says of the state after it (`SourceAnswered`, ...).
  These meet in `Answer`, `ReadFails`, `ReadMatches` and `ReadMisses`. The invariant
  says that operation and state stay well made (`Typed`), what each phase implies
  (`Stage`), that while nobody else acted an accepted change is still there and
  can be read, so that a refusal by the read-back comes before any change
  (`ChangeStands`; OBS finishing by itself keeps it, `SettledReadable`), and that the
  number an activity was given is the caller's as long as the overlay is the same one
  (`NumberIsOurs`).
- `RecordingProofs`. Every step changes the recorder in one way (`Evolves`):
  numbers grow, and a recording that is over is never active again. That carries
  what a client knows about its request (`ClientInv`) over the steps of the
  others.
- `SceneRecordingsProofs`. Outputs start one by one, long after the checks of
  `start`, so neither `WithinLimit` nor `Exclusive` is inductive. The invariant
  speaks of `Reserved` instead: the active outputs and those that the start under
  way has created. Only `Begin` adds to it, all at once. The history stays within
  its limit because some session that is over can always be dropped, which is the
  least one (`LessIsWellFounded`, `OverFact`) and exists since fewer sessions can
  be active than the history may hold. `OnlyNamedStops` is an action property, shown
  for each action from the same invariant: what a rollback or a pruning takes away is
  the start's own or over, and what tidying up removes nobody writes.
- `DisposableRunProofs`. The programs are long and sequential, so there is a part
  of the invariant for each question, which says what holds at which place:
  where the program can be (`PlaceInv`), whether OBS has been asked to leave
  (`AskInv`), which error is known (`ErrorInv`), what is known of the process
  (`CodeInv`), who holds the adapter (`ServerInv`), what the script has done
  (`ScriptInv`), what of the evidence has been earned (`EvidenceInv`). First there is
  a lemma for each action that says field by field what it does (`SubmitFact`, ...),
  then one for each part.
- `InstallProofs`. `PreviousSurvives` has to hold at every place where a kill may
  come, so the invariant says where each previous file is, step by step: still in
  place and, if nobody touched it, the object that was captured (`WaitingInv`), or
  moved to the recovery directory (`MovedInv`, `KeptInv`), from where it was moved it
  stays away unless another program puts something there (`AwayInv`). A guarded new
  version is whole until the way back takes it away (`PublishedInv`); on the way back
  every previous file is somewhere (`SafeInv`), what has been passed is back
  (`BackInv`), and a guard that is still active and broken keeps the recovery
  directory from being retired (`GuardInv`). Between a look and the step that relies
  on it the invariant says which file is meant (`SeenInv`), that a file renamed and
  not yet confirmed is one of the captured objects or touched (`FlightInv`), and that
  what was recorded as published is what was staged or an object that took its place
  (`OwnInv`); such an object counts against the drifts that were made, like every
  other (`Adopted`). So what has been passed on the way back is in place, or was never
  known as moved (`Found`: `Back`, `Lost` or `Stray`). `AgeInv` says that an object
  another program will make is not on the disk yet, without which a replaced file
  could pass for the captured one. `AcceptedFact` shows that an accepted archive fits
  a disk that folds case. `ForeignKept` is an action property, shown from the same
  invariant in two parts: a step that moves, overwrites or removes a file is about the
  file it has looked at (`Respects`), and a look that lets it be made has seen the
  captured object, its own, or nothing (`Heeds`).

What the proofs changed. `Transport.SeenBy` had overlapping cases, which TLC resolves
in order and a proof cannot: the first is now exclusive. `InstallTransaction` started a
capture with counters and a guard left from the removal of a legacy install; a
transaction now starts from `Fresh`, as the function it models does. In
`DisposableRun` what stopping an adapter may leave is named (`Channels`, `Runs`,
`Left`), and an exception that goes to a handler is one operator (`Unwind`). Of the
report of a failed transaction the invariant found the exception that `HonestReport`
now names: a file that was renamed but not confirmed is not put back, and another
program may take it from the recovery directory.
`MCInstall` restricts `Spec` to fewer commands for TLC; the theorems are about `Spec`.

In the typed operations, cases that overlapped became chains of IF, and updates of a
record or a function are written with operators of the project (`With`, `Removed`,
`++`) in place of `:>`, `@@` and `SelectSeq`, which the prover cannot expand. Some
goals were true only of the values TLC was given. A volume or a position is also as
asked for when another client set a number that close to it (`Kept`), which the bridge
cannot tell apart and accepts; an overlay is also cleared when its activity has
expired, which is how the plugin reports it. The goals of media, of new items and of a
rebound capture now name the kind as well. `Unrecognised` lacked two reasons, a volume
whose single-precision value is not close to the number asked for and a transition
with a name that is too long. What had been left to the lists of `MCBridgeOperations`
is now said by `IsOperation`, `IsWorld` and `Possible`; the last removes no state from
the run `operations`.

Only model-checked.

- Liveness (`HandlersReturn`, `TasksDisposed`, `CallersReturn`, `OperationsReturn`,
  `FinalizingEnds`, `ProgramEnds`): fairness and ENABLED are beyond the prover.
- `GateIsExact` of `DisposableRun` compares functions of a scenario with its mark: a
  sound OBS passes the gate, and no other gets evidence, be it of another platform,
  another release of the plugin or another release of the package. Which scenarios are
  marked sound is decided where they are listed, in `MCDisposableRun`; the
  constant leaves it open, so the property does not follow for every choice.
- The properties of the runs that expect a violation.

## Abstractions

Requests carry no payload except what a property tells apart (a directory or
none; which scene and which file). Error codes are grouped by what they promise.
Clocks are small integers that tick between any two steps. The wall clock and the
monotonic clock run at the same speed; only their distance is converted
(`SteadyDeadline`). The schemas that the bridge and the plugin enforce on
arguments and responses add only more ways to a refusal (`Refuse`, `Reject`)
before anything is changed or after everything was. A bridge whose constructor
fails does nothing and is not modelled beyond `Construct`.

Typed operations. A position stands for the whole transform of an item and the
horizontal coordinate for both; numbers of items start again when a scene is made
again. That libobs cannot allocate an item or a source is left out, and of the
checks for scenes within scenes only the direct one is kept. In `CaptureControl` the
client area is left out (handled as the cursor), the validation of a window is one
look, a selector of title and program that fits several windows is OBS's own choice,
the 64 candidates of a list are never reached, and the windows change once within a
task. In the driver's view of OBS (`AcceptanceScript`) names, geometry and the
picture are left out.

Installer. Parent directories, links and modes other than the write bits are left
out (`Refuse` stands for their checks); times and contents of a file are one version.
Looks and uses of a file in the plug-in directory are steps of their own. Still one step
each: the copy of a file on the way back and the recording of its identity; the check
and the removal of a file in the recovery directory (`RetireFile`); the comparison of all
the files that make up a verification (`Identity`). A copy that fails leaves no partial
file, and the check of `Empty` that the directory is still the same object does not
fail.

The plugin does not set its flag when a recording is stopped by `StopOutput`, by
a hotkey or by another client: such a stop shows as `recording` until it is over.
That is visible in `Recording` and contradicts nothing the repository says.

## Not modelled

See `components` in `PROJECT.json` for each part.

- The life cycle of the plugin (load, post-load, exit event, unload) and, of the check
  of the outputs before a graceful shutdown, all but the recording (`Leaves`): short
  sequences of calls whose order OBS and obs-websocket decide, so that a model would
  assume what it should show.
- `sidecar-launcher.cpp` and the menu: one child process, started, terminated, killed.
- `dispatcher.py`, `deadline.py`: a thread-local value and an adapter of interfaces
  of the DCC server, an external package.
- Of the bridge: the field-by-field schemas of responses beyond what an operation
  compares, screenshots, hotkeys, the replay buffer and the virtual camera, which are
  the mutate-and-read-back loop of `Bridge` once more; and the composition of
  `start_scene_recordings` with `SceneRecordings`.
- Of the installer: how an archive is downloaded or found, and two installers at once.
- The classification of recorded files, what overlays draw, the finding of the shared
  runtime: pure readings or searches without state.

Scripts of the skill, packaging, build tools, CMake, tests and vendored headers
have no state that outlives a call and stay out.

Weak spots of the code that were seen and are not under `hazards`, because nothing
the repository says of them could be checked:

- `bridge.py:1877`: a start of scene recordings is accepted and its read-back fails;
  the outputs run on and the caller never learns the session.
- `bridge.py:2688`: `OBS_TIMEOUT` is raised of a mutation that was accepted too; the
  public code promises nothing (the errors of the transport do, and are checked).
- `plugin-main.cpp:2394`: a stop that does not come through StopRecording does not set
  the stop flag, and the status says recording while OBS finalizes.
- `plugin-main.cpp:3421`: an output may start between the check of a graceful shutdown
  and the exit it queues; in `DisposableRun` a user does that. `plugin-main.cpp:3592`:
  the provider may be unloaded before the plugin.
- `process.py:53`: the sidecar polls a process number, which another process may get.
- `install_cli.py:786`: a failed snapshot leaves an empty recovery directory, which
  refuses every later upgrade. `install_cli.py:173`: a kill under the POSIX guard leaves
  the directory read-only. `install_cli.py:439`: on POSIX nothing keeps two installers
  apart.
- `typed-source-control.cpp:738`: a filter of a kind nobody reviewed is switched before
  the read-back refuses it (`LateRefusal` in `BridgeOperations` names the exception).

What could be added next: an abstract installation that `InstallTransaction`
implements, and the composition of the bridge's read-back loops with
`SceneRecordings`.
