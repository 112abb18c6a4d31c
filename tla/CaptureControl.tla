---------------------------- MODULE CaptureControl ----------------------------
(***************************************************************************)
(* The capture of one exact window of another program: creation, rebinding,*)
(* change of method or audio, and bringing a minimised window back.         *)
(*                                                                          *)
(* A caller names a window by its process, its handle and its title.  The   *)
(* plugin adds when the process was created, and keeps all this with the    *)
(* source.  The windows are not OBS's: they may change at any moment, even  *)
(* within one task of the user-interface thread.  Such a task looks at them *)
(* at up to four instants; they change at most once between these.          *)
(*                                                                          *)
(* `c` is a record: whether the scene exists, the source of the name in     *)
(* question, how many items the scene has of it, whether they are visible,  *)
(* and the windows by handle.                                               *)
(***************************************************************************)
EXTENDS BridgeRequests, Functions

CONSTANT Drifts(_)      \* what the windows may become

NoWindow  == [pid |-> 0]
NoCapture == [kind |-> "none"]
Unbound   == [pid |-> 0]     \* of a capture that the user has made

----------------------------------------------------------------------------
(* The operations of the bridge. *)

CaptureRequest(request, window, expected, config, enabled) ==
  Asks("captures", request, "capture", [window |-> window, expected |-> expected, config |-> config, enabled |-> enabled],
       "GetWindowCaptureSource", "Capture")
CreateCaptureRequest(window, config, enabled) ==
  CaptureRequest("CreateWindowCaptureSource", window, window, config, enabled)
RebindCaptureRequest(expected, window, config, enabled) ==
  CaptureRequest("RebindWindowCaptureSource", window, expected, config, enabled)
SetCaptureMethodRequest(window, config, enabled) ==
  CaptureRequest("SetWindowCaptureMethod", window, window, config, enabled)
RestoreWindowRequest(window, exe) ==
  Asks("captures", "RestoreWindowCaptureCandidate", "capture", [window |-> window, exe |-> exe],
       "ListWindowCaptureCandidates", "Ready")

----------------------------------------------------------------------------
(* Windows. *)

IsWindows(windows) ==
  \A handle \in DOMAIN windows : windows[handle] # NoWindow =>
    DOMAIN windows[handle] = {"pid", "created", "title", "exe", "visible", "minimized", "sized", "restoring"}
Shown(windows, handle) == windows[handle] # NoWindow /\ windows[handle].visible
ValidateExactWindow(windows, named) ==
  IF ~Shown(windows, named.handle) THEN "OBS_WINDOW_NOT_FOUND"
  ELSE IF windows[named.handle].pid # named.pid \/ windows[named.handle].title # named.title THEN "OBS_WINDOW_IDENTITY_DRIFT"
  ELSE "ok"

\* The process is held open, so that another one cannot have got its number.
StillLive(windows, named, actual) ==
  /\ Shown(windows, named.handle)
  /\ \A part \in {"pid", "created", "title", "exe"} : windows[named.handle][part] = actual[part]

Binding(named, actual) == [created |-> actual.created, exe |-> actual.exe] ++ named
Selector(actual) == [title |-> actual.title, exe |-> actual.exe]
Ready(window) == window.visible /\ ~window.minimized /\ window.sized

----------------------------------------------------------------------------
(* The status of a capture, and the changes that end with it. *)

SettingsMatch(source, op, actual, parts) ==
  /\ source.binding = Binding(op.value.window, actual)
  /\ source.selector = Selector(actual)
  /\ \A part \in parts : source.config[part] = op.value.config[part]

\* window_capture_source_status: `first` and `last` are the windows at its two looks at them.
CaptureStatus(c, op, first, last) ==
  LET validated == ValidateExactWindow(first, op.value.window)
      actual    == first[op.value.window.handle]
  IN  IF validated # "ok" THEN validated
      ELSE IF ~c.scene THEN "OBS_SCENE_NOT_FOUND"
      ELSE IF c.source = NoCapture THEN "OBS_SOURCE_NOT_FOUND"
      ELSE IF c.source.kind # "window_capture" THEN "OBS_WINDOW_IDENTITY_DRIFT"
      ELSE IF c.items > 1 THEN "OBS_TARGET_AMBIGUOUS"
      ELSE IF c.items = 0 THEN "OBS_SCENE_ITEM_NOT_FOUND"
      ELSE IF /\ SettingsMatch(c.source, op, actual, {"cursor", "audio", "method"})
              /\ c.visible = op.value.enabled
              /\ StillLive(last, op.value.window, actual) THEN "ok"
      ELSE "OBS_WINDOW_IDENTITY_DRIFT"

\* The windows at the four instants of a task.
Glimpses(windows) ==
  {[i \in 1..4 |-> IF i < from THEN windows ELSE after] : from \in 2..4, after \in {windows} \cup {w \in Drifts(windows) : IsWindows(w) /\ DOMAIN w = DOMAIN windows}}
Now(c, seen) == [c EXCEPT !.windows = seen[4]]

\* A change is verified before it is answered, and undone if that fails.
Verify(c, changed, op, seen) ==
  LET status == CaptureStatus(changed, op, seen[3], seen[4])
  IN  IF status = "ok" THEN Accept(Now(changed, seen)) ELSE Refuse(Now(c, seen), status)

Live(op, seen) == StillLive(seen[2], op.value.window, seen[1][op.value.window.handle])
NewBinding(op, seen) ==
  LET actual == seen[1][op.value.window.handle]
  IN  [binding |-> Binding(op.value.window, actual), selector |-> Selector(actual)]

CreateCapture(c, op, seen) ==
  LET source == [kind |-> "window_capture", config |-> op.value.config] ++ NewBinding(op, seen)
  IN  IF ~c.scene THEN Refuse(Now(c, seen), "OBS_SCENE_NOT_FOUND")
      ELSE IF c.source # NoCapture THEN Refuse(Now(c, seen), "OBS_SOURCE_ALREADY_EXISTS")
      ELSE IF ~Live(op, seen) THEN Refuse(Now(c, seen), "OBS_WINDOW_IDENTITY_DRIFT")
      ELSE Verify(c, [c EXCEPT !.source = source, !.items = 1, !.visible = op.value.enabled], op, seen)

\* source_owned: the source is bound as the caller expects and set up as the caller wants it.
SourceOwned(c, op) ==
  /\ c.source.kind = "window_capture"
  /\ c.items = 1
  /\ c.source.binding # Unbound
  /\ \A part \in DOMAIN op.value.expected : c.source.binding[part] = op.value.expected[part]
  /\ c.source.config = op.value.config
  /\ c.visible = op.value.enabled
SourceMatchesWindow(c, op, seen) ==
  /\ c.source.kind = "window_capture"
  /\ c.items = 1
  /\ SettingsMatch(c.source, op, seen[1][op.value.window.handle], {"cursor"})
  /\ c.visible = op.value.enabled

ChangeCapture(c, op, seen) ==
  LET fits    == IF op.request = "RebindWindowCaptureSource" THEN SourceOwned(c, op) ELSE SourceMatchesWindow(c, op, seen)
      changed == IF op.request = "RebindWindowCaptureSource" THEN NewBinding(op, seen) ++ c.source
                 ELSE [c.source EXCEPT !.config = op.value.config]
  IN  IF ~c.scene THEN Refuse(Now(c, seen), "OBS_SCENE_NOT_FOUND")
      ELSE IF c.source = NoCapture THEN Refuse(Now(c, seen), "OBS_SOURCE_NOT_FOUND")
      ELSE IF c.items > 1 THEN Refuse(Now(c, seen), "OBS_TARGET_AMBIGUOUS")
      ELSE IF ~fits \/ ~Live(op, seen) THEN Refuse(Now(c, seen), "OBS_WINDOW_IDENTITY_DRIFT")
      ELSE Verify(c, [c EXCEPT !.source = changed], op, seen)

\* ShowWindowAsync only asks: the window comes back when its program gets to it, see Restored.
RestoreWindow(c, op, seen) ==
  LET handle    == op.value.window.handle
      now       == Now(c, seen)
      minimized == seen[3][handle] # NoWindow /\ seen[3][handle].minimized
  IN  IF seen[1][handle].exe # op.value.exe \/ ~Live(op, seen) THEN Refuse(now, "OBS_WINDOW_IDENTITY_DRIFT")
      ELSE IF ~minimized THEN Accept(now)
      ELSE IF seen[4][handle] = NoWindow THEN Refuse(now, "OBS_MUTATION_REJECTED")
      ELSE Accept([now EXCEPT !.windows[handle].restoring = TRUE]) \cup Refuse(now, "OBS_MUTATION_REJECTED")
Restored(c) ==
  [c EXCEPT !.windows = [handle \in DOMAIN @ |->
     IF @[handle] # NoWindow /\ @[handle].restoring
     THEN [@[handle] EXCEPT !.minimized = FALSE, !.restoring = FALSE] ELSE @[handle]]]

PerformSeeing(c, op, seen) ==
  LET validated == ValidateExactWindow(seen[1], op.value.window)
  IN  IF validated # "ok" THEN Refuse(Now(c, seen), validated) ELSE
      CASE op.request = "CreateWindowCaptureSource" -> CreateCapture(c, op, seen)
        [] op.request = "RestoreWindowCaptureCandidate" -> RestoreWindow(c, op, seen)
        [] OTHER -> ChangeCapture(c, op, seen)
PerformOnCapture(c, op) == UNION {PerformSeeing(c, op, seen) : seen \in Glimpses(c.windows)}

----------------------------------------------------------------------------
(* What the bridge reads back.  A status echoes the request: that it answers is the comparison. *)

\* The list of candidates holds the visible windows; the bridge looks for the one it named.
Candidate(windows, value) ==
  LET window == windows[value.window.handle]
  IN  IF ValidateExactWindow(windows, value.window) = "ok" /\ window.exe = value.exe THEN window ELSE NoWindow
ReadCapture(c, op) ==
  IF op.read = "ListWindowCaptureCandidates" THEN Answered(Candidate(c.windows, op.value))
  ELSE LET status == CaptureStatus(c, op, c.windows, c.windows)
       IN  IF status = "ok" THEN Answered(c.source) ELSE Failed(status)
CaptureMatches(op, seen) == op.matches = "Ready" => seen # NoWindow /\ Ready(seen)
=============================================================================
