------------------------- MODULE MCBridgeOperations -------------------------
(* Instances of BridgeOperations: the calls of each kind, the states of OBS they meet and   *)
(* what the user and another agent do meanwhile, with names and values of every sort that   *)
(* the bridge or the plugin tells apart.                                                    *)
EXTENDS BridgeOperations

MCDurations == 1..20
MCOpacities == 20..100
MCMargins   == 8..160
MCWidths    == 360..960

----------------------------------------------------------------------------
(* Sources: a scene, a colour source and a player. *)

Settings == {[width |-> 2, height |-> 2, color |-> 0], [width |-> 3, height |-> 2, color |-> 1],
             [width |-> 2, height |-> 2, color |-> 4]}
Partial == {[width |-> 3], [color |-> 4], [height |-> 0]}
Filters == {Nothing, NewFilter(0, TRUE), NewFilter(4, FALSE), [NewFilter(0, TRUE) EXCEPT !.kind = "noise_suppress_filter"]}
Volumes == {0, 2^20, 2^24 + 1, 20 * 2^20}
Of(kind) == [NewColorSource([width |-> 1], TRUE) EXCEPT !.kind = kind]

SourceRequests == {"CreateSource", "RenameSource", "RemoveSource", "SetInputSettings", "CreateFilter", "SetFilterEnabled",
                   "SetFilterSettings", "RemoveFilter", "SetSourceVolume", "SetSourceMute", "SetSourceMonitorType",
                   "PlayMedia", "PauseMedia", "RestartMedia", "StopMedia", "SeekMedia"}
SourceOperations(request) ==
  CASE request = "CreateSource" ->
         {CreateSourceRequest(scene, name, given, on) : scene \in {"stage", "color"}, name \in {"new", "color"},
                                                        given \in Settings \cup Partial, on \in BOOLEAN}
    [] request = "RenameSource" -> {RenameSourceRequest(n, new) : n \in {"stage", "color", "gone"}, new \in {"new", "color", "clip"}}
    [] request = "RemoveSource" -> {RemoveSourceRequest(n) : n \in {"stage", "color", "gone"}}
    [] request = "SetInputSettings" ->
         {SetInputSettingsRequest(n, given) : n \in {"color", "clip"}, given \in Settings \cup Partial}
         \cup {SetPropertyValueRequest("color", p, 3) : p \in Properties}
    [] request = "CreateFilter"      -> {CreateFilterRequest("color", 1, on) : on \in BOOLEAN}
    [] request = "SetFilterEnabled"  -> {SetFilterEnabledRequest("color", on) : on \in BOOLEAN}
    [] request = "SetFilterSettings" -> {SetFilterSettingsRequest("color", 1)}
    [] request = "RemoveFilter"      -> {RemoveFilterRequest("color")}
    [] request = "SetSourceVolume"   -> {SetSourceVolumeRequest("color", v) : v \in Volumes}
    [] request = "SetSourceMute"     -> {SetSourceMuteRequest("color", v) : v \in BOOLEAN}
    [] request = "SetSourceMonitorType" -> {SetSourceMonitorTypeRequest("color", v) : v \in {"none", "monitor_only"}}
    [] request = "SeekMedia"         -> {SeekMediaRequest(n, 5) : n \in {"clip", "color"}}
    [] request = "PauseMedia"        -> {MediaRequest(request, "clip", "paused")}
    [] request = "StopMedia"         -> {MediaRequest(request, "clip", "stopped")}
    [] OTHER                         -> {MediaRequest(request, n, "playing") : n \in {"clip", "color"}}

SourceWorlds ==
  {[stage |-> Of("scene"),
    color |-> [Of("color_source_v3") EXCEPT !.settings = given, !.filter = filter],
    clip  |-> [Of("media") EXCEPT !.media = media]] :
     given \in Settings, filter \in Filters, media \in {"playing", "paused", "stopped"}}

Edited(source) ==
  {[source EXCEPT !.settings.width = 1], [source EXCEPT !.settings.color = 4], [source EXCEPT !.shown = ~@],
   [source EXCEPT !.volume = 5], [source EXCEPT !.muted = ~@], [source EXCEPT !.monitor = "monitor_and_output"],
   [source EXCEPT !.media = "stopped"], [source EXCEPT !.cursor = 9], [source EXCEPT !.filter = Nothing],
   [source EXCEPT !.filter = NewFilter(2, FALSE)]}
SourceChanges(s) ==
  UNION {{With(s, name, source) : source \in Edited(s[name])} : name \in DOMAIN s \ {"stage"}}
  \cup {Restrict(s, DOMAIN s \ {name}) : name \in DOMAIN s \ {"stage"}}
  \cup {With(s, name, Of("color_source_v3")) : name \in {"new", "color"} \ DOMAIN s}

----------------------------------------------------------------------------
(* Scenes: lists that fit, that are cut, and that hold names somebody refuses. *)

SceneNames == {"A", "B", "C", "long", "wide"}
SceneRequests == {"SetCurrentScene", "CreateScene", "RemoveScene", "RenameScene", "CreateSceneItem", "SetSceneItemEnabled",
                  "SetSceneItemTransform", "RemoveSceneItem", "SetCurrentTransition", "TriggerTransition", "SetStudioMode",
                  "SetCurrentPreviewScene", "TriggerStudioModeTransition", "SetCurrentProfile",
                  "SetCurrentSceneCollection"}
SceneOperations(request) ==
  CASE request = "SetCurrentScene"   -> {SetCurrentSceneRequest(n) : n \in SceneNames}
    [] request = "CreateScene"       -> {CreateSceneRequest(n) : n \in SceneNames \cup {"cam"}}
    [] request = "RemoveScene"       -> {RemoveSceneRequest(n) : n \in {"A", "B", "C"}}
    [] request = "RenameScene"       -> {RenameSceneRequest(n, new) : n \in {"A", "B"}, new \in {"B", "C", "cam", "long", "wide"}}
    [] request = "CreateSceneItem"   -> {CreateSceneItemRequest("A", source, kind, on) :
                                           source \in {"cam", "A", "B", "gone"}, kind \in {None, "color", "scene"}, on \in BOOLEAN}
    [] request = "SetSceneItemEnabled"   -> {SetSceneItemEnabledRequest("A", id, on) : id \in 1..2, on \in BOOLEAN}
    [] request = "SetSceneItemTransform" -> {SetSceneItemTransformRequest("A", 1, v) : v \in {7, 2^24 + 1, 2^25 + 1, 2^25 + 2}}
    [] request = "RemoveSceneItem"       -> {RemoveSceneItemRequest(n, 1) : n \in {"A", "C"}}
    [] request = "SetCurrentTransition"  -> {SetCurrentTransitionRequest(n, d) : n \in {"cut", "fade", "wipe"}, d \in {-1, 1, 3}}
    [] request = "TriggerTransition"     -> {TriggerTransitionRequest(n) : n \in {"A", "B", "C"}}
    [] request = "SetStudioMode"         -> {SetStudioModeRequest(on) : on \in BOOLEAN}
    [] request = "SetCurrentPreviewScene" -> {SetCurrentPreviewSceneRequest(n) : n \in {"A", "B", "C"}}
    [] request = "TriggerStudioModeTransition" -> {TriggerStudioModeTransitionRequest}
    [] request = "SetCurrentProfile"     -> {SetCurrentProfileRequest(n) : n \in {"home", "work", "gone"}}
    [] OTHER                             -> {SetCurrentSceneCollectionRequest(n) : n \in {"one", "two", "gone"}}

Item == [source |-> "cam", kind |-> "color", enabled |-> TRUE, position |-> 0]
Graph(order, current, preview, swaps) ==
  [order |-> order, inputs |-> [cam |-> "color"], current |-> current,
   items |-> [n \in Range(order) |-> IF n = "A" THEN <<Item>> ELSE <<>>],
   studio |-> preview # None, preview |-> preview, swaps |-> swaps, swapping |-> None,
   transition |-> "cut", duration |-> 2, transitions |-> <<"cut", "fade">>,
   profile |-> "home", profiles |-> <<"home", "work">>, collection |-> "one", collections |-> <<"one", "two">>]
Graphs ==
  {Graph(order, "A", None, FALSE) : order \in {<<"A">>, <<"A", "B">>, <<"A", "B", "C">>, <<"A", "long">>, <<"A", "wide">>}}
  \cup {Graph(<<"A", "B">>, "A", preview, swaps) : preview \in {"A", "B"}, swaps \in BOOLEAN}
SceneWorlds(request) ==
  CASE request = "SetCurrentTransition" ->
         {[Graph(<<"A">>, "A", None, FALSE) EXCEPT !.transitions = names] :
            names \in {<<"cut", "fade">>, <<"fade", "fade">>, <<"cut", "fade", "wipe">>, <<"cut", "long">>}}
    [] request \in {"SetCurrentProfile", "SetCurrentSceneCollection"} ->
         {[Graph(<<"A">>, "A", None, FALSE) EXCEPT !.profiles = <<"home", last>>, !.collections = <<"one", last>>] :
            last \in {"work", "two", "long"}}
         \cup {[Graph(<<"A">>, "A", None, FALSE) EXCEPT !.profiles = <<"home", "work", "p">>, !.collections = <<"one", "two", "c">>]}
    [] OTHER -> Graphs

\* What the user and other agents do to scenes.
Meddling == {"SetCurrentScene", "CreateScene", "RemoveScene", "RenameScene", "SetSceneItemEnabled", "RemoveSceneItem",
             "SetCurrentTransition", "SetStudioMode", "SetCurrentPreviewScene", "SetCurrentProfile", "SetCurrentSceneCollection"}
SceneChanges(g) ==
  UNION {UNION {{outcome.after : outcome \in PerformOnGraph(g, o)} : o \in SceneOperations(request)} : request \in Meddling}
  \ {g}

----------------------------------------------------------------------------
(* Overlays: a canvas where all the anchors differ and one where some coincide. *)

Layouts(kind) ==
  IF kind = "agent" THEN {[anchor |-> a, opacity |-> 20, margin |-> m] : a \in Anchors, m \in {7, 48, 50}}
  ELSE {[anchor |-> a, opacity |-> 20, margin |-> 50, width |-> w] : a \in Anchors, w \in {360, 520}}
OverlayRequests == {"CreateOverlay", "SetOverlayLayout", "EmitActivity", "ClearOverlay", "UpdatePresentation"}
OverlayOperations(request) ==
  CASE request = "CreateOverlay" ->
         {CreateOverlayRequest("agent", scene, [anchor |-> a]) : scene \in {"A", "C"}, a \in Anchors}
         \cup {CreateOverlayRequest("presentation", "A", layout) : layout \in Layouts("presentation")}
    [] request = "SetOverlayLayout" ->
         UNION {{SetOverlayLayoutRequest(kind, "A", layout) : layout \in Layouts(kind)} : kind \in {"agent", "presentation"}}
    [] request = "EmitActivity" ->
         {EmitActivityRequest("me", "A", "agent", activity, d) : activity \in {"click", LongShortcut}, d \in {0, 4, 20}}
    [] request = "ClearOverlay" -> {ClearOverlayRequest("A")}
    [] OTHER -> {UpdatePresentationRequest("A", rows, on) : rows \in {0, 3}, on \in BOOLEAN}

Canvases == {[width |-> 1920, height |-> 1080], [width |-> 720, height |-> 480]}
Empty(canvas) == [scenes |-> {"A", "B"}, places |-> <<>>, source |-> NoSource, size |-> AgentSize, canvas |-> canvas,
                  clock |-> 10, created |-> 0]
OverlayWorlds ==
  LET Start(canvas) ==
        {Empty(canvas), [Empty(canvas) EXCEPT !.source = [kind |-> "image"]]}
        \cup {outcome.after : outcome \in UNION {PerformOnOverlay(Empty(canvas), o) :
                o \in {CreateOverlayRequest("agent", scene, [anchor |-> "top_left"]) : scene \in {"A", "B"}}
                      \cup {CreateOverlayRequest("presentation", "A", [anchor |-> "top_right", opacity |-> 88, margin |-> 48,
                                                                       width |-> 520])}}}
  IN  UNION {Start(canvas) : canvas \in Canvases}

OtherAgent ==
  {EmitActivityRequest("other", "A", agent, "click", 4) : agent \in {"agent", "helper"}}
  \cup {ClearOverlayRequest("A"), CreateOverlayRequest("agent", "A", [anchor |-> "bottom_left"]),
        CreateOverlayRequest("agent", "B", [anchor |-> "top_right"]),
        SetOverlayLayoutRequest("agent", "B", [anchor |-> "top_right", opacity |-> 50, margin |-> 8]),
        UpdatePresentationRequest("A", 5, TRUE)}
\* The user drags the item, removes the source, or removes it and an agent makes it again; time
\* passes; the wall clock is set back.
OverlayChanges(o) ==
  (UNION {{outcome.after : outcome \in PerformOnOverlay(o, other)} : other \in OtherAgent}
   \cup {[o EXCEPT !.places = [scene \in DOMAIN @ |-> [x |-> 333, y |-> 333]]],
         [o EXCEPT !.places = <<>>, !.source = NoSource, !.size = AgentSize]}
   \cup {outcome.after : outcome \in PerformOnOverlay([o EXCEPT !.places = <<>>, !.source = NoSource],
                                                     CreateOverlayRequest("agent", "A", [anchor |-> "top_left"]))}
   \cup {[o EXCEPT !.clock = @ + by] : by \in {-2, 3, 20}})
  \ {o}

----------------------------------------------------------------------------
(* Captures: two windows of one program, which may be closed, hidden, renamed or minimised, *)
(* and whose process may end and leave its number and its handles to another.               *)

Game == [pid |-> 1, created |-> 1, title |-> "game", exe |-> "a", visible |-> TRUE, minimized |-> FALSE, sized |-> TRUE,
         restoring |-> FALSE]
Named(handle) == [handle |-> handle, pid |-> 1, title |-> "game"]
Configs == [cursor : BOOLEAN, audio : BOOLEAN, method : {"automatic", "bitblt"}]
Plain == [cursor |-> TRUE, audio |-> FALSE, method |-> "automatic"]

MCDrifts(windows) ==
  UNION {{[windows EXCEPT ![handle] = NoWindow], [windows EXCEPT ![handle].visible = ~@], [windows EXCEPT ![handle].title = "menu"],
          [windows EXCEPT ![handle].minimized = ~@], [windows EXCEPT ![handle] = [Game EXCEPT !.pid = 2, !.exe = "b"]]} :
            handle \in {h \in DOMAIN windows : windows[h] # NoWindow}}

CaptureRequests == {"CreateWindowCaptureSource", "RebindWindowCaptureSource", "SetWindowCaptureMethod", "RestoreWindowCaptureCandidate"}
CaptureOperations(request) ==
  CASE request = "CreateWindowCaptureSource" -> {CreateCaptureRequest(Named(1), Plain, on) : on \in BOOLEAN}
    [] request = "RebindWindowCaptureSource" ->
         {RebindCaptureRequest(Named(old), Named(new), config, TRUE) :
            old \in 1..2, new \in 1..2, config \in {Plain, [Plain EXCEPT !.audio = TRUE]}}
    [] request = "SetWindowCaptureMethod" -> {SetCaptureMethodRequest(Named(1), config, TRUE) : config \in Configs}
    [] OTHER -> {RestoreWindowRequest(Named(1), exe) : exe \in {"a", "b"}}

CaptureOf(handle, config) ==
  [kind |-> "window_capture", config |-> config, binding |-> Binding(Named(handle), Game), selector |-> Selector(Game)]
CaptureWorlds ==
  LET Free == [scene |-> TRUE, source |-> NoCapture, items |-> 0, visible |-> FALSE, windows |-> [handle \in 1..2 |-> Game]]
      Bare == {Free, [Free EXCEPT !.source = [kind |-> "image"]], [Free EXCEPT !.scene = FALSE],
               [Free EXCEPT !.windows[1].minimized = TRUE], [Free EXCEPT !.windows[1].sized = FALSE]}
      Held(source) == [Free EXCEPT !.source = source, !.items = 1, !.visible = TRUE]
  IN  Bare \cup {Held(CaptureOf(handle, Plain)) : handle \in 1..2}
      \cup {Held([CaptureOf(1, Plain) EXCEPT !.binding = Unbound]), [Held(CaptureOf(1, Plain)) EXCEPT !.items = 2]}

\* The process ends and another gets its number, its handles and its titles.
Reincarnated(windows) ==
  [handle \in DOMAIN windows |-> IF windows[handle] = NoWindow THEN [Game EXCEPT !.created = 2]
                                 ELSE [windows[handle] EXCEPT !.created = 2]]
CaptureChanges(c) ==
  ({[c EXCEPT !.windows = windows] : windows \in MCDrifts(c.windows) \cup {Reincarnated(c.windows)}}
   \cup (IF c.source = NoCapture \/ c.source.kind # "window_capture" THEN {}
         ELSE {[c EXCEPT !.source = NoCapture, !.items = 0], [c EXCEPT !.visible = ~@], [c EXCEPT !.items = 0],
               [c EXCEPT !.items = 2], [c EXCEPT !.source.config.audio = ~@], [c EXCEPT !.source.config.cursor = ~@],
               [c EXCEPT !.source.selector.title = "menu"]})
   \cup UNION {{outcome.after : outcome \in PerformOnCapture(c, other)} :
                other \in {RebindCaptureRequest(Named(1), Named(2), Plain, TRUE), CreateCaptureRequest(Named(2), Plain, TRUE)}})
  \ {c}

----------------------------------------------------------------------------
MCRequests == SourceRequests \cup SceneRequests \cup OverlayRequests \cup CaptureRequests
MCOperations(request) ==
  CASE request \in SourceRequests -> SourceOperations(request)
    [] request \in SceneRequests  -> SceneOperations(request)
    [] request \in CaptureRequests -> CaptureOperations(request)
    [] OTHER                      -> OverlayOperations(request)
MCWorlds(o) ==
  CASE o.domain = "sources" -> SourceWorlds
    [] o.domain = "scenes"  -> SceneWorlds(o.request)
    [] o.domain = "captures" -> CaptureWorlds
    [] OTHER                -> OverlayWorlds
MCChanges(o, w) ==
  CASE o.domain = "sources" -> SourceChanges(w)
    [] o.domain = "scenes"  -> SceneChanges(w)
    [] o.domain = "captures" -> CaptureChanges(w)
    [] OTHER                -> OverlayChanges(w)
=============================================================================
