-------------------------- MODULE BridgeOperations --------------------------
(***************************************************************************)
(* One typed operation of ObsControlBridge, from the call to its answer,    *)
(* while others change OBS: the user, another agent, OBS itself.            *)
(*                                                                          *)
(* The operation may first consult a list or a status, then sends one       *)
(* request, then reads back what it asked for until the answer is right,    *)
(* the attempts are spent or the deadline passes.  Each of these is a task  *)
(* of its own on OBS's user-interface thread; anything may happen between.  *)
(***************************************************************************)
EXTENDS SourceControl, SceneGraph, OverlayControl, CaptureControl

CONSTANTS
  Attempts,    \* postcondition_attempts
  MaxChanges,  \* how often others change OBS (bound of the model)
  Requests,      \* the kinds of operation called
  Operations(_), \* the operations of a kind
  Worlds(_),     \* the states of OBS an operation may meet
  Changes(_, _)  \* what others may make of a state of OBS, beside what OBS does by itself

ASSUME OperationBounds == Attempts \in Nat \ {0} /\ MaxChanges \in Nat

VARIABLES
  op,        \* the operation
  world,     \* the part of OBS it is about
  phase,     \* where it is: "called", "selected", "reading", "done"
  known,     \* what it has learnt: a number or a status
  tries,     \* read-backs that did not match
  result,    \* how it ended
  changes,   \* how often others changed OBS
  performed, \* history: whether the request changed OBS
  held       \* history: whether what was asked for held when OBS was last asked

vars == <<op, world, phase, known, tries, result, changes, performed, held>>
call == <<op, phase, known, tries, result, performed, held>>

----------------------------------------------------------------------------
(* The operation on whichever part of OBS it is about. *)

Refused(o) ==
  \/ o.domain = "sources" /\ o.request \in {"CreateSource", "SetInputSettings"} /\ ~NormalizedInput(SettingsOf(o))
  \/ o.domain = "sources" /\ o.request = "RenameSource" /\ o.value = o.name
  \/ o.domain = "scenes" /\ NameRefused(o)
  \/ o.domain = "overlays" /\ o.matches = "Layout" /\ ~LayoutAccepted(o.value.kind, o.value.layout)
  \/ o.domain = "overlays" /\ o.matches = "Activity" /\ o.value.duration \notin Durations

Consult ==
  IF op.domain = "overlays" THEN Answered(0) ELSE Consulted(world, op)
Select(seen) ==
  IF op.domain # "overlays" THEN Selected(op, seen)
  ELSE IF op.name \in world.scenes THEN "unique" ELSE "OBS_SCENE_NOT_FOUND"

Perform ==
  CASE op.domain = "sources" -> PerformOnSource(world, op)
    [] op.domain = "scenes"  -> PerformOnGraph(world, op)
    [] op.domain = "captures" -> PerformOnCapture(world, op)
    [] OTHER                 -> PerformOnOverlay(world, op)

\* The windows are not OBS's to change.
Changed(before, after) ==
  IF op.domain = "captures" THEN [before EXCEPT !.windows = after.windows] # after ELSE before # after

Read ==
  CASE op.domain = "sources" -> CheckSource(op, ReadSource(world, op))
    [] op.domain = "scenes"  -> ReadGraph(world, op, known)
    [] op.domain = "captures" -> ReadCapture(world, op)
    [] OTHER                 -> ReadOverlay(world, op)

Matches(seen) ==
  CASE op.domain = "sources" -> SourceMatches(op, seen)
    [] op.domain = "scenes"  -> GraphMatches(op, known, seen)
    [] op.domain = "captures" -> CaptureMatches(op, seen)
    [] OTHER                 -> OverlayMatches(op, known, seen)

----------------------------------------------------------------------------
(* What the caller asked for, stated on OBS itself. *)

Given(stored, asked) == \A p \in DOMAIN asked : stored[p] = asked[p]
\* A number that was asked for, as OBS keeps it or not far from it.
Kept(stored, asked) == stored = Single(asked) \/ Close(stored, asked)

GoalOnSource(o, source) ==
  CASE o.request = "CreateSource"         -> /\ source.kind = "color_source_v3" /\ source.shown = o.value.enabled
                                             /\ Given(source.settings, o.value.settings)
    [] o.request = "SetInputSettings"     -> source.kind = "color_source_v3" /\ Given(source.settings, o.value)
    [] o.request = "CreateFilter"         -> /\ source.filter.kind = "gain_filter" /\ source.filter.db = o.value.db
                                             /\ source.filter.enabled = o.value.enabled
    [] o.request = "SetFilterEnabled"     -> source.filter # Nothing /\ source.filter.enabled = o.value
    [] o.request = "SetFilterSettings"    -> source.filter.kind = "gain_filter" /\ source.filter.db = o.value
    [] o.request = "RemoveFilter"         -> source.filter = Nothing
    [] o.request = "SetSourceVolume"      -> Kept(source.volume, o.value)
    [] o.request = "SetSourceMute"        -> source.muted = o.value
    [] o.request = "SetSourceMonitorType" -> source.monitor = o.value
    [] o.request = "SeekMedia"            -> source.kind = "media" /\ Close(source.cursor, o.value)
    [] OTHER                              -> source.kind = "media" /\ source.media = o.value
SourceGoal(o, s) ==
  CASE o.request = "RenameSource" -> o.value \in DOMAIN s
    [] o.request = "RemoveSource" -> o.name \notin DOMAIN s
    [] OTHER                      -> o.name \in DOMAIN s /\ GoalOnSource(o, s[o.name])

ItemGoal(o, item) ==
  CASE o.request = "CreateSceneItem"     -> /\ item.source = o.value.source /\ item.enabled = o.value.enabled
                                            /\ o.value.kind \in {None, item.kind}
    [] o.request = "SetSceneItemEnabled" -> item.source # None /\ item.enabled = o.value.enabled
    [] OTHER                             -> item.source # None /\ Kept(item.position, o.value.position)
SceneGoal(o, g, k) ==
  CASE o.request \in {"SetCurrentScene", "TriggerTransition"} -> g.current = o.name
    [] o.request = "CreateScene" -> o.name \in Scenes(g)
    [] o.request = "RemoveScene" -> o.name \notin Scenes(g)
    [] o.request = "RenameScene" -> o.value \in Scenes(g) /\ o.name \notin Scenes(g)
    [] o.request = "RemoveSceneItem" -> o.name \notin Scenes(g) \/ ~Exists(g, o.name, o.value.item)
    [] o.request = "SetCurrentTransition" -> g.transition = o.name /\ o.value \in {-1, g.duration}
    [] o.request = "SetStudioMode" -> g.studio = o.value
    [] o.request = "SetCurrentPreviewScene" -> g.preview = o.name
    [] o.request = "TriggerStudioModeTransition" ->
         g.current = k.preview /\ g.preview \in {k.program, k.preview}
    [] o.request = "SetCurrentProfile" -> g.profile = o.name
    [] o.request = "SetCurrentSceneCollection" -> g.collection = o.name
    [] OTHER -> LET id == IF o.request = "CreateSceneItem" THEN k ELSE o.value.item
                IN  o.name \in Scenes(g) /\ id \in DOMAIN g.items[o.name] /\ ItemGoal(o, g.items[o.name][id])

\* An overlay stands where its anchor says when it has its final size.
Anchored(o, w) == At(w.places[o.name], AnchorPosition(w.canvas, SizeOf(w.source), o.value.layout.anchor, w.source.margin))
OverlayGoal(o, w, k) ==
  /\ Bound(w, o)
  /\ CASE o.matches = "Layout"   -> /\ Given(w.source, Restrict(o.value.layout, DOMAIN o.value.layout \ {"anchor"}))
                                    /\ Anchored(o, w)
       [] o.matches = "Activity" -> /\ w.source.active /\ w.source.sequence = k /\ w.source.expires > w.clock
                                    /\ Given(w.source, [part \in {"agent", "activity", "duration"} |-> o.value[part]])
       [] o.matches = "Cleared"  -> (w.source.active => w.source.expires <= w.clock) /\ w.source.sequence = k
       [] OTHER                  -> w.source.rows = o.value.rows /\ w.source.visible = o.value.visible

\* The source is bound to the window that has this handle now, not to one that had it before, and
\* OBS looks for that window.
CaptureGoal(o, w) ==
  LET named  == o.value.window
      window == w.windows[named.handle]
  IN  /\ Shown(w.windows, named.handle)
      /\ window.pid = named.pid /\ window.title = named.title
      /\ IF o.matches = "Ready" THEN window.exe = o.value.exe /\ Ready(window)
         ELSE /\ w.scene /\ w.items = 1 /\ w.visible = o.value.enabled
              /\ w.source.kind = "window_capture" /\ Given(w.source.config, o.value.config)
              /\ w.source.binding = Binding(named, window) /\ w.source.selector = Selector(window)

Goal(w, k) ==
  CASE op.domain = "sources" -> SourceGoal(op, w)
    [] op.domain = "scenes"  -> SceneGoal(op, w, k)
    [] op.domain = "captures" -> CaptureGoal(op, w)
    [] OTHER                 -> OverlayGoal(op, w, k)

----------------------------------------------------------------------------
(* What the operations and the states of OBS are made of. *)

IsRecord(r, fields) == r = [field \in fields |-> r[field]]

IsSourceOperation(o) ==
  LET v == o.value
  IN  \/ /\ o.request = "CreateSource" /\ o = CreateSourceRequest(v.scene, o.name, v.settings, v.enabled)
         /\ IsRecord(v.settings, DOMAIN v.settings) /\ DOMAIN v.settings \subseteq Properties
      \/ o.request = "RenameSource" /\ o = RenameSourceRequest(o.name, v)
      \/ o.request = "RemoveSource" /\ o = RemoveSourceRequest(o.name)
      \/ o.request = "SetInputSettings" /\ o = SetInputSettingsRequest(o.name, v) /\ DOMAIN v \subseteq Properties
      \/ o.request = "CreateFilter" /\ o = CreateFilterRequest(o.name, v.db, v.enabled) /\ NormalizedFilter(v.db)
      \/ o.request = "SetFilterEnabled" /\ o = SetFilterEnabledRequest(o.name, v)
      \/ o.request = "SetFilterSettings" /\ o = SetFilterSettingsRequest(o.name, v) /\ NormalizedFilter(v)
      \/ o.request = "RemoveFilter" /\ o = RemoveFilterRequest(o.name)
      \/ o.request = "SetSourceVolume" /\ o = SetSourceVolumeRequest(o.name, v)
      \/ o.request = "SetSourceMute" /\ o = SetSourceMuteRequest(o.name, v)
      \/ o.request = "SetSourceMonitorType" /\ o = SetSourceMonitorTypeRequest(o.name, v)
      \/ o.request = "SeekMedia" /\ o = SeekMediaRequest(o.name, v)
      \/ o.request \in {"PlayMedia", "PauseMedia", "RestartMedia", "StopMedia"} /\ o = MediaRequest(o.request, o.name, v)

IsSceneOperation(o) ==
  LET v == o.value
  IN  \/ o.request = "SetStudioMode" /\ o = SetStudioModeRequest(v)
      \/ o.request = "TriggerStudioModeTransition" /\ o = TriggerStudioModeTransitionRequest
      \/ /\ o.name # None
         /\ \/ o.request = "SetCurrentScene" /\ o = SetCurrentSceneRequest(o.name)
            \/ o.request = "CreateScene" /\ o = CreateSceneRequest(o.name)
            \/ o.request = "RemoveScene" /\ o = RemoveSceneRequest(o.name)
            \/ o.request = "RenameScene" /\ o = RenameSceneRequest(o.name, v) /\ v # None
            \/ /\ o.request = "CreateSceneItem" /\ v.source # None
               /\ o = CreateSceneItemRequest(o.name, v.source, v.kind, v.enabled)
            \/ o.request = "SetSceneItemEnabled" /\ o = SetSceneItemEnabledRequest(o.name, v.item, v.enabled)
            \/ o.request = "SetSceneItemTransform" /\ o = SetSceneItemTransformRequest(o.name, v.item, v.position)
            \/ o.request = "RemoveSceneItem" /\ o = RemoveSceneItemRequest(o.name, v.item)
            \/ o.request = "SetCurrentTransition" /\ o = SetCurrentTransitionRequest(o.name, v)
            \/ o.request = "TriggerTransition" /\ o = TriggerTransitionRequest(o.name)
            \/ o.request = "SetCurrentPreviewScene" /\ o = SetCurrentPreviewSceneRequest(o.name)
            \/ o.request = "SetCurrentProfile" /\ o = SetCurrentProfileRequest(o.name)
            \/ o.request = "SetCurrentSceneCollection" /\ o = SetCurrentSceneCollectionRequest(o.name)

IsLayout(kind, layout) ==
  /\ DOMAIN layout \subseteq {"anchor", "opacity", "margin"} \cup (IF kind = "presentation" THEN {"width"} ELSE {})
  /\ "anchor" \in DOMAIN layout
IsOverlayOperation(o) ==
  LET v == o.value
  IN  \/ /\ o.request = "CreateOverlay" /\ o = CreateOverlayRequest(v.kind, o.name, v.layout)
         /\ v.kind \in {"agent", "presentation"} /\ IsLayout(v.kind, v.layout)
      \/ /\ o.request = "SetOverlayLayout" /\ o = SetOverlayLayoutRequest(v.kind, o.name, v.layout)
         /\ v.kind \in {"agent", "presentation"} /\ IsLayout(v.kind, v.layout)
      \/ /\ o.request = "EmitActivity" /\ o = EmitActivityRequest(v.by, o.name, v.agent, v.activity, v.duration)
         /\ v.duration \in Nat
      \/ o.request = "ClearOverlay" /\ o = ClearOverlayRequest(o.name)
      \/ o.request = "UpdatePresentation" /\ o = UpdatePresentationRequest(o.name, v.rows, v.visible)

IsConfig(config) == DOMAIN config = {"cursor", "audio", "method"}
IsNamed(window) == DOMAIN window = {"handle", "pid", "title"}
IsCaptureOperation(o) ==
  LET v == o.value
  IN  IsNamed(v.window) /\
      \/ o.request = "CreateWindowCaptureSource" /\ o = CreateCaptureRequest(v.window, v.config, v.enabled) /\ IsConfig(v.config)
      \/ /\ o.request = "RebindWindowCaptureSource" /\ IsConfig(v.config)
         /\ o = RebindCaptureRequest(v.expected, v.window, v.config, v.enabled)
      \/ o.request = "SetWindowCaptureMethod" /\ o = SetCaptureMethodRequest(v.window, v.config, v.enabled) /\ IsConfig(v.config)
      \/ o.request = "RestoreWindowCaptureCandidate" /\ o = RestoreWindowRequest(v.window, v.exe)

IsOperation(o) ==
  \/ o.domain = "sources" /\ IsSourceOperation(o)
  \/ o.domain = "scenes" /\ IsSceneOperation(o)
  \/ o.domain = "overlays" /\ IsOverlayOperation(o)
  \/ o.domain = "captures" /\ IsCaptureOperation(o)

IsSource(source) ==
  /\ DOMAIN source = {"kind", "settings", "shown", "volume", "muted", "monitor", "media", "cursor", "filter"}
  /\ source.kind = "color_source_v3" => IsRecord(source.settings, Properties)
  /\ source.filter # Nothing => DOMAIN source.filter = {"kind", "db", "enabled"}
IsSources(s) == \A name \in DOMAIN s : IsSource(s[name])

IsGraph(g) ==
  /\ DOMAIN g = {"order", "inputs", "current", "items", "studio", "preview", "swaps", "swapping", "transition", "duration",
                  "transitions", "profile", "profiles", "collection", "collections"}
  /\ g.order \in Seq(Scenes(g) \ {None})

IsOverlay(source) ==
  /\ source.kind = "agent" =>
       /\ DOMAIN source = {"kind", "anchor", "opacity", "margin", "agent", "sequence", "by", "active", "activity", "duration",
                           "expires"}
       /\ source.active \in BOOLEAN /\ source.sequence \in Nat /\ source.expires \in Nat
       /\ ~source.active => source.expires = 0
  /\ source.kind = "presentation" =>
       DOMAIN source = {"kind", "anchor", "opacity", "margin", "width", "rows", "visible"}
IsOverlays(w) ==
  /\ DOMAIN w = {"scenes", "places", "source", "size", "canvas", "clock", "created"}
  /\ w.clock \in Nat /\ w.created \in Nat
  /\ IsOverlay(w.source) /\ (w.source.kind = "agent" => w.created > 0)

IsCaptures(c) ==
  /\ DOMAIN c = {"scene", "source", "items", "visible", "windows"}
  /\ c.items \in Nat
  /\ c.source.kind = "window_capture" => DOMAIN c.source = {"kind", "config", "binding", "selector"}
  /\ IsWindows(c.windows)

IsWorld(o, w) ==
  CASE o.domain = "sources"  -> IsSources(w)
    [] o.domain = "scenes"   -> IsGraph(w)
    [] o.domain = "captures" -> IsCaptures(w) /\ o.value.window.handle \in DOMAIN w.windows
    [] OTHER                 -> IsOverlays(w)

ASSUME CallsAssumption == \A request \in Requests : \A o \in Operations(request) :
                            IsOperation(o) /\ \A w \in Worlds(o) : IsWorld(o, w)

\* What others may do to the overlays: the number of the activity grows with every change of it,
\* and an overlay that is made anew is another one.
Numbered(w, v) ==
  /\ v.created >= w.created
  /\ v.created = w.created /\ v.source.kind = "agent" =>
       /\ w.source.kind = "agent" /\ v.source.sequence >= w.source.sequence
       /\ v.source.sequence = w.source.sequence => v.source.by = w.source.by
Possible(o, w, v) == IsWorld(o, v) /\ (o.domain = "overlays" => Numbered(w, v))

----------------------------------------------------------------------------
(* The operation. *)

Init ==
  /\ \E request \in Requests : op \in Operations(request)
  /\ world \in Worlds(op)
  /\ phase = "called"
  /\ known = 0
  /\ tries = 0
  /\ result = "none"
  /\ changes = 0
  /\ performed = FALSE
  /\ held = FALSE

Finish(code) == phase' = "done" /\ result' = code

RejectArguments ==
  /\ phase = "called"
  /\ Refused(op)
  /\ Finish("OBS_ARGUMENT_INVALID")
  /\ UNCHANGED <<op, world, known, tries, changes, performed, held>>

SelectTarget ==
  /\ phase = "called"
  /\ ~Refused(op)
  /\ op.consult # "nothing"
  /\ LET answer   == Consult
         selected == IF answer.code = "ok" THEN Select(answer.seen) ELSE answer.code
     IN  IF selected = "unique"
         THEN /\ phase' = "selected"
              /\ known' = IF op.consult = "GetStudioModeStatus" THEN answer.seen ELSE known
              /\ UNCHANGED result
         ELSE Finish(selected) /\ UNCHANGED known
  /\ UNCHANGED <<op, world, tries, changes, performed, held>>

ToSend == \/ phase = "selected"
          \/ phase = "called" /\ op.consult = "nothing" /\ ~Refused(op)

\* _poll reads until the answer matches or the attempts are spent; most overlay operations read once.
MayReadAgain == op.polled /\ tries + 1 < Attempts

\* The request is answered in time.
Send ==
  /\ ToSend
  /\ \E outcome \in Perform :
       /\ world' = outcome.after
       /\ performed' = Changed(world, outcome.after)
       /\ known' = IF outcome.got = 0 THEN known ELSE outcome.got
       /\ held' = (outcome.code = "accepted" /\ Goal(world', known'))
       /\ IF outcome.code # "accepted" THEN Finish(outcome.code)
          ELSE IF op.read = "nothing" THEN Finish("verified")
          ELSE phase' = "reading" /\ UNCHANGED result
  /\ UNCHANGED <<op, tries, changes>>

\* The plugin performs the request and the deadline of the bridge passes before it has the answer.
AnsweredLate ==
  /\ ToSend
  /\ \E outcome \in Perform : world' = outcome.after /\ performed' = Changed(world, outcome.after)
  /\ Finish("OBS_TIMEOUT")
  /\ UNCHANGED <<op, known, tries, changes, held>>

ReadBack ==
  /\ phase = "reading"
  /\ held' = IF op.matches = "Accepted" THEN held ELSE Goal(world, known)
  /\ LET answer == Read
     IN  IF answer.code # "ok" THEN Finish(answer.code) /\ UNCHANGED tries
         ELSE IF Matches(answer.seen) THEN Finish("verified") /\ UNCHANGED tries
         ELSE IF MayReadAgain THEN tries' = tries + 1 /\ UNCHANGED <<phase, result>>
         ELSE Finish("OBS_POSTCONDITION_FAILED") /\ UNCHANGED tries
  /\ UNCHANGED <<op, world, known, changes, performed>>

\* The deadline passes before the next request is sent.
Expire ==
  /\ phase \in {"selected", "reading"}
  /\ Finish("OBS_TIMEOUT")
  /\ UNCHANGED <<op, world, known, tries, changes, performed, held>>

\* What has begun ends: a medium opens, a transition ends, a frame is drawn and items of removed
\* sources go with it, a window that was asked to comes back.
Settled(w) ==
  CASE op.domain = "sources" -> [name \in DOMAIN w |-> IF w[name].media = "opening" THEN [w[name] EXCEPT !.media = "playing"] ELSE w[name]]
    [] op.domain = "scenes"  -> Prune(EndTransition(w))
    [] op.domain = "captures" -> Restored(w)
    [] OTHER                 -> NextFrame(w)
Settle ==
  /\ phase # "done"
  /\ Settled(world) # world
  /\ world' = Settled(world)
  /\ UNCHANGED <<call, changes>>

Interfere ==
  /\ phase # "done"
  /\ changes < MaxChanges
  /\ changes' = changes + 1
  /\ world' \in Changes(op, world)
  /\ Possible(op, world, world')
  /\ UNCHANGED call

Ended == phase = "done" /\ UNCHANGED vars

Next == RejectArguments \/ SelectTarget \/ Send \/ AnsweredLate \/ ReadBack \/ Expire \/ Settle \/ Interfere \/ Ended

Spec == Init /\ [][Next]_vars

----------------------------------------------------------------------------
(* Properties. *)

\* A list the bridge cannot take as complete.
ListUnusable(names) == Len(names) > MaxListed \/ Range(names) \cap LongNames # {}

\* What a read-back does not show: whether a created source is visible, what lies beyond the
\* end of a list, how large an overlay is going to be.
Unseen ==
  \/ op.request = "CreateSource" /\ world[op.name].shown # op.value.enabled
  \/ op.request \in {"RemoveScene", "RenameScene"} /\ Len(world.order) > MaxListed
  \/ op.domain = "overlays" /\ world.size # SizeOf(world.source)

\* An operation reported as verified did what it was called for, and it was so when OBS was
\* last asked (docs/scene-graph.md:20), except for what is Unseen: whatever the user, another
\* agent or OBS itself did between the request and the read-back.
VerifiedHeld == result = "verified" => held \/ Unseen

\* What the bridge cannot recognise although it was done.
Unrecognised ==
  CASE op.request = "CreateSource" -> DOMAIN op.value.settings # Properties \/ ~NormalizedInput(world[op.name].settings)
    [] op.request = "SetInputSettings" -> ~NormalizedInput(world[op.name].settings)
    [] op.request = "SetFilterEnabled" -> world[op.name].filter.kind # "gain_filter" \/ ~NormalizedFilter(world[op.name].filter.db)
    [] op.request \in {"CreateScene", "RemoveScene", "RenameScene"} ->
         ListUnusable(world.order) \/ world.current \in LongNames
    [] op.read = "GetStudioModeStatus" -> {world.current, world.preview} \cap LongNames # {}
    [] op.request = "SetSourceVolume" -> ~Close(Single(op.value), op.value)
    [] op.request = "SetSceneItemTransform" -> ~Close(Single(op.value.position), op.value.position)
    [] op.request = "TriggerTransition" -> world.transition \in LongNames
    [] op.request = "RemoveSceneItem" -> op.name \notin Scenes(world)
    [] op.matches = "Layout" -> \/ world.size # SizeOf(world.source)
                               \/ AnchorForItem(world, world.places[op.name]) # op.value.layout.anchor
    [] op.matches = "Activity" -> Remaining(world) > op.value.duration
    [] OTHER -> FALSE

\* An operation that fails after its request was accepted fails because OBS is not as it was
\* asked to be, or for one of the reasons listed in Unrecognised, and for no other.
FailureIsReal ==
  /\ phase = "done"
  /\ result \notin {"verified", "OBS_TIMEOUT"}
  /\ held
  => Unrecognised

\* Errors the bridge or the plugin raises before anything is changed.
Refusals == {"OBS_TARGET_AMBIGUOUS", "OBS_RESPONSE_INCOMPLETE", "OBS_PROFILE_NOT_FOUND", "OBS_SCENE_COLLECTION_NOT_FOUND",
             "OBS_TRANSITION_NOT_FOUND", "OBS_SOURCE_KIND_UNSUPPORTED", "OBS_MEDIA_NOT_CONTROLLABLE",
             "OBS_STUDIO_MODE_INACTIVE", "OBS_SCENE_ITEM_NOT_FOUND", "OBS_MUTATION_REJECTED",
             "OBS_FILTER_KIND_UNSUPPORTED", "OBS_ARGUMENT_INVALID", "OBS_SCENE_NOT_FOUND", "OBS_SOURCE_NOT_FOUND",
             "OBS_WINDOW_NOT_FOUND", "OBS_WINDOW_IDENTITY_DRIFT", "OBS_SOURCE_ALREADY_EXISTS"}

\* A filter of a kind that is not reviewed is switched all the same, and settings that are out of
\* the reviewed range are changed: the error comes from the read-back.
LateRefusal ==
  \/ op.request = "SetFilterEnabled"
  \/ op.request \in {"CreateSource", "SetInputSettings"} /\ result = "OBS_ARGUMENT_INVALID"

\* As long as nobody else acts, an operation that is refused has left OBS as it was.
RefusedChangedNothing == result \in Refusals /\ changes = 0 => ~performed \/ LateRefusal

\* A verified activity is the one this agent asked to be shown, even where another agent
\* shows the same under the same identifier, unless the overlay was made anew meanwhile.
ActivityIsOurs ==
  result = "verified" /\ op.matches = "Activity" /\ world.created = 1 => world.source.by = op.value.by
=============================================================================
