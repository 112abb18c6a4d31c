------------------------ MODULE BridgeOperationsProofs ------------------------
(***************************************************************************)
(* Proofs about BridgeOperations, for any operations of the bridge, any     *)
(* states of OBS and any number of interferences:                           *)
(*                                                                          *)
(*   - for each domain, what an operation is made of (...Form), what a       *)
(*     read-back that matches shows (...MatchShows) and why one that does    *)
(*     not match fails (...FailureShows);                                    *)
(*   - that the plugin leaves sources, scenes, overlays and captures made of *)
(*     what they are made of (...Kept), and what its answer says of them     *)
(*     (...Answered);                                                        *)
(*   - these together for an operation of any domain (Answer, ReadFails,     *)
(*     ReadMatches, ReadMisses, SelectFails, and for what OBS does by itself *)
(*     SettledKept, SettledReadable);                                        *)
(*   - the inductive invariant, and for each property the step that keeps it.*)
(***************************************************************************)
EXTENDS BridgeOperations, TLAPS

----------------------------------------------------------------------------
(* Sources. *)

\* What belongs together in an operation on a source or a filter.
LEMMA SourceForm ==
  ASSUME NEW o, IsSourceOperation(o)
  PROVE  /\ o.domain = "sources"
         /\ o.consult = "nothing"
         /\ \/ /\ o.request = "CreateSource" /\ o.target = o.name /\ o.read = "GetInputSettings" /\ o.matches = "ExactSettings"
               /\ IsRecord(o.value.settings, DOMAIN o.value.settings)
               /\ DOMAIN o.value.settings \subseteq Properties
            \/ o.request = "RenameSource" /\ o.target = o.value /\ o.read = "GetSourceIdentity" /\ o.matches = "SourceNamed"
            \/ o.request \in {"RemoveSource", "RemoveFilter"} /\ o.read = "nothing" /\ o.matches = "Accepted"
            \/ /\ o.request = "SetInputSettings" /\ o.target = o.name /\ o.read = "GetInputSettings" /\ o.matches = "GivenSettings"
               /\ DOMAIN o.value \subseteq Properties
            \/ /\ o.request = "CreateFilter" /\ o.target = o.name /\ o.read = "GetFilter" /\ o.matches = "FilterAsked"
               /\ NormalizedFilter(o.value.db)
            \/ o.request = "SetFilterEnabled" /\ o.target = o.name /\ o.read = "GetFilter" /\ o.matches = "FilterEnabled"
            \/ /\ o.request = "SetFilterSettings" /\ o.target = o.name /\ o.read = "GetFilter" /\ o.matches = "FilterSettings"
               /\ NormalizedFilter(o.value)
            \/ o.request = "SetSourceVolume" /\ o.target = o.name /\ o.read = "GetSourceVolume" /\ o.matches = "VolumeClose"
            \/ o.request = "SetSourceMute" /\ o.target = o.name /\ o.read = "GetSourceMute" /\ o.matches = "MuteEqual"
            \/ o.request = "SetSourceMonitorType" /\ o.target = o.name /\ o.read = "GetSourceMonitorType" /\ o.matches = "MonitorEqual"
            \/ o.request = "SeekMedia" /\ o.target = o.name /\ o.read = "GetMediaStatus" /\ o.matches = "CursorClose"
            \/ /\ o.request \in {"PlayMedia", "PauseMedia", "RestartMedia", "StopMedia"} /\ o.target = o.name
               /\ o.read = "GetMediaStatus" /\ o.matches = "MediaState"
  BY DEF IsSourceOperation, CreateSourceRequest, RenameSourceRequest, RemoveSourceRequest, SetInputSettingsRequest,
         CreateFilterRequest, SetFilterEnabledRequest, SetFilterSettingsRequest, RemoveFilterRequest, SetSourceVolumeRequest,
         SetSourceMuteRequest, SetSourceMonitorTypeRequest, SeekMediaRequest, MediaRequest, SourceRequest, Asks, Consults, Once

\* What a read-back of a source that matches shows.
LEMMA SourceMatchShows ==
  ASSUME NEW o, NEW s, IsSourceOperation(o), o.read # "nothing",
         CheckSource(o, ReadSource(s, o)).code = "ok",
         SourceMatches(o, CheckSource(o, ReadSource(s, o)).seen)
  PROVE  SourceGoal(o, s) \/ (o.request = "CreateSource" /\ s[o.name].shown # o.value.enabled)
<1> DEFINE answer == ReadSource(s, o)
           source == s[o.target]
<1>1. o.target \in DOMAIN s
  BY DEF CheckSource, ReadSource, Failed
<1>2. CheckSource(o, answer).seen = source
  BY <1>1, SourceForm DEF CheckSource, ReadSource, Failed, Answered, CheckedInputSettings, CheckedFilter, GetInputSettings, GetFilter, GetMediaStatus
<1>3. /\ o.read = "GetInputSettings" => source.kind = "color_source_v3"
      /\ o.read = "GetFilter" => source.filter # Nothing /\ source.filter.kind = "gain_filter"
      /\ o.read = "GetMediaStatus" => source.kind = "media"
  BY <1>1 DEF CheckSource, ReadSource, Failed, Answered, GetInputSettings, GetFilter, GetMediaStatus
<1>4. SourceMatches(o, source)
  BY <1>2
<1> HIDE DEF answer
<1>5. CASE o.request \in {"CreateSource", "SetInputSettings"}
  BY <1>1, <1>3, <1>4, <1>5, SourceForm DEF SourceMatches, SourceGoal, GoalOnSource, ExactSettings, GivenSettings, Given
<1>6. CASE o.request = "RenameSource"
  BY <1>1, <1>6, SourceForm DEF SourceGoal
<1>7. CASE o.request = "CreateFilter"
  BY <1>1, <1>3, <1>4, <1>7, SourceForm DEF SourceMatches, SourceGoal, GoalOnSource, FilterAsked
<1>7a. CASE o.request \in {"SetFilterEnabled", "SetFilterSettings"}
  BY <1>1, <1>3, <1>4, <1>7a, SourceForm DEF SourceMatches, SourceGoal, GoalOnSource
<1>8. CASE o.request \in {"SetSourceVolume", "SetSourceMute", "SetSourceMonitorType"}
  BY <1>1, <1>4, <1>8, SourceForm DEF SourceMatches, SourceGoal, GoalOnSource, VolumeClose, Kept
<1>9. CASE o.request \in {"SeekMedia", "PlayMedia", "PauseMedia", "RestartMedia", "StopMedia"}
  BY <1>1, <1>3, <1>4, <1>9, SourceForm DEF SourceMatches, SourceGoal, GoalOnSource, MediaReached
<1> QED
  BY <1>5, <1>6, <1>7, <1>7a, <1>8, <1>9, SourceForm

\* What OBS is like where a source is as it was asked to be and a read-back does not show it.
LEMMA SourceFailureShows ==
  ASSUME IsSourceOperation(op), IsSources(world), op.read # "nothing", SourceGoal(op, world),
         CheckSource(op, ReadSource(world, op)).code = "ok" =>
           ~SourceMatches(op, CheckSource(op, ReadSource(world, op)).seen)
  PROVE  Unrecognised
<1> DEFINE answer == ReadSource(world, op)
           source == world[op.target]
<1>1. op.target \in DOMAIN world /\ source = world[op.target]
  BY SourceForm DEF SourceGoal
<1>2. /\ op.read = "GetInputSettings" => source.kind = "color_source_v3"
      /\ op.read = "GetMediaStatus" => source.kind = "media"
  BY SourceForm DEF SourceGoal, GoalOnSource
<1>3. op.read = "GetFilter" =>
        source.filter # Nothing /\ (source.filter.kind = "gain_filter" \/ op.request = "SetFilterEnabled")
  BY SourceForm DEF SourceGoal, GoalOnSource, Nothing
<1>4. answer = Answered(source) \/ (op.request = "SetFilterEnabled" /\ source.filter.kind # "gain_filter")
  BY <1>1, <1>2, <1>3, SourceForm DEF ReadSource, GetInputSettings, GetFilter, GetMediaStatus
<1>5. CheckSource(op, answer) = Answered(source) \/ Unrecognised
  BY <1>1, <1>4, SourceForm
     DEF CheckSource, Answered, Failed, CheckedInputSettings, CheckedFilter, Unrecognised, SourceGoal, GoalOnSource
<1>6. ~SourceMatches(op, source) \/ Unrecognised
  BY <1>5 DEF Answered
<1> HIDE DEF answer, source
<1>7. CASE op.request = "CreateSource"
  <2>1. op.matches = "ExactSettings" /\ Given(source.settings, op.value.settings)
    BY <1>1, <1>7, SourceForm DEF SourceGoal, GoalOnSource
  <2>2. CASE source.kind = "color_source_v3" /\ DOMAIN op.value.settings = Properties
    <3>1. IsRecord(source.settings, Properties)
      BY <1>1, <2>2 DEF IsSources, IsSource
    <3>2. IsRecord(op.value.settings, Properties)
      BY <1>7, <2>2, SourceForm
    <3>3. source.settings = op.value.settings
      BY <2>1, <2>2, <3>1, <3>2 DEF IsRecord, Given
    <3> QED
      BY <1>6, <2>1, <3>3 DEF SourceMatches, ExactSettings
  <2> QED
    BY <1>2, <1>7, <2>2, SourceForm DEF Unrecognised
<1>8. CASE op.request \in {"SetInputSettings", "RenameSource", "SetFilterEnabled", "SetFilterSettings", "SetSourceMute",
                           "SetSourceMonitorType", "CreateFilter"}
  BY <1>1, <1>6, <1>8, SourceForm DEF SourceMatches, SourceGoal, GoalOnSource, GivenSettings, Given, FilterAsked
<1>9. CASE op.request = "SetSourceVolume"
  BY <1>1, <1>6, <1>9, SourceForm DEF SourceMatches, SourceGoal, GoalOnSource, VolumeClose, Kept, Unrecognised
<1>10. CASE op.request \in {"SeekMedia", "PlayMedia", "PauseMedia", "RestartMedia", "StopMedia"}
  BY <1>1, <1>6, <1>10, SourceForm DEF SourceMatches, SourceGoal, GoalOnSource, MediaReached
<1> QED
  BY <1>7, <1>8, <1>9, <1>10, SourceForm

----------------------------------------------------------------------------
(* Scenes. *)

\* What belongs together in an operation on a scene, an item or a transition.
LEMMA SceneForm ==
  ASSUME NEW o, IsSceneOperation(o)
  PROVE  /\ o.domain = "scenes"
         /\ \/ /\ o.request = "SetCurrentScene" /\ o.consult = "ListScenes" /\ o.read = "GetCurrentScene"
               /\ o.matches = "SceneNamed" /\ o.name # None
            \/ /\ o.request = "CreateScene" /\ o.consult = "nothing" /\ o.read = "ListScenes" /\ o.matches = "Listed"
               /\ o.name # None
            \/ /\ o.request = "RemoveScene" /\ o.consult = "ListScenes" /\ o.read = "ListScenes" /\ o.matches = "Unlisted"
               /\ o.name # None
            \/ /\ o.request = "RenameScene" /\ o.consult = "ListScenes" /\ o.read = "ListScenes" /\ o.matches = "Renamed"
               /\ o.name # None /\ o.value # None
            \/ /\ o.request = "CreateSceneItem" /\ o.consult = "nothing" /\ o.read = "GetSceneItem" /\ o.matches = "ItemCreated"
               /\ o.name # None /\ o.value.source # None
            \/ /\ o.request = "SetSceneItemEnabled" /\ o.consult = "nothing" /\ o.read = "GetSceneItem" /\ o.matches = "ItemEnabled"
               /\ o.name # None
            \/ /\ o.request = "SetSceneItemTransform" /\ o.consult = "nothing" /\ o.read = "GetSceneItem"
               /\ o.matches = "ItemPlaced" /\ o.name # None
            \/ /\ o.request = "RemoveSceneItem" /\ o.consult = "nothing" /\ o.read = "GetSceneItem" /\ o.matches = "ItemGone"
               /\ o.name # None
            \/ /\ o.request = "SetCurrentTransition" /\ o.consult = "ListTransitions" /\ o.read = "GetCurrentTransition"
               /\ o.matches = "Transition" /\ o.name # None
            \/ /\ o.request = "TriggerTransition" /\ o.consult = "ListScenes" /\ o.read = "GetCurrentTransition"
               /\ o.matches = "Accepted" /\ o.name # None
            \/ o.request = "SetStudioMode" /\ o.consult = "nothing" /\ o.read = "GetStudioModeStatus" /\ o.matches = "Studio"
            \/ /\ o.request = "SetCurrentPreviewScene" /\ o.consult = "ListScenes" /\ o.read = "GetCurrentPreviewScene"
               /\ o.matches = "SceneNamed" /\ o.name # None
            \/ /\ o.request = "TriggerStudioModeTransition" /\ o.consult = "GetStudioModeStatus"
               /\ o.read = "GetStudioModeStatus" /\ o.matches = "Swapped"
            \/ /\ o.request = "SetCurrentProfile" /\ o.consult = "ListProfiles" /\ o.read = "GetCurrentProfile"
               /\ o.matches = "SceneNamed" /\ o.name # None
            \/ /\ o.request = "SetCurrentSceneCollection" /\ o.consult = "ListSceneCollections"
               /\ o.read = "GetCurrentSceneCollection" /\ o.matches = "SceneNamed" /\ o.name # None
  BY DEF IsSceneOperation, SetCurrentSceneRequest, CreateSceneRequest, RemoveSceneRequest, RenameSceneRequest,
         CreateSceneItemRequest, SetSceneItemEnabledRequest, SetSceneItemTransformRequest, RemoveSceneItemRequest,
         SetCurrentTransitionRequest, TriggerTransitionRequest, SetStudioModeRequest, SetCurrentPreviewSceneRequest,
         TriggerStudioModeTransitionRequest, SetCurrentProfileRequest, SetCurrentSceneCollectionRequest, Asks, Consults, Once

\* A list holds the names there are, as far as it goes.
LEMMA ListingFact ==
  ASSUME NEW S, NEW names \in Seq(S)
  PROVE  /\ Range(Listing(names).names) \subseteq Range(names)
         /\ Len(names) <= MaxListed => Listing(names).names = names /\ ~Listing(names).truncated
<1>1. CASE Len(names) <= MaxListed
  <2>1. Listing(names).names = names
    BY <1>1, ListsAssumption DEF Listing
  <2>2. Listing(names).truncated = (Len(names) > MaxListed)
    BY Zenon DEF Listing
  <2>3. ~(Len(names) > MaxListed)
    BY <1>1, ListsAssumption
  <2> QED
    BY <2>1, <2>2, <2>3
<1>2. CASE ~(Len(names) <= MaxListed)
  BY <1>2, ListsAssumption DEF Listing, Range
<1> QED
  BY <1>1, <1>2

\* The list of scenes is a list of scenes.
LEMMA GraphOrder ==
  ASSUME NEW g, IsGraph(g)
  PROVE  g.order \in Seq(Scenes(g))
<1>1. g.order \in Seq(Scenes(g) \ {None})
  BY DEF IsGraph
<1> QED
  BY <1>1

\* What a read-back of the scenes that matches shows.
LEMMA SceneMatchShows ==
  ASSUME NEW o, NEW g, NEW k, IsSceneOperation(o), IsGraph(g), o.matches # "Accepted",
         ReadGraph(g, o, k).code = "ok", GraphMatches(o, k, ReadGraph(g, o, k).seen)
  PROVE  SceneGoal(o, g, k) \/ (o.request \in {"RemoveScene", "RenameScene"} /\ Len(g.order) > MaxListed)
<1> DEFINE answer == ReadGraph(g, o, k)
<1>1. CASE o.request \in {"CreateScene", "RemoveScene", "RenameScene"}
  <2>1. answer.seen = Listing(g.order)
    BY <1>1, SceneForm DEF ReadGraph, Consulted, CheckedListing, Failed, Answered
  <2>2. GraphMatches(o, k, Listing(g.order))
    BY <2>1
  <2>3. /\ Range(Listing(g.order).names) \subseteq Scenes(g)
        /\ Len(g.order) <= MaxListed => Range(Listing(g.order).names) = Scenes(g)
    BY GraphOrder, ListingFact DEF Scenes
  <2>4. Len(g.order) \in Nat
    BY GraphOrder
  <2> QED
    BY <1>1, <2>2, <2>3, <2>4, ListsAssumption, SceneForm DEF GraphMatches, SceneGoal
<1>2. CASE o.request \in {"SetCurrentScene", "SetCurrentPreviewScene", "SetCurrentProfile", "SetCurrentSceneCollection"}
  <2>1. answer.seen = o.name
    BY <1>2, SceneForm DEF GraphMatches
  <2> QED
    BY <1>2, <2>1, SceneForm DEF ReadGraph, NamedAnswer, Failed, Answered, SceneGoal
<1>3. CASE o.request \in {"CreateSceneItem", "SetSceneItemEnabled", "SetSceneItemTransform", "RemoveSceneItem"}
  <2> DEFINE id == IF o.request = "CreateSceneItem" THEN k ELSE o.value.item
  <2>1. o.name \in Scenes(g) /\ answer.seen = IF Exists(g, o.name, id) THEN g.items[o.name][id] ELSE Gone
    BY <1>3, SceneForm, SMTT(30) DEF ReadGraph, GetSceneItem, Failed, Answered
  <2>2. CASE o.request = "RemoveSceneItem"
    BY <2>1, <2>2, SceneForm DEF GraphMatches, SceneGoal, Exists
  <2>3. CASE o.request # "RemoveSceneItem"
    <3>1. ItemMatches(o, answer.seen)
      BY <1>3, <2>3, SceneForm DEF GraphMatches
    <3>2. answer.seen.source # None
      BY <3>1 DEF ItemMatches
    <3>3. Exists(g, o.name, id) /\ answer.seen = g.items[o.name][id]
      BY <2>1, <3>2, SMTT(30) DEF Gone
    <3>4. ItemMatches(o, g.items[o.name][id])
      BY <3>1, <3>3
    <3> HIDE DEF answer
    <3>5. ItemGoal(o, g.items[o.name][id])
      BY <1>3, <2>3, <3>4, SceneForm DEF ItemMatches, ItemGoal, Kept
    <3> QED
      BY <1>3, <2>1, <2>3, <3>3, <3>5, SceneForm DEF SceneGoal, Exists
  <2> QED
    BY <2>2, <2>3
<1>4. CASE o.request = "SetCurrentTransition"
  BY <1>4, SceneForm DEF ReadGraph, GraphMatches, Failed, Answered, SceneGoal
<1>5. CASE o.request \in {"SetStudioMode", "TriggerStudioModeTransition"}
  BY <1>5, SceneForm, SMTT(30) DEF ReadGraph, StudioStatus, GraphMatches, Swapped, Failed, Answered, SceneGoal
<1> QED
  BY <1>1, <1>2, <1>3, <1>4, <1>5, SceneForm

\* What OBS is like where scenes are as they were asked to be and a read-back does not show it.
LEMMA SceneFailureShows ==
  ASSUME IsSceneOperation(op), IsGraph(world), ~NameRefused(op), SceneGoal(op, world, known),
         ReadGraph(world, op, known).code = "ok" => ~GraphMatches(op, known, ReadGraph(world, op, known).seen)
  PROVE  Unrecognised
<1> DEFINE answer == ReadGraph(world, op, known)
<1>1. CASE op.request \in {"CreateScene", "RemoveScene", "RenameScene"}
  <2>1. SUFFICES ASSUME ~ListUnusable(world.order), world.current \notin LongNames
                 PROVE  FALSE
    BY <1>1, SceneForm DEF Unrecognised
  <2>2. Len(world.order) <= MaxListed /\ Scenes(world) \cap LongNames = {}
    <3>1. Len(world.order) \in Nat
      BY GraphOrder
    <3> QED
      BY <2>1, <3>1, ListsAssumption DEF ListUnusable, Scenes
  <2>3. Listing(world.order).names = world.order
    BY <2>2, GraphOrder, ListingFact
  <2>4. answer = Answered(Listing(world.order))
    BY <1>1, <2>1, <2>2, <2>3, SceneForm DEF ReadGraph, Consulted, CheckedListing, Scenes
  <2>5. Range(answer.seen.names) = Scenes(world) /\ answer.code = "ok"
    BY <2>3, <2>4 DEF Answered, Scenes
  <2> HIDE DEF answer
  <2>6. ~GraphMatches(op, known, answer.seen)
    BY <2>5 DEF answer
  <2> QED
    BY <1>1, <2>5, <2>6, SceneForm DEF GraphMatches, SceneGoal
<1>2. CASE op.request \in {"SetCurrentScene", "SetCurrentPreviewScene", "SetCurrentProfile", "SetCurrentSceneCollection"}
  <2>1. op.name \notin LongNames /\ op.name # None
    BY <1>2, SceneForm DEF NameRefused, NamesOf
  <2>2. answer = Answered(op.name)
    BY <1>2, <2>1, SceneForm DEF ReadGraph, NamedAnswer, SceneGoal
  <2> QED
    BY <1>2, <2>2, SceneForm DEF GraphMatches, Answered
<1>3. CASE op.request \in {"CreateSceneItem", "SetSceneItemEnabled", "SetSceneItemTransform"}
  <2> DEFINE id == IF op.request = "CreateSceneItem" THEN known ELSE op.value.item
             item == world.items[op.name][id]
  <2>1. op.name \in Scenes(world) /\ id \in DOMAIN world.items[op.name] /\ ItemGoal(op, item)
    BY <1>3 DEF SceneGoal
  <2>2. item.source # None
    BY <1>3, <2>1, SceneForm DEF ItemGoal
  <2>3. answer = Answered(item)
    BY <1>3, <2>1, <2>2, SceneForm DEF ReadGraph, GetSceneItem, Exists
  <2>4. ~GraphMatches(op, known, item)
    BY <2>3 DEF Answered
  <2> HIDE DEF answer, item
  <2>5. ~ItemMatches(op, item)
    BY <1>3, <2>4, SceneForm DEF GraphMatches
  <2> QED
    BY <1>3, <2>1, <2>2, <2>5, SceneForm DEF ItemMatches, ItemGoal, Kept, Unrecognised
<1>4. CASE op.request = "RemoveSceneItem"
  <2>1. SUFFICES ASSUME op.name \in Scenes(world)
                 PROVE  FALSE
    BY <1>4, SceneForm DEF Unrecognised
  <2>2. ~Exists(world, op.name, op.value.item)
    BY <1>4, <2>1 DEF SceneGoal
  <2>3. answer = Answered(Gone)
    BY <1>4, <2>1, <2>2, SceneForm DEF ReadGraph, GetSceneItem
  <2> QED
    BY <1>4, <2>3, SceneForm DEF Answered, Gone, GraphMatches
<1>5. CASE op.request = "SetCurrentTransition"
  <2>1. op.name \notin LongNames /\ world.transition = op.name /\ op.value \in {-1, world.duration}
    BY <1>5 DEF NameRefused, NamesOf, SceneGoal
  <2> QED
    BY <1>5, <2>1, SceneForm DEF ReadGraph, GraphMatches, Answered
<1>6. CASE op.request \in {"SetStudioMode", "TriggerStudioModeTransition"}
  <2>1. CASE {world.current, world.preview} \cap LongNames # {}
    BY <1>6, <2>1, SceneForm DEF Unrecognised
  <2>2. CASE {world.current, world.preview} \cap LongNames = {}
    BY <1>6, <2>2, SceneForm DEF ReadGraph, StudioStatus, GraphMatches, Swapped, Answered, SceneGoal
  <2> QED
    BY <2>1, <2>2
<1>7. CASE op.request = "TriggerTransition"
  BY <1>7, SceneForm DEF ReadGraph, GraphMatches, Answered, Failed, Unrecognised
<1> QED
  BY <1>1, <1>2, <1>3, <1>4, <1>5, <1>6, <1>7, SceneForm

----------------------------------------------------------------------------
(* Overlays. *)

\* What belongs together in an operation on an overlay.
LEMMA OverlayForm ==
  ASSUME NEW o, IsOverlayOperation(o)
  PROVE  /\ o.domain = "overlays" /\ o.read = "GetOverlay"
         /\ \/ /\ o.request \in {"CreateOverlay", "SetOverlayLayout"} /\ o.matches = "Layout"
               /\ o.value.kind \in {"agent", "presentation"} /\ IsLayout(o.value.kind, o.value.layout)
            \/ o.request = "EmitActivity" /\ o.matches = "Activity" /\ o.value.kind = "agent" /\ o.value.duration \in Nat
            \/ o.request = "ClearOverlay" /\ o.matches = "Cleared" /\ o.value.kind = "agent"
            \/ o.request = "UpdatePresentation" /\ o.matches = "Content" /\ o.value.kind = "presentation"
<1>1. CASE o.request = "CreateOverlay"
  BY <1>1 DEF IsOverlayOperation, CreateOverlayRequest, OverlayRequest, Asks, Consults, Once
<1>2. CASE o.request = "SetOverlayLayout"
  BY <1>2 DEF IsOverlayOperation, SetOverlayLayoutRequest, OverlayRequest, Asks, Consults, Once
<1>3. CASE o.request = "EmitActivity"
  BY <1>3 DEF IsOverlayOperation, EmitActivityRequest, OverlayRequest, Asks, Consults, Once
<1>4. CASE o.request = "ClearOverlay"
  BY <1>4 DEF IsOverlayOperation, ClearOverlayRequest, OverlayRequest, Asks, Consults, Once
<1>5. CASE o.request = "UpdatePresentation"
  BY <1>5 DEF IsOverlayOperation, UpdatePresentationRequest, OverlayRequest, Asks, Consults, Once
<1> QED
  BY <1>1, <1>2, <1>3, <1>4, <1>5 DEF IsOverlayOperation

AgentFields == {"kind", "anchor", "opacity", "margin", "agent", "sequence", "by", "active", "activity", "duration", "expires"}
PanelFields == {"kind", "anchor", "opacity", "margin", "width", "rows", "visible"}

\* What the plugin reports of an overlay.
LEMMA OverlayReport ==
  ASSUME NEW w, NEW o, IsOverlays(w), w.source.kind \in {"agent", "presentation"}
  PROVE  LET seen == GetOverlay(w, o)
         IN  /\ seen.anchor = AnchorForItem(w, w.places[o.name])
             /\ w.source.kind = "agent" =>
                  /\ seen.opacity = w.source.opacity /\ seen.margin = w.source.margin
                  /\ seen.agent = w.source.agent /\ seen.sequence = w.source.sequence
                  /\ seen.active = ShownActivity(w).active /\ seen.activity = ShownActivity(w).activity
                  /\ seen.duration = ShownActivity(w).duration /\ seen.remaining = Remaining(w)
             /\ w.source.kind = "presentation" =>
                  /\ seen.opacity = w.source.opacity /\ seen.margin = w.source.margin
                  /\ seen.width = w.source.width /\ seen.rows = w.source.rows /\ seen.visible = w.source.visible
<1> DEFINE place == [anchor |-> AnchorForItem(w, w.places[o.name])]
<1>1. CASE w.source.kind = "agent"
  <2> DEFINE shown == ShownActivity(w)
             left == [remaining |-> Remaining(w)]
             seen == ((place ++ shown) ++ left) ++ w.source
  <2>1. DOMAIN w.source = AgentFields
    BY <1>1 DEF IsOverlays, IsOverlay, AgentFields
  <2>2. DOMAIN shown = {"active", "activity", "duration"} /\ DOMAIN place = {"anchor"} /\ DOMAIN left = {"remaining"}
    BY DEF ShownActivity
  <2>3. GetOverlay(w, o) = seen
    BY <1>1 DEF GetOverlay
  <2>4. left.remaining = Remaining(w) /\ place.anchor = AnchorForItem(w, w.places[o.name])
    OBVIOUS
  <2> HIDE DEF shown, left, place
  <2>5. /\ DOMAIN (place ++ shown) = {"anchor", "active", "activity", "duration"}
        /\ (place ++ shown).anchor = place.anchor
        /\ \A part \in {"active", "activity", "duration"} : (place ++ shown)[part] = shown[part]
    BY <2>2 DEF ++
  <2>6. /\ DOMAIN ((place ++ shown) ++ left) = {"anchor", "active", "activity", "duration", "remaining"}
        /\ \A part \in {"anchor", "active", "activity", "duration"} : ((place ++ shown) ++ left)[part] = (place ++ shown)[part]
        /\ ((place ++ shown) ++ left).remaining = left.remaining
    BY <2>2, <2>5 DEF ++
  <2> DEFINE above == (place ++ shown) ++ left
  <2> HIDE DEF above
  <2>7. /\ \A part \in {"anchor", "active", "activity", "duration", "remaining"} : (above ++ w.source)[part] = above[part]
        /\ \A part \in {"opacity", "margin", "agent", "sequence"} : (above ++ w.source)[part] = w.source[part]
    BY <2>1, <2>6 DEF AgentFields, above, ++
  <2>8. /\ seen.anchor = place.anchor /\ seen.remaining = left.remaining
        /\ \A part \in {"active", "activity", "duration"} : seen[part] = shown[part]
        /\ \A part \in {"opacity", "margin", "agent", "sequence"} : seen[part] = w.source[part]
    BY <2>5, <2>6, <2>7 DEF above
  <2> HIDE DEF seen
  <2> QED
    BY <1>1, <2>3, <2>4, <2>8 DEF shown
<1>2. CASE w.source.kind = "presentation"
  <2>1. DOMAIN w.source = PanelFields
    BY <1>2 DEF IsOverlays, IsOverlay, PanelFields
  <2>2. GetOverlay(w, o) = place ++ w.source
    BY <1>2 DEF GetOverlay
  <2>3. /\ (place ++ w.source).anchor = place.anchor
        /\ \A part \in {"opacity", "margin", "width", "rows", "visible"} : (place ++ w.source)[part] = w.source[part]
    BY <2>1 DEF PanelFields, ++
  <2> QED
    BY <1>2, <2>2, <2>3
<1> QED
  BY <1>1, <1>2

\* The anchor that is reported is one where the item stands.
LEMMA AnchorStands ==
  ASSUME NEW w, NEW place, AnchorForItem(w, place) # "custom"
  PROVE  At(place, AnchorPosition(w.canvas, w.size, AnchorForItem(w, place), w.source.margin))
<1> DEFINE P(i) == At(place, AnchorPosition(w.canvas, w.size, AnchorOrder[i], w.source.margin))
           there == {i \in DOMAIN AnchorOrder : P(i)}
           first == CHOOSE i \in there : \A j \in there : i <= j
<1>1. there # {} /\ AnchorForItem(w, place) = AnchorOrder[first]
  BY DEF AnchorForItem
<1>2. DOMAIN AnchorOrder = 1 .. 8
  BY DEF AnchorOrder
<1> HIDE DEF P
<1>3. \E i \in there : \A j \in there : i <= j
  BY <1>1, <1>2
<1>4. first \in there
  BY <1>3
<1>5. P(first)
  BY <1>4
<1> QED
  BY <1>1, <1>5 DEF P

\* What a read-back of an overlay that matches shows.
LEMMA OverlayMatchShows ==
  ASSUME NEW o, NEW w, NEW k, IsOverlayOperation(o), IsOverlays(w),
         o.matches = "Layout" => LayoutAccepted(o.value.kind, o.value.layout),
         ReadOverlay(w, o).code = "ok", OverlayMatches(o, k, ReadOverlay(w, o).seen)
  PROVE  OverlayGoal(o, w, k) \/ w.size # SizeOf(w.source)
<1> DEFINE seen == GetOverlay(w, o)
<1>1. Bound(w, o) /\ ReadOverlay(w, o).seen = seen
  BY DEF ReadOverlay, Failed, Answered
<1>2. w.source.kind = o.value.kind /\ o.value.kind \in {"agent", "presentation"}
  BY <1>1, OverlayForm DEF Bound
<1>3. OverlayMatches(o, k, seen)
  BY <1>1
<1> HIDE DEF seen
<1>4. CASE o.matches = "Layout"
  <2> DEFINE layout == o.value.layout
  <2>1. \A part \in DOMAIN layout : seen[part] = layout[part]
    BY <1>3, <1>4 DEF OverlayMatches, LayoutMatches
  <2>2. IsLayout(o.value.kind, layout)
    BY <1>4, OverlayForm
  <2>3. \A part \in DOMAIN layout \ {"anchor"} : w.source[part] = layout[part]
    BY <1>2, <2>1, <2>2, OverlayReport DEF IsLayout, seen
  <2>4. Given(w.source, Restrict(layout, DOMAIN layout \ {"anchor"}))
    BY <2>3 DEF Given, Restrict
  <2>5. AnchorForItem(w, w.places[o.name]) = layout.anchor
    BY <1>2, <2>1, <2>2, OverlayReport DEF IsLayout, seen
  <2>6. layout.anchor # "custom"
    BY <1>4 DEF LayoutAccepted, Anchors, Horizontal
  <2>7. w.size = SizeOf(w.source) => Anchored(o, w)
    BY <2>5, <2>6, AnchorStands DEF Anchored
  <2> QED
    BY <1>1, <1>4, <2>4, <2>7 DEF OverlayGoal
<1>5. CASE o.matches = "Activity"
  <2>1. /\ seen.active /\ seen.sequence = k /\ seen.activity = o.value.activity
        /\ seen.duration = o.value.duration /\ seen.agent = o.value.agent
    BY <1>3, <1>5 DEF OverlayMatches, ActivityMatches
  <2>2. w.source.kind = "agent"
    BY <1>2, <1>5, OverlayForm
  <2>3. w.source.active /\ Remaining(w) > 0
    BY <1>2, <2>1, <2>2, OverlayReport DEF seen, ShownActivity
  <2>4. w.source.expires > w.clock
    BY <2>2, <2>3 DEF Remaining, IsOverlays, IsOverlay
  <2>5. w.source.activity = seen.activity /\ w.source.duration = seen.duration
    BY <1>2, <2>2, <2>3, OverlayReport DEF seen, ShownActivity
  <2>6. w.source.sequence = k /\ w.source.agent = seen.agent
    BY <1>2, <2>1, <2>2, OverlayReport DEF seen
  <2> QED
    BY <1>1, <1>5, <2>1, <2>3, <2>4, <2>5, <2>6 DEF OverlayGoal, Given
<1>6. CASE o.matches = "Cleared"
  <2>1. ~seen.active /\ seen.sequence = k
    BY <1>3, <1>6 DEF OverlayMatches, ClearedMatches
  <2>2. w.source.kind = "agent"
    BY <1>2, <1>6, OverlayForm
  <2>3. w.source.sequence = k /\ ~ShownActivity(w).active
    BY <1>2, <2>1, <2>2, OverlayReport DEF seen
  <2>4. ~(w.source.active /\ Remaining(w) > 0)
    BY <2>3 DEF ShownActivity
  <2>5. w.source.active => w.source.expires <= w.clock
    BY <2>2, <2>4 DEF Remaining, IsOverlays, IsOverlay
  <2> QED
    BY <1>1, <1>6, <2>3, <2>5 DEF OverlayGoal
<1>7. CASE o.matches = "Content"
  <2>1. seen.rows = o.value.rows /\ seen.visible = o.value.visible
    BY <1>3, <1>7 DEF OverlayMatches
  <2> QED
    BY <1>1, <1>2, <1>7, <2>1, OverlayForm, OverlayReport DEF OverlayGoal, seen
<1> QED
  BY <1>4, <1>5, <1>6, <1>7, OverlayForm

\* What OBS is like where an overlay is as it was asked to be and a read-back does not show it.
LEMMA OverlayFailureShows ==
  ASSUME IsOverlayOperation(op), IsOverlays(world), OverlayGoal(op, world, known),
         ReadOverlay(world, op).code = "ok" => ~OverlayMatches(op, known, ReadOverlay(world, op).seen)
  PROVE  Unrecognised
<1> DEFINE seen == GetOverlay(world, op)
<1>1. Bound(world, op)
  BY DEF OverlayGoal
<1>2. ~OverlayMatches(op, known, seen)
  BY <1>1 DEF ReadOverlay, Answered
<1>3. world.source.kind = op.value.kind /\ op.value.kind \in {"agent", "presentation"}
  BY <1>1, OverlayForm DEF Bound
<1> HIDE DEF seen
<1>4. CASE op.matches = "Layout"
  <2> DEFINE layout == op.value.layout
  <2>1. SUFFICES ASSUME world.size = SizeOf(world.source), AnchorForItem(world, world.places[op.name]) = layout.anchor
                 PROVE  FALSE
    BY <1>4, OverlayForm DEF Unrecognised
  <2>2. IsLayout(op.value.kind, layout)
    BY <1>4, OverlayForm
  <2>3. \A part \in DOMAIN layout \ {"anchor"} : world.source[part] = layout[part]
    BY <1>4 DEF OverlayGoal, Given, Restrict
  <2>4. \A part \in DOMAIN layout : seen[part] = layout[part]
    BY <1>3, <2>1, <2>2, <2>3, OverlayReport DEF IsLayout, seen
  <2> QED
    BY <1>2, <1>4, <2>4 DEF OverlayMatches, LayoutMatches
<1>5. CASE op.matches = "Activity"
  <2>1. SUFFICES ASSUME ~(Remaining(world) > op.value.duration)
                 PROVE  FALSE
    BY <1>5, OverlayForm DEF Unrecognised
  <2>2. world.source.kind = "agent" /\ op.value.duration \in Nat
    BY <1>3, <1>5, OverlayForm
  <2>3. /\ world.source.active /\ world.source.sequence = known /\ world.source.expires > world.clock
        /\ world.source.agent = op.value.agent /\ world.source.activity = op.value.activity
        /\ world.source.duration = op.value.duration
    BY <1>5 DEF OverlayGoal, Given
  <2>4. 0 < Remaining(world) /\ Remaining(world) <= op.value.duration
    BY <2>1, <2>2, <2>3 DEF Remaining, IsOverlays, IsOverlay
  <2>5. /\ ShownActivity(world).active /\ ShownActivity(world).activity = world.source.activity
        /\ ShownActivity(world).duration = world.source.duration
    BY <2>2, <2>3, <2>4 DEF ShownActivity, Remaining, IsOverlays, IsOverlay
  <2>6. ActivityMatches(op.value, known, seen)
    BY <1>3, <2>2, <2>3, <2>4, <2>5, OverlayReport DEF seen, ActivityMatches
  <2> QED
    BY <1>2, <1>5, <2>6 DEF OverlayMatches
<1>6. CASE op.matches = "Cleared"
  <2>1. world.source.kind = "agent"
    BY <1>3, <1>6, OverlayForm
  <2>2. world.source.sequence = known /\ world.source.expires <= world.clock
    BY <1>6, <2>1 DEF OverlayGoal, IsOverlays, IsOverlay
  <2>3. Remaining(world) = 0
    BY <2>1, <2>2 DEF Remaining, IsOverlays, IsOverlay
  <2>4. ShownActivity(world) = [active |-> FALSE, activity |-> "none", duration |-> 0]
    BY <2>3 DEF ShownActivity
  <2>5. ClearedMatches(known, seen)
    BY <1>3, <2>1, <2>2, <2>3, <2>4, OverlayReport DEF seen, ClearedMatches
  <2> QED
    BY <1>2, <1>6, <2>5 DEF OverlayMatches
<1>7. CASE op.matches = "Content"
  <2>1. world.source.rows = op.value.rows /\ world.source.visible = op.value.visible
    BY <1>7 DEF OverlayGoal
  <2> QED
    BY <1>2, <1>3, <1>7, <2>1, OverlayForm, OverlayReport DEF OverlayMatches, seen
<1> QED
  BY <1>4, <1>5, <1>6, <1>7, OverlayForm

----------------------------------------------------------------------------
(* Captures. *)

\* What belongs together in an operation on a window capture.
LEMMA CaptureForm ==
  ASSUME NEW o, IsCaptureOperation(o)
  PROVE  /\ o.domain = "captures" /\ o.consult = "nothing" /\ IsNamed(o.value.window)
         /\ \/ /\ o.request \in {"CreateWindowCaptureSource", "RebindWindowCaptureSource", "SetWindowCaptureMethod"}
               /\ o.read = "GetWindowCaptureSource" /\ o.matches = "Capture" /\ IsConfig(o.value.config)
            \/ o.request = "RestoreWindowCaptureCandidate" /\ o.read = "ListWindowCaptureCandidates" /\ o.matches = "Ready"
<1>1. CASE o.request = "CreateWindowCaptureSource"
  BY <1>1 DEF IsCaptureOperation, CreateCaptureRequest, CaptureRequest, Asks, Consults
<1>2. CASE o.request = "RebindWindowCaptureSource"
  BY <1>2 DEF IsCaptureOperation, RebindCaptureRequest, CaptureRequest, Asks, Consults
<1>3. CASE o.request = "SetWindowCaptureMethod"
  BY <1>3 DEF IsCaptureOperation, SetCaptureMethodRequest, CaptureRequest, Asks, Consults
<1>4. CASE o.request = "RestoreWindowCaptureCandidate"
  BY <1>4 DEF IsCaptureOperation, RestoreWindowRequest, Asks, Consults
<1> QED
  BY <1>1, <1>2, <1>3, <1>4 DEF IsCaptureOperation

\* What a read-back of a capture that matches shows.
LEMMA CaptureMatchShows ==
  ASSUME NEW o, NEW c, IsCaptureOperation(o), IsCaptures(c),
         ReadCapture(c, o).code = "ok", CaptureMatches(o, ReadCapture(c, o).seen)
  PROVE  CaptureGoal(o, c)
<1> DEFINE named == o.value.window
           window == c.windows[named.handle]
<1>1. CASE o.matches = "Ready"
  <2>1. ReadCapture(c, o).seen = Candidate(c.windows, o.value)
    BY <1>1, CaptureForm DEF ReadCapture, Answered
  <2>2. Candidate(c.windows, o.value) # NoWindow /\ Ready(Candidate(c.windows, o.value))
    BY <1>1, <2>1 DEF CaptureMatches
  <2>3. ValidateExactWindow(c.windows, named) = "ok" /\ window.exe = o.value.exe /\ Ready(window)
    BY <2>2 DEF Candidate
  <2> QED
    BY <1>1, <2>3 DEF ValidateExactWindow, CaptureGoal
<1>2. CASE o.matches # "Ready"
  <2>1. CaptureStatus(c, o, c.windows, c.windows) = "ok"
    BY <1>2, CaptureForm DEF ReadCapture, Failed
  <2>2. ValidateExactWindow(c.windows, named) = "ok"
    BY <2>1 DEF CaptureStatus
  <2>3. Shown(c.windows, named.handle) /\ window.pid = named.pid /\ window.title = named.title
    BY <2>2 DEF ValidateExactWindow
  <2>4. c.scene /\ c.source.kind = "window_capture" /\ ~(c.items > 1) /\ c.items # 0
    BY <2>1, <2>2 DEF CaptureStatus
  <2>5. SettingsMatch(c.source, o, window, {"cursor", "audio", "method"}) /\ c.visible = o.value.enabled
    BY <2>1, <2>2, <2>4, Zenon DEF CaptureStatus
  <2>6. c.items = 1
    BY <2>4 DEF IsCaptures
  <2>7. DOMAIN o.value.config = {"cursor", "audio", "method"}
    BY <1>2, CaptureForm DEF IsConfig
  <2>8. Given(c.source.config, o.value.config)
    BY <2>5, <2>7 DEF SettingsMatch, Given
  <2>9. c.source.binding = Binding(named, window) /\ c.source.selector = Selector(window)
    BY <2>5 DEF SettingsMatch
  <2> QED
    BY <1>2, <2>3, <2>4, <2>5, <2>6, <2>8, <2>9 DEF CaptureGoal
<1> QED
  BY <1>1, <1>2

\* A capture that is as it was asked to be is always recognised.
LEMMA CaptureFailureShows ==
  ASSUME NEW o, NEW c, IsCaptureOperation(o), IsCaptures(c), CaptureGoal(o, c)
  PROVE  ReadCapture(c, o).code = "ok" /\ CaptureMatches(o, ReadCapture(c, o).seen)
<1> DEFINE named == o.value.window
           window == c.windows[named.handle]
<1>1. Shown(c.windows, named.handle) /\ window.pid = named.pid /\ window.title = named.title
  BY DEF CaptureGoal
<1>2. CASE o.matches = "Ready"
  <2>1. window.exe = o.value.exe /\ Ready(window) /\ window # NoWindow
    BY <1>1, <1>2 DEF CaptureGoal, Shown
  <2>2. Candidate(c.windows, o.value) = window
    BY <1>1, <2>1 DEF Candidate, ValidateExactWindow
  <2> QED
    BY <1>2, <2>1, <2>2, CaptureForm DEF ReadCapture, Answered, CaptureMatches
<1>3. CASE o.matches # "Ready"
  <2>1. /\ c.scene /\ c.items = 1 /\ c.visible = o.value.enabled
        /\ c.source.kind = "window_capture" /\ Given(c.source.config, o.value.config)
        /\ c.source.binding = Binding(named, window) /\ c.source.selector = Selector(window)
    BY <1>3 DEF CaptureGoal
  <2>2. SettingsMatch(c.source, o, window, {"cursor", "audio", "method"})
    BY <1>3, <2>1, CaptureForm DEF SettingsMatch, Given, IsConfig
  <2>3. StillLive(c.windows, named, window)
    BY <1>1 DEF StillLive
  <2>4. c.source # NoCapture
    BY <2>1 DEF NoCapture
  <2>5. CaptureStatus(c, o, c.windows, c.windows) = "ok"
    BY <1>1, <2>1, <2>2, <2>3, <2>4, SMTT(30) DEF CaptureStatus, ValidateExactWindow
  <2> QED
    BY <1>3, <2>5, CaptureForm DEF ReadCapture, Answered, CaptureMatches
<1> QED
  BY <1>2, <1>3

----------------------------------------------------------------------------
(* What the plugin leaves. *)

\* A source that is replaced by another, or that is added.
LEMMA SourcePut ==
  ASSUME NEW s, IsSources(s), NEW n, NEW source, IsSource(source)
  PROVE  IsSources(With(s, n, source)) /\ IsSources([s EXCEPT ![n] = source])
  BY DEF IsSources, With, ++

\* A source that is removed.
LEMMA SourceTaken ==
  ASSUME NEW s, IsSources(s), NEW n
  PROVE  IsSources(Restrict(s, DOMAIN s \ {n}))
  BY DEF IsSources, Restrict

\* The plugin leaves sources that are made of what sources are made of.
LEMMA SourcesKept ==
  ASSUME NEW s, IsSources(s), NEW o, IsSourceOperation(o), NEW outcome \in PerformOnSource(s, o)
  PROVE  IsSources(outcome.after)
<1> DEFINE n == o.name
           source == s[o.name]
<1>a. \A new : IsSource(new) => IsSources([s EXCEPT ![n] = new])
  BY SourcePut
<1>b. \A new : IsSource(new) => IsSources(With(s, n, new))
  BY SourcePut
<1>1. CASE o.request = "CreateSource"
  <2>1. IsSource(NewColorSource(o.value.settings, o.value.enabled))
    BY <1>1, SourceForm DEF NewColorSource, IsSource, IsRecord, ++, Nothing
  <2> QED
    BY <1>1, <1>b, <2>1 DEF PerformOnSource, CreateSource, Refuse, Accept, Give
<1>2. CASE o.request # "CreateSource" /\ o.name \notin DOMAIN s
  BY <1>2 DEF PerformOnSource, Refuse
<1>3. CASE o.request # "CreateSource" /\ o.name \in DOMAIN s
  <2>1. IsSource(source)
    BY <1>3 DEF IsSources
  <2>2. CASE o.request = "RenameSource"
    <3>1. IsSources(With(Restrict(s, DOMAIN s \ {n}), o.value, source))
      BY <2>1, SourcePut, SourceTaken
    <3> QED
      BY <1>3, <2>2, <3>1 DEF PerformOnSource, RenameSource, Refuse, Accept, Give
  <2>3. CASE o.request = "RemoveSource"
    <3>1. IsSources(Restrict(s, DOMAIN s \ {n}))
      BY SourceTaken
    <3> QED
      BY <1>3, <2>3, <3>1 DEF PerformOnSource, RemoveSource, Refuse, Accept, Give
  <2>4. CASE o.request = "SetInputSettings"
    <3> DEFINE new == [source EXCEPT !.settings = o.value ++ source.settings]
    <3>1. CASE source.kind = "color_source_v3"
      <4>1. IsSource(new)
        BY <2>1, <2>4, <3>1, SourceForm DEF IsSource, IsRecord, ++
      <4>2. outcome.after = [s EXCEPT ![n] = new]
        BY <1>3, <2>4, <3>1 DEF PerformOnSource, SetInputSettings, Accept, Give
      <4> QED
        BY <4>1, <4>2, <1>a
    <3>2. CASE source.kind # "color_source_v3"
      BY <1>3, <2>4, <3>2 DEF PerformOnSource, SetInputSettings, Refuse
    <3> QED
      BY <3>1, <3>2
  <2>5. CASE o.request = "CreateFilter"
    <3> DEFINE new == [source EXCEPT !.filter = NewFilter(o.value.db, o.value.enabled)]
    <3>1. IsSource(new)
      BY <2>1 DEF IsSource, NewFilter
    <3>2. outcome.after \in {s, [s EXCEPT ![n] = new]}
      BY <1>3, <2>5 DEF PerformOnSource, CreateFilter, Refuse, Accept, Give
    <3> QED
      BY <3>1, <3>2, <1>a
  <2>6. CASE o.request \in {"SetFilterEnabled", "SetFilterSettings", "RemoveFilter"}
    <3>1. outcome.after \in {s, [s EXCEPT ![n] = [source EXCEPT !.filter = [source.filter EXCEPT !.enabled = o.value]]],
                             [s EXCEPT ![n] = [source EXCEPT !.filter = [source.filter EXCEPT !.db = o.value]]],
                             [s EXCEPT ![n] = [source EXCEPT !.filter = Nothing]]}
      BY <1>3, <2>6 DEF PerformOnSource, ChangeFilter, Refuse, Accept, Give
    <3>2. CASE source.filter = Nothing
      BY <1>3, <2>6, <3>2 DEF PerformOnSource, ChangeFilter, Refuse
    <3>3. CASE source.filter # Nothing
      <4>1. /\ IsSource([source EXCEPT !.filter = [source.filter EXCEPT !.enabled = o.value]])
            /\ IsSource([source EXCEPT !.filter = [source.filter EXCEPT !.db = o.value]])
            /\ IsSource([source EXCEPT !.filter = Nothing])
        BY <2>1, <3>3 DEF IsSource
      <4> QED
        BY <3>1, <4>1, <1>a
    <3> QED
      BY <3>2, <3>3
  <2>7. CASE o.request \in {"SetSourceVolume", "SetSourceMute", "SetSourceMonitorType"}
    <3>1. outcome.after \in {[s EXCEPT ![n] = [source EXCEPT !.volume = Single(o.value)]],
                             [s EXCEPT ![n] = [source EXCEPT !.muted = o.value]],
                             [s EXCEPT ![n] = [source EXCEPT !.monitor = o.value]]}
      BY <1>3, <2>7 DEF PerformOnSource, SetAudio, Accept, Give
    <3>2. /\ IsSource([source EXCEPT !.volume = Single(o.value)])
          /\ IsSource([source EXCEPT !.muted = o.value])
          /\ IsSource([source EXCEPT !.monitor = o.value])
      BY <2>1 DEF IsSource
    <3> QED
      BY <3>1, <3>2, <1>a
  <2>8. CASE o.request \in {"SeekMedia", "PlayMedia", "PauseMedia", "RestartMedia", "StopMedia"}
    <3>1. \A new \in Played(source, o) : IsSource(new)
      BY <2>1, <2>8, ZenonT(40) DEF Played, IsSource
    <3>2. outcome.after = s \/ \E new \in Played(source, o) : outcome.after = [s EXCEPT ![n] = new]
      BY <1>3, <2>8 DEF PerformOnSource, ControlMedia, Refuse, Accept, Give
    <3> QED
      BY <3>1, <3>2, <1>a
  <2> QED
    BY <1>3, <2>2, <2>3, <2>4, <2>5, <2>6, <2>7, <2>8, SourceForm
<1> QED
  BY <1>1, <1>2, <1>3

\* A graph whose list of scenes names scenes is a graph.
LEMMA GraphIs ==
  ASSUME NEW g, IsGraph(g), NEW h, DOMAIN h = DOMAIN g, NEW S, None \notin S, h.order \in Seq(S)
  PROVE  IsGraph(h)
<1>1. \A i \in 1 .. Len(h.order) : h.order[i] \in Scenes(h) \ {None}
  BY DEF Scenes, Range
<1>2. h.order \in Seq(Scenes(h) \ {None})
  BY <1>1
<1> QED
  BY <1>2 DEF IsGraph

\* A removed scene leaves the order of the others.
LEMMA RemovedOrder ==
  ASSUME NEW g, IsGraph(g), NEW name \in Scenes(g)
  PROVE  /\ Removed(g, name).order \in Seq(Scenes(g) \ {None})
         /\ DOMAIN Removed(g, name) = DOMAIN g
<1> DEFINE place == CHOOSE i \in DOMAIN g.order : g.order[i] = name
           rest == [i \in 1 .. Len(g.order) - 1 |-> g.order[IF i < place THEN i ELSE i + 1]]
<1>1. g.order \in Seq(Scenes(g) \ {None})
  BY DEF IsGraph
<1>2. place \in 1 .. Len(g.order)
  BY <1>1 DEF Scenes, Range
<1>3. Len(g.order) - 1 \in Nat
  BY <1>1, <1>2
<1> HIDE DEF place
<1>4. \A i \in 1 .. Len(g.order) - 1 : rest[i] \in Scenes(g) \ {None}
  BY <1>1, <1>2, <1>3
<1> DEFINE n == Len(g.order) - 1
<1>5. rest \in [1 .. n -> Scenes(g) \ {None}]
  BY <1>4
<1> HIDE DEF n, rest
<1>6. rest \in Seq(Scenes(g) \ {None})
  BY <1>3, <1>5 DEF n
<1>7. Removed(g, name).order = rest
  BY DEF Removed, place, IsGraph, rest
<1> QED
  BY <1>6, <1>7 DEF Removed

\* The plugin leaves a list of scenes that has a name for each.
LEMMA GraphKept ==
  ASSUME NEW g, IsGraph(g), NEW o, IsSceneOperation(o), NEW outcome \in PerformOnGraph(g, o)
  PROVE  IsGraph(outcome.after)
<1> DEFINE after == outcome.after
<1>1. g.order \in Seq(Scenes(g) \ {None})
  BY DEF IsGraph
<1>2. SUFFICES DOMAIN after = DOMAIN g /\ (after.order = g.order \/ \E S : None \notin S /\ after.order \in Seq(S))
  BY <1>1, GraphIs
<1>a. "order" \in DOMAIN g
  BY DEF IsGraph
<1>3. CASE NamesOf(o) \cap WideNames # {}
  BY <1>3 DEF PerformOnGraph, Refuse
<1>4. CASE NamesOf(o) \cap WideNames = {} /\ o.request = "CreateScene"
  <2>1. CASE o.name \in Sources(g)
    BY <1>4, <2>1 DEF PerformOnGraph, CreateScene, Refuse
  <2>2. CASE o.name \notin Sources(g)
    <3>1. after = [g EXCEPT !.order = Append(@, o.name), !.items = With(@, o.name, <<>>)]
      BY <1>4, <2>2 DEF PerformOnGraph, CreateScene, Accept, Give
    <3>2. Append(g.order, o.name) \in Seq((Scenes(g) \ {None}) \cup {o.name})
      BY <1>1
    <3> QED
      BY <1>4, <3>1, <3>2, SceneForm DEF IsGraph
  <2> QED
    BY <2>1, <2>2
<1>5. CASE NamesOf(o) \cap WideNames = {} /\ o.request \in {"SetCurrentTransition", "SetCurrentProfile", "SetCurrentSceneCollection"}
  <2>1. DOMAIN after = DOMAIN g /\ after.order = g.order
    <3>1. CASE o.request = "SetCurrentTransition"
      <4> DEFINE d == IF o.value = -1 THEN g.duration ELSE IF o.value > LongestDuration THEN LongestDuration ELSE o.value
      <4>1. outcome \in SetCurrentTransition(g, o)
        BY <1>5, <3>1 DEF PerformOnGraph
      <4>2. after \in {g, [g EXCEPT !.transition = o.name, !.duration = d]}
        BY <4>1 DEF SetCurrentTransition, Refuse, Accept, Give
      <4> HIDE DEF d
      <4> QED
        BY <1>a, <4>2
    <3>2. CASE o.request = "SetCurrentProfile"
      BY <1>a, <1>5, <3>2 DEF PerformOnGraph, SetProfile, Refuse, Accept, Give
    <3>3. CASE o.request = "SetCurrentSceneCollection"
      BY <1>a, <1>5, <3>3 DEF PerformOnGraph, SetSceneCollection, Refuse, Accept, Give
    <3> QED
      BY <1>5, <3>1, <3>2, <3>3
  <2> QED
    BY <2>1
<1>6. CASE NamesOf(o) \cap WideNames = {} /\ o.request \in {"SetStudioMode", "TriggerStudioModeTransition"}
  <2>1. DOMAIN after = DOMAIN g /\ after.order = g.order
    <3>1. CASE o.request = "SetStudioMode"
      <4> DEFINE p == IF ~o.value THEN None ELSE IF g.studio THEN g.preview ELSE g.current
      <4>1. outcome \in SetStudioMode(g, o)
        BY <1>6, <3>1 DEF PerformOnGraph
      <4>2. after \in {g, [g EXCEPT !.studio = o.value, !.preview = p]}
        <5>1. outcome.after = g \/ outcome.after = [g EXCEPT !.studio = o.value, !.preview = p]
          <6> HIDE DEF p
          <6>1. SetStudioMode(g, o) = OrIgnored(g, Accept([g EXCEPT !.studio = o.value, !.preview = p]))
            BY DEF SetStudioMode, p
          <6> QED
            BY <4>1, <6>1 DEF OrIgnored, Refuse, Accept, Give
        <5> QED
          BY <5>1
      <4> HIDE DEF p
      <4> QED
        BY <1>a, <4>2
    <3>2. CASE o.request = "TriggerStudioModeTransition"
      <4> DEFINE p == IF g.swaps THEN g.current ELSE None
      <4>1. outcome \in TriggerStudioModeTransition(g)
        BY <1>6, <3>2 DEF PerformOnGraph
      <4>2. after \in {g, [g EXCEPT !.current = g.preview, !.swapping = p]}
        BY <4>1 DEF TriggerStudioModeTransition, Refuse, Accept, Give
      <4> HIDE DEF p
      <4> QED
        BY <1>a, <4>2
    <3> QED
      BY <1>6, <3>1, <3>2
  <2> QED
    BY <2>1
<1>7. CASE NamesOf(o) \cap WideNames = {} /\ o.name \notin Scenes(g)
           /\ o.request \in {"SetCurrentScene", "TriggerTransition", "RenameScene", "RemoveScene", "CreateSceneItem",
                             "SetCurrentPreviewScene", "SetSceneItemEnabled", "SetSceneItemTransform", "RemoveSceneItem"}
  BY <1>7 DEF PerformOnGraph, Refuse
<1>8. CASE NamesOf(o) \cap WideNames = {} /\ o.name \in Scenes(g)
           /\ o.request \in {"SetCurrentScene", "TriggerTransition", "RenameScene", "RemoveScene", "CreateSceneItem",
                             "SetCurrentPreviewScene", "SetSceneItemEnabled", "SetSceneItemTransform", "RemoveSceneItem"}
  <2>1. outcome \in PerformOnScene(g, o)
    BY <1>8 DEF PerformOnGraph
  <2>2. CASE o.request \in {"SetCurrentScene", "TriggerTransition", "SetCurrentPreviewScene"}
    <3>1. DOMAIN after = DOMAIN g /\ after.order = g.order
      BY <1>a, <2>1, <2>2 DEF PerformOnScene, SetCurrentScene, SetCurrentPreviewScene, OrIgnored, Refuse, Accept, Give
    <3> QED
      BY <3>1
  <2>3. CASE o.request = "RenameScene"
    <3>1. CASE o.value \in Sources(g)
      BY <2>1, <2>3, <3>1 DEF PerformOnScene, RenameScene, Refuse
    <3>2. CASE o.value \notin Sources(g)
      <4> DEFINE order == [i \in DOMAIN g.order |-> Renamed(g.order[i], o.name, o.value)]
             items == RenamedItems(With(Restrict(g.items, DOMAIN g.items \ {o.name}), o.value, g.items[o.name]), o.name, o.value)
      <4> HIDE DEF order, items
      <4>0. after = [g EXCEPT !.order = order, !.items = items, !.current = Renamed(@, o.name, o.value),
                              !.preview = Renamed(@, o.name, o.value)]
        BY <2>1, <2>3, <3>2 DEF PerformOnScene, RenameScene, Accept, Give, order, items
      <4>1. DOMAIN after = DOMAIN g /\ after.order = order
        BY <1>a, <4>0
      <4>2. order \in Seq((Scenes(g) \ {None}) \cup {o.value})
        BY <1>1 DEF Renamed, order
      <4> QED
        BY <2>3, <4>1, <4>2, SceneForm
    <3> QED
      BY <3>1, <3>2
  <2>4. CASE o.request = "RemoveScene"
    <3>1. after = Removed(g, o.name)
      BY <2>1, <2>4 DEF PerformOnScene, RemoveScene, Refuse, Accept, Give
    <3> QED
      BY <1>8, <3>1, RemovedOrder
  <2>5. CASE o.request = "CreateSceneItem"
    <3>1. DOMAIN after = DOMAIN g /\ after.order = g.order
      BY <1>a, <2>1, <2>5 DEF PerformOnScene, CreateSceneItem, Refuse, Give
    <3> QED
      BY <3>1
  <2>6. CASE o.request \in {"SetSceneItemEnabled", "SetSceneItemTransform", "RemoveSceneItem"}
    <3>1. DOMAIN after = DOMAIN g /\ after.order = g.order
      BY <1>a, <2>1, <2>6, SMTT(30) DEF PerformOnScene, ChangeSceneItem, OrIgnored, Refuse, Accept, Give
    <3> QED
      BY <3>1
  <2> QED
    BY <1>8, <2>2, <2>3, <2>4, <2>5, <2>6
<1> QED
  BY <1>3, <1>4, <1>5, <1>6, <1>7, <1>8, SceneForm

\* OBS draws the next frame: no more than the size of the source changes.
LEMMA FrameDrawn ==
  ASSUME NEW w, IsOverlays(w)
  PROVE  /\ IsOverlays(NextFrame(w))
         /\ \A part \in {"scenes", "places", "source", "canvas", "clock", "created"} : NextFrame(w)[part] = w[part]
  BY DEF NextFrame, IsOverlays

\* An item is put in its place.
LEMMA ItemPlaced ==
  ASSUME NEW w, IsOverlays(w), NEW scene, NEW anchor, NEW margin, NEW outcome \in Position(w, scene, anchor, margin)
  PROVE  /\ IsOverlays(outcome.after) /\ outcome.code = "accepted" /\ outcome.got = 0
         /\ DOMAIN outcome.after.places = DOMAIN w.places \cup {scene}
         /\ \A part \in {"scenes", "source", "canvas", "clock", "created"} : outcome.after[part] = w[part]
<1>1. PICK now \in {w, NextFrame(w)} :
        outcome \in Accept([now EXCEPT !.places = With(@, scene, AnchorPosition(w.canvas, now.size, anchor, margin))])
  BY DEF Position
<1> DEFINE places == With(now.places, scene, AnchorPosition(w.canvas, now.size, anchor, margin))
<1>2. outcome.after = [now EXCEPT !.places = places] /\ outcome.code = "accepted" /\ outcome.got = 0
  BY <1>1 DEF Accept, Give
<1>3. /\ IsOverlays(now) /\ now.places = w.places
      /\ \A part \in {"scenes", "source", "canvas", "clock", "created"} : now[part] = w[part]
  BY FrameDrawn
<1>4. DOMAIN places = DOMAIN w.places \cup {scene}
  BY <1>3 DEF With, ++
<1> HIDE DEF places
<1> QED
  BY <1>2, <1>3, <1>4 DEF IsOverlays

\* An overlay whose settings are changed by a layout.
LEMMA LaidOut ==
  ASSUME NEW source, IsOverlay(source), source.kind \in {"agent", "presentation"}, NEW layout, IsLayout(source.kind, layout)
  PROVE  /\ IsOverlay(layout ++ source)
         /\ (layout ++ source).kind = source.kind
         /\ source.kind = "agent" =>
              (layout ++ source).sequence = source.sequence /\ (layout ++ source).by = source.by
<1>1. CASE source.kind = "agent"
  <2>1. /\ DOMAIN (layout ++ source) = DOMAIN source
        /\ \A part \in {"kind", "agent", "sequence", "by", "active", "activity", "duration", "expires"} :
             (layout ++ source)[part] = source[part]
    BY <1>1 DEF IsLayout, IsOverlay, ++
  <2> QED
    BY <1>1, <2>1 DEF IsOverlay
<1>2. CASE source.kind = "presentation"
  <2>1. DOMAIN (layout ++ source) = DOMAIN source /\ (layout ++ source).kind = source.kind
    BY <1>2 DEF IsLayout, IsOverlay, ++
  <2> QED
    BY <1>2, <2>1 DEF IsOverlay
<1> QED
  BY <1>1, <1>2

\* The defaults of the two overlays.
LEMMA NewOverlay ==
  ASSUME NEW kind \in {"agent", "presentation"}
  PROVE  IsOverlay(NewSource(kind)) /\ NewSource(kind).kind = kind
<1>1. CASE kind = "agent"
  <2> DEFINE own == [kind |-> kind, anchor |-> "bottom_right", opacity |-> 78, margin |-> 48, agent |-> "agent",
                     sequence |-> 0, by |-> "nobody"]
  <2>1. NewSource(kind) = own ++ Quiet
    BY <1>1 DEF NewSource
  <2>2. /\ DOMAIN own = {"kind", "anchor", "opacity", "margin", "agent", "sequence", "by"} /\ own.kind = "agent"
        /\ own.sequence = 0
    BY <1>1
  <2>3. DOMAIN Quiet = {"active", "activity", "duration", "expires"} /\ Quiet.active = FALSE /\ Quiet.expires = 0
    BY DEF Quiet
  <2> HIDE DEF own
  <2>4. DOMAIN (own ++ Quiet) = AgentFields
    BY <2>2, <2>3 DEF ++, AgentFields
  <2>5. (own ++ Quiet).kind = "agent" /\ (own ++ Quiet).sequence = 0
    BY <2>2 DEF ++
  <2>6. (own ++ Quiet).active = FALSE /\ (own ++ Quiet).expires = 0
    BY <2>2, <2>3 DEF ++
  <2> DEFINE new == NewSource(kind)
  <2> HIDE DEF new
  <2>7. /\ DOMAIN new = AgentFields /\ new.kind = "agent" /\ new.sequence = 0 /\ new.active = FALSE /\ new.expires = 0
    BY <2>1, <2>4, <2>5, <2>6 DEF new
  <2>8. new.active \in BOOLEAN
    BY <2>7
  <2>9. new.sequence \in Nat /\ new.expires \in Nat
    BY <2>7
  <2>10. ~new.active => new.expires = 0
    BY <2>7
  <2>11. new.kind # "presentation"
    BY <2>7
  <2>12. IsOverlay(new)
    BY <2>7, <2>8, <2>9, <2>10, <2>11, Zenon DEF IsOverlay, AgentFields
  <2> QED
    BY <1>1, <2>7, <2>12 DEF new
<1>2. CASE kind = "presentation"
  BY <1>2 DEF NewSource, IsOverlay
<1> QED
  BY <1>1, <1>2

\* An overlay that is laid out anew stays an overlay of its kind, and is in place.
LEMMA Relaying ==
  ASSUME NEW w, IsOverlays(w), w.source.kind \in {"agent", "presentation"}, NEW scene,
         NEW layout, IsLayout(w.source.kind, layout), NEW outcome \in Relaid(w, scene, layout)
  PROVE  /\ IsOverlays(outcome.after) /\ outcome.code = "accepted" /\ outcome.got = 0
         /\ scene \in DOMAIN outcome.after.places /\ outcome.after.source.kind = w.source.kind
<1> DEFINE source == layout ++ w.source
           laid == [w EXCEPT !.source = source]
<1>1. IsOverlay(source) /\ source.kind = w.source.kind
  BY LaidOut DEF IsOverlays
<1>2. outcome \in Position(laid, scene, layout.anchor, source.margin)
  BY DEF Relaid
<1> HIDE DEF source
<1>3. IsOverlays(laid) /\ laid.source = source
  BY <1>1 DEF IsOverlays
<1> HIDE DEF laid
<1>4. /\ IsOverlays(outcome.after) /\ outcome.code = "accepted" /\ outcome.got = 0
      /\ DOMAIN outcome.after.places = DOMAIN laid.places \cup {scene} /\ outcome.after.source = laid.source
  BY <1>2, <1>3, ItemPlaced
<1> QED
  BY <1>1, <1>3, <1>4

\* What the plugin leaves of an overlay, and what it answers.
LEMMA OverlaysKept ==
  ASSUME NEW w, IsOverlays(w), NEW o, IsOverlayOperation(o), NEW outcome \in PerformOnOverlay(w, o)
  PROVE  /\ IsOverlays(outcome.after)
         /\ outcome.code # "accepted" => outcome.after = w /\ outcome.got = 0
         /\ outcome.code = "accepted" => Bound(outcome.after, o)
         /\ outcome.code = "accepted" /\ o.request = "EmitActivity" =>
              /\ outcome.after.created = w.created /\ outcome.after.source.by = o.value.by
              /\ outcome.got = outcome.after.source.sequence /\ outcome.got # 0
<1> DEFINE kind == o.value.kind
           after == outcome.after
<1>1. CASE o.request = "CreateOverlay"
  <2>1. outcome \in CreateOverlay(w, o)
    BY <1>1 DEF PerformOnOverlay
  <2>2. kind \in {"agent", "presentation"} /\ IsLayout(kind, o.value.layout)
    BY <1>1, OverlayForm
  <2> DEFINE fresh == o.value.layout ++ NewSource(kind)
             created == [w EXCEPT !.source = fresh, !.size = SizeOf(fresh), !.created = @ + 1]
  <2>3. CASE o.name \in w.scenes /\ w.source = NoSource
    <3>1. outcome \in Relaid(created, o.name, o.value.layout)
      BY <2>1, <2>3 DEF CreateOverlay
    <3>2. IsOverlay(fresh) /\ fresh.kind = kind
      BY <2>2, NewOverlay, LaidOut
    <3> HIDE DEF fresh
    <3>3. IsOverlays(created) /\ created.source.kind = kind
      BY <3>2 DEF IsOverlays
    <3> HIDE DEF created
    <3>4. /\ IsOverlays(after) /\ outcome.code = "accepted" /\ outcome.got = 0
          /\ o.name \in DOMAIN after.places /\ after.source.kind = kind
      BY <2>2, <3>1, <3>3, Relaying
    <3> QED
      BY <1>1, <3>4 DEF Bound
  <2>4. CASE o.name \in w.scenes /\ w.source # NoSource /\ w.source.kind = kind
    <3>1. outcome \in Relaid(w, o.name, o.value.layout)
      BY <2>1, <2>4 DEF CreateOverlay
    <3>2. /\ IsOverlays(after) /\ outcome.code = "accepted" /\ outcome.got = 0
          /\ o.name \in DOMAIN after.places /\ after.source.kind = kind
      BY <2>2, <2>4, <3>1, Relaying
    <3> QED
      BY <1>1, <3>2 DEF Bound
  <2>5. CASE o.name \notin w.scenes \/ (w.source # NoSource /\ w.source.kind # kind)
    BY <2>1, <2>5 DEF CreateOverlay, Refuse
  <2> QED
    BY <2>3, <2>4, <2>5
<1>2. CASE o.request # "CreateOverlay" /\ (~Bound(w, o) \/ (o.request = "EmitActivity" /\ o.value.activity = LongShortcut))
  BY <1>2 DEF PerformOnOverlay, Refuse
<1>3. CASE o.request = "SetOverlayLayout" /\ Bound(w, o)
  <2>1. outcome \in Relaid(w, o.name, o.value.layout)
    BY <1>3 DEF PerformOnOverlay, SetOverlayLayout
  <2>2. w.source.kind = kind /\ kind \in {"agent", "presentation"} /\ IsLayout(kind, o.value.layout)
    BY <1>3, OverlayForm DEF Bound
  <2>3. /\ IsOverlays(after) /\ outcome.code = "accepted" /\ outcome.got = 0
        /\ o.name \in DOMAIN after.places /\ after.source.kind = kind
    BY <2>1, <2>2, Relaying
  <2> QED
    BY <1>3, <2>3 DEF Bound
<1>4. CASE o.request = "EmitActivity" /\ o.value.activity # LongShortcut /\ Bound(w, o)
  <2> DEFINE next == w.source.sequence + 1
             new == [active |-> TRUE, activity |-> o.value.activity, agent |-> o.value.agent,
                     duration |-> o.value.duration, expires |-> w.clock + o.value.duration, by |-> o.value.by,
                     sequence |-> next]
             source == new ++ w.source
  <2>1. after = [w EXCEPT !.source = source] /\ outcome.code = "accepted" /\ outcome.got = next
    BY <1>4 DEF PerformOnOverlay, EmitActivity, Give
  <2>2. w.source.kind = "agent" /\ kind = "agent" /\ o.value.duration \in Nat
    BY <1>4, OverlayForm DEF Bound
  <2>3. DOMAIN w.source = AgentFields /\ w.source.sequence \in Nat /\ w.clock \in Nat
    BY <2>2 DEF IsOverlays, IsOverlay, AgentFields
  <2>4. /\ DOMAIN new = {"active", "activity", "agent", "duration", "expires", "by", "sequence"}
        /\ new.by = o.value.by /\ new.sequence = next /\ new.expires = w.clock + o.value.duration
    OBVIOUS
  <2>5. new.active = TRUE
    OBVIOUS
  <2> HIDE DEF new
  <2>6. DOMAIN source = AgentFields /\ source.kind = "agent" /\ source.by = new.by
    BY <2>2, <2>3, <2>4 DEF AgentFields, ++
  <2>7. source.sequence = new.sequence /\ source.expires = new.expires /\ source.active = new.active
    BY <2>4 DEF ++
  <2> HIDE DEF source
  <2>8. source.sequence \in Nat /\ source.expires \in Nat /\ next # 0
    BY <2>2, <2>3, <2>4, <2>7
  <2>9. source.active = TRUE
    BY <2>5, <2>7
  <2>10. source.active \in BOOLEAN
    BY <2>9
  <2>11. ~source.active => source.expires = 0
    BY <2>9
  <2>12. IsOverlay(source)
    BY <2>6, <2>8, <2>10, <2>11, Zenon DEF IsOverlay, AgentFields
  <2>13. IsOverlays(after) /\ after.source = source /\ after.created = w.created /\ after.places = w.places
    BY <2>1, <2>2, <2>12 DEF IsOverlays
  <2> QED
    BY <1>4, <2>1, <2>2, <2>4, <2>6, <2>7, <2>8, <2>13 DEF Bound
<1>5. CASE o.request = "ClearOverlay" /\ Bound(w, o)
  <2> DEFINE next == w.source.sequence + 1
             new == Quiet ++ [sequence |-> next]
             source == new ++ w.source
  <2>1. after = [w EXCEPT !.source = source] /\ outcome.code = "accepted"
    BY <1>5 DEF PerformOnOverlay, ClearOverlay, Give
  <2>2. w.source.kind = "agent" /\ kind = "agent"
    BY <1>5, OverlayForm DEF Bound
  <2>3. DOMAIN w.source = AgentFields /\ w.source.sequence \in Nat
    BY <2>2 DEF IsOverlays, IsOverlay, AgentFields
  <2>4. /\ DOMAIN new = {"active", "activity", "duration", "expires", "sequence"}
        /\ new.sequence = next /\ new.expires = 0
    BY DEF Quiet, ++
  <2>5. new.active = FALSE
    BY DEF Quiet, ++
  <2> HIDE DEF new
  <2>6. DOMAIN source = AgentFields /\ source.kind = "agent"
    BY <2>2, <2>3, <2>4 DEF AgentFields, ++
  <2>7. source.sequence = new.sequence /\ source.expires = new.expires /\ source.active = new.active
    BY <2>4 DEF ++
  <2> HIDE DEF source
  <2>8. source.sequence \in Nat /\ source.expires = 0 /\ source.expires \in Nat
    BY <2>3, <2>4, <2>7
  <2>9. source.active \in BOOLEAN
    BY <2>5, <2>7
  <2>10. IsOverlay(source)
    BY <2>6, <2>8, <2>9, Zenon DEF IsOverlay, AgentFields
  <2>11. IsOverlays(after) /\ after.source = source /\ after.places = w.places
    BY <2>1, <2>2, <2>10 DEF IsOverlays
  <2> QED
    BY <1>5, <2>1, <2>2, <2>6, <2>11 DEF Bound
<1>6. CASE o.request = "UpdatePresentation" /\ Bound(w, o)
  <2> DEFINE new == [rows |-> o.value.rows, visible |-> o.value.visible]
             source == new ++ w.source
             drawn == [w EXCEPT !.source = source]
  <2>1. outcome \in Position(drawn, o.name, source.anchor, source.margin)
    BY <1>6 DEF PerformOnOverlay, UpdatePresentation
  <2>2. w.source.kind = "presentation" /\ kind = "presentation"
    BY <1>6, OverlayForm DEF Bound
  <2>3. DOMAIN w.source = PanelFields
    BY <2>2 DEF IsOverlays, IsOverlay, PanelFields
  <2>4. DOMAIN source = PanelFields /\ source.kind = "presentation"
    BY <2>2, <2>3 DEF PanelFields, ++
  <2> HIDE DEF source
  <2>5. IsOverlays(drawn) /\ drawn.source = source
    BY <2>4 DEF IsOverlays, IsOverlay, PanelFields
  <2> HIDE DEF drawn
  <2>6. /\ IsOverlays(after) /\ outcome.code = "accepted" /\ o.name \in DOMAIN after.places
        /\ after.source = drawn.source
    BY <2>1, <2>5, ItemPlaced
  <2> QED
    BY <1>6, <2>2, <2>4, <2>5, <2>6 DEF Bound
<1> QED
  BY <1>1, <1>2, <1>3, <1>4, <1>5, <1>6, OverlayForm
\* At every instant of a task the windows are windows, under the same handles.
LEMMA GlimpsesKept ==
  ASSUME NEW windows, IsWindows(windows), NEW seen \in Glimpses(windows), NEW i \in 1..4
  PROVE  IsWindows(seen[i]) /\ DOMAIN seen[i] = DOMAIN windows
<1>1. PICK from \in 2..4, after \in {windows} \cup {w \in Drifts(windows) : IsWindows(w) /\ DOMAIN w = DOMAIN windows} :
        seen = [j \in 1..4 |-> IF j < from THEN windows ELSE after]
  BY DEF Glimpses
<1> QED
  BY <1>1

\* The windows move on; the rest of the capture stays.
LEMMA NowIs ==
  ASSUME NEW c, IsCaptures(c), NEW seen \in Glimpses(c.windows)
  PROVE  /\ IsCaptures(Now(c, seen)) /\ DOMAIN Now(c, seen).windows = DOMAIN c.windows
         /\ Now(c, seen) = [c EXCEPT !.windows = Now(c, seen).windows]
<1>1. IsWindows(seen[4]) /\ DOMAIN seen[4] = DOMAIN c.windows
  BY GlimpsesKept DEF IsCaptures
<1>2. DOMAIN Now(c, seen) = DOMAIN c /\ Now(c, seen).windows = seen[4]
  BY DEF Now, IsCaptures
<1>3. Now(c, seen).items = c.items /\ Now(c, seen).source = c.source
  BY DEF Now, IsCaptures
<1>4. IsCaptures(Now(c, seen))
  BY <1>1, <1>2, <1>3, Zenon DEF IsCaptures
<1> QED
  BY <1>1, <1>2, <1>4 DEF Now

\* A status that was right from one look at the windows to the next is right at the later one.
LEMMA StatusLasts ==
  ASSUME NEW c, IsCaptures(c), NEW o, IsCaptureOperation(o), NEW first, NEW last,
         o.value.window.handle \in DOMAIN last, CaptureStatus(c, o, first, last) = "ok"
  PROVE  CaptureStatus([c EXCEPT !.windows = last], o, last, last) = "ok"
<1> DEFINE named == o.value.window
           actual == first[named.handle]
           d == [c EXCEPT !.windows = last]
<1>1. ValidateExactWindow(first, named) = "ok"
  BY DEF CaptureStatus
<1>2. actual.pid = named.pid /\ actual.title = named.title
  BY <1>1 DEF ValidateExactWindow
<1>3. c.scene /\ c.source # NoCapture /\ c.source.kind = "window_capture" /\ ~(c.items > 1) /\ c.items # 0
  BY <1>1 DEF CaptureStatus
<1>4. /\ SettingsMatch(c.source, o, actual, {"cursor", "audio", "method"})
      /\ c.visible = o.value.enabled
      /\ StillLive(last, named, actual)
  BY <1>1, <1>3, Zenon DEF CaptureStatus
<1>5. /\ Shown(last, named.handle) /\ last[named.handle].pid = actual.pid /\ last[named.handle].title = actual.title
      /\ last[named.handle].created = actual.created /\ last[named.handle].exe = actual.exe
  BY <1>4 DEF StillLive
<1>6. ValidateExactWindow(last, named) = "ok"
  BY <1>2, <1>5 DEF ValidateExactWindow
<1>7. d.scene = c.scene /\ d.source = c.source /\ d.items = c.items /\ d.visible = c.visible
  BY DEF IsCaptures
<1>8. SettingsMatch(c.source, o, last[named.handle], {"cursor", "audio", "method"})
  BY <1>4, <1>5 DEF SettingsMatch, Binding, Selector
<1>9. StillLive(last, named, last[named.handle])
  BY <1>5 DEF StillLive
<1>10. d.scene /\ d.source # NoCapture /\ d.source.kind = "window_capture" /\ ~(d.items > 1) /\ d.items # 0
  BY <1>3, <1>7
<1>11. SettingsMatch(d.source, o, last[named.handle], {"cursor", "audio", "method"}) /\ d.visible = o.value.enabled
  BY <1>4, <1>7, <1>8
<1> QED
  BY <1>6, <1>9, <1>10, <1>11, Zenon DEF CaptureStatus

\* What the plugin accepts of a capture it also reports, and what it refuses it has not changed.
CaptureOutcome(c, o, outcome) ==
  /\ outcome.code # "verified"
  /\ IsCaptures(outcome.after) /\ o.value.window.handle \in DOMAIN outcome.after.windows /\ outcome.got = 0
  /\ outcome.code # "accepted" => outcome.after = [c EXCEPT !.windows = outcome.after.windows]
  /\ outcome.code = "accepted" /\ o.matches # "Ready" =>
       CaptureStatus(outcome.after, o, outcome.after.windows, outcome.after.windows) = "ok"

\* A change that is verified before it is answered.
LEMMA VerifiedChange ==
  ASSUME NEW c, IsCaptures(c), NEW changed, IsCaptures(changed), changed.windows = c.windows,
         NEW o, IsCaptureOperation(o), o.value.window.handle \in DOMAIN c.windows,
         NEW seen \in Glimpses(c.windows), NEW outcome \in Verify(c, changed, o, seen)
  PROVE  CaptureOutcome(c, o, outcome)
<1> DEFINE status == CaptureStatus(changed, o, seen[3], seen[4])
<1>1. /\ IsCaptures(Now(c, seen)) /\ DOMAIN Now(c, seen).windows = DOMAIN c.windows
      /\ Now(c, seen) = [c EXCEPT !.windows = Now(c, seen).windows]
  BY NowIs
<1>2. IsCaptures(Now(changed, seen)) /\ DOMAIN Now(changed, seen).windows = DOMAIN c.windows
  BY NowIs
<1>3. DOMAIN seen[4] = DOMAIN c.windows
  BY GlimpsesKept DEF IsCaptures
<1>4. CASE status = "ok"
  <2>1. outcome.code = "accepted" /\ outcome.after = Now(changed, seen) /\ outcome.got = 0
    BY <1>4 DEF Verify, Accept, Give
  <2>2. Now(changed, seen).windows = seen[4] /\ Now(changed, seen) = [changed EXCEPT !.windows = seen[4]]
    BY DEF Now, IsCaptures
  <2>3. CaptureStatus([changed EXCEPT !.windows = seen[4]], o, seen[4], seen[4]) = "ok"
    BY <1>3, <1>4, StatusLasts
  <2> QED
    BY <1>2, <2>1, <2>2, <2>3 DEF CaptureOutcome
<1>5. CASE status # "ok"
  <2>1. outcome.code = status /\ outcome.after = Now(c, seen) /\ outcome.got = 0
    BY <1>5 DEF Verify, Refuse
  <2>2. status # "accepted" /\ status # "verified"
    BY DEF CaptureStatus, ValidateExactWindow
  <2> QED
    BY <1>1, <2>1, <2>2 DEF CaptureOutcome
<1> QED
  BY <1>4, <1>5

\* The plugin leaves captures that are made of what captures are made of.
LEMMA CapturesKept ==
  ASSUME NEW c, IsCaptures(c), NEW o, IsCaptureOperation(o), o.value.window.handle \in DOMAIN c.windows,
         NEW outcome \in PerformOnCapture(c, o)
  PROVE  CaptureOutcome(c, o, outcome)
<1> DEFINE handle == o.value.window.handle
           Fine(x) == CaptureOutcome(c, o, x)
<1>1. PICK seen \in Glimpses(c.windows) : outcome \in PerformSeeing(c, o, seen)
  BY DEF PerformOnCapture
<1>2. \A code : code \notin {"accepted", "verified"} => \A x \in Refuse(Now(c, seen), code) : Fine(x)
  BY NowIs DEF Refuse, CaptureOutcome
<1>3. \A changed : IsCaptures(changed) /\ changed.windows = c.windows => \A x \in Verify(c, changed, o, seen) : Fine(x)
  BY VerifiedChange
<1>4. DOMAIN c = {"scene", "source", "items", "visible", "windows"} /\ c.items \in Nat /\ IsWindows(c.windows)
  BY DEF IsCaptures
<1>5. CASE ValidateExactWindow(seen[1], o.value.window) # "ok"
  <2>1. outcome \in Refuse(Now(c, seen), ValidateExactWindow(seen[1], o.value.window))
    BY <1>1, <1>5 DEF PerformSeeing
  <2>2. ValidateExactWindow(seen[1], o.value.window) \notin {"accepted", "verified"}
    BY DEF ValidateExactWindow
  <2> QED
    BY <1>2, <2>1, <2>2
<1>6. CASE ValidateExactWindow(seen[1], o.value.window) = "ok" /\ o.request = "CreateWindowCaptureSource"
  <2> DEFINE source == [kind |-> "window_capture", config |-> o.value.config] ++ NewBinding(o, seen)
             changed == [c EXCEPT !.source = source, !.items = 1, !.visible = o.value.enabled]
  <2>1. outcome \in CreateCapture(c, o, seen)
    BY <1>1, <1>6 DEF PerformSeeing
  <2>2. \/ \E code \in {"OBS_SCENE_NOT_FOUND", "OBS_SOURCE_ALREADY_EXISTS", "OBS_WINDOW_IDENTITY_DRIFT"} : outcome \in Refuse(Now(c, seen), code)
        \/ outcome \in Verify(c, changed, o, seen)
    BY <2>1 DEF CreateCapture
  <2>3. DOMAIN source = {"kind", "config", "binding", "selector"}
    BY DEF ++, NewBinding
  <2>4. DOMAIN changed = DOMAIN c /\ changed.source = source /\ changed.windows = c.windows /\ changed.items = 1
    BY <1>4
  <2> HIDE DEF source, changed
  <2>5. IsCaptures(changed)
    BY <1>4, <2>3, <2>4 DEF IsCaptures
  <2> QED
    BY <1>2, <1>3, <2>2, <2>4, <2>5
<1>7. CASE ValidateExactWindow(seen[1], o.value.window) = "ok" /\ o.request = "RestoreWindowCaptureCandidate"
  <2> DEFINE now == Now(c, seen)
             asked == [now EXCEPT !.windows[handle].restoring = TRUE]
  <2>1. outcome \in RestoreWindow(c, o, seen)
    BY <1>1, <1>7 DEF PerformSeeing
  <2>2. o.matches = "Ready"
    BY <1>7, CaptureForm
  <2>3. /\ DOMAIN now = DOMAIN c /\ now.windows = seen[4] /\ now.items = c.items /\ now.source = c.source
        /\ IsCaptures(now) /\ DOMAIN now.windows = DOMAIN c.windows
    BY <1>4, NowIs DEF Now
  <2> HIDE DEF now
  <2>4. \/ \E code \in {"OBS_WINDOW_IDENTITY_DRIFT", "OBS_MUTATION_REJECTED"} : outcome \in Refuse(now, code)
        \/ outcome \in Accept(now)
        \/ outcome \in Accept(asked) /\ seen[4][handle] # NoWindow
    BY <2>1 DEF RestoreWindow, now
  <2>5. CASE \E code \in {"OBS_WINDOW_IDENTITY_DRIFT", "OBS_MUTATION_REJECTED"} : outcome \in Refuse(now, code)
    BY <1>2, <2>5 DEF now
  <2>6. CASE outcome \in Accept(now)
    BY <2>2, <2>3, <2>6 DEF Accept, Give, CaptureOutcome
  <2>7. CASE outcome \in Accept(asked) /\ seen[4][handle] # NoWindow
    <3> DEFINE windows == [now.windows EXCEPT ![handle] = [now.windows[handle] EXCEPT !.restoring = TRUE]]
    <3>1. DOMAIN windows = DOMAIN now.windows
      OBVIOUS
    <3>2. \A h \in DOMAIN windows : DOMAIN windows[h] = DOMAIN now.windows[h] /\ (windows[h] = now.windows[h] \/ h = handle)
      OBVIOUS
    <3>3. now.windows[handle] # NoWindow
      BY <2>3, <2>7
    <3>4. IsWindows(now.windows)
      BY <2>3 DEF IsCaptures
    <3> HIDE DEF windows
    <3>5. IsWindows(windows)
      BY <3>1, <3>2, <3>3, <3>4 DEF IsWindows
    <3>6. asked = [now EXCEPT !.windows = windows]
      BY DEF windows
    <3>7. DOMAIN asked = DOMAIN now /\ asked.windows = windows /\ asked.items = now.items /\ asked.source = now.source
      BY <1>4, <2>3, <3>6
    <3> HIDE DEF asked
    <3>8. IsCaptures(asked)
      BY <2>3, <3>5, <3>7 DEF IsCaptures
    <3> QED
      BY <2>2, <2>3, <2>7, <3>1, <3>7, <3>8 DEF Accept, Give, CaptureOutcome
  <2> QED
    BY <2>4, <2>5, <2>6, <2>7
<1>8. CASE /\ ValidateExactWindow(seen[1], o.value.window) = "ok"
           /\ o.request \in {"RebindWindowCaptureSource", "SetWindowCaptureMethod"}
  <2> DEFINE rebound == NewBinding(o, seen) ++ c.source
             changed(source) == [c EXCEPT !.source = source]
  <2>1. outcome \in ChangeCapture(c, o, seen)
    BY <1>1, <1>8 DEF PerformSeeing
  <2>2. \/ \E code \in {"OBS_SCENE_NOT_FOUND", "OBS_SOURCE_NOT_FOUND", "OBS_TARGET_AMBIGUOUS", "OBS_WINDOW_IDENTITY_DRIFT"} :
             outcome \in Refuse(Now(c, seen), code)
        \/ /\ SourceOwned(c, o) \/ SourceMatchesWindow(c, o, seen)
           /\ \E source \in {rebound, [c.source EXCEPT !.config = o.value.config]} : outcome \in Verify(c, changed(source), o, seen)
    BY <2>1 DEF ChangeCapture
  <2>3. CASE \E code \in {"OBS_SCENE_NOT_FOUND", "OBS_SOURCE_NOT_FOUND", "OBS_TARGET_AMBIGUOUS", "OBS_WINDOW_IDENTITY_DRIFT"} :
                outcome \in Refuse(Now(c, seen), code)
    BY <1>2, <2>3
  <2>4. ASSUME SourceOwned(c, o) \/ SourceMatchesWindow(c, o, seen),
               NEW source \in {rebound, [c.source EXCEPT !.config = o.value.config]}, outcome \in Verify(c, changed(source), o, seen)
        PROVE  Fine(outcome)
    <3>1. c.source.kind = "window_capture"
      BY <2>4 DEF SourceOwned, SourceMatchesWindow
    <3>2. DOMAIN c.source = {"kind", "config", "binding", "selector"}
      BY <3>1 DEF IsCaptures
    <3>3. DOMAIN source = {"kind", "config", "binding", "selector"}
      BY <2>4, <3>2 DEF NewBinding, ++
    <3>4. /\ DOMAIN changed(source) = DOMAIN c /\ changed(source).source = source /\ changed(source).windows = c.windows
          /\ changed(source).items = c.items
      BY <1>4
    <3> HIDE DEF changed
    <3>5. IsCaptures(changed(source))
      BY <1>4, <3>3, <3>4 DEF IsCaptures
    <3> QED
      BY <1>3, <2>4, <3>4, <3>5
  <2> QED
    BY <2>2, <2>3, <2>4
<1> QED
  BY <1>5, <1>6, <1>7, <1>8, CaptureForm

\* Windows that come back are the same windows.
LEMMA RestoredIs ==
  ASSUME NEW c, IsCaptures(c)
  PROVE  /\ IsCaptures(Restored(c)) /\ DOMAIN Restored(c).windows = DOMAIN c.windows
         /\ \A part \in {"scene", "source", "items", "visible"} : Restored(c)[part] = c[part]
         /\ \A h \in DOMAIN c.windows : c.windows[h] # NoWindow =>
              /\ Restored(c).windows[h] # NoWindow
              /\ \A part \in {"pid", "created", "title", "exe", "visible"} : Restored(c).windows[h][part] = c.windows[h][part]
<1> DEFINE window(h) == IF c.windows[h] # NoWindow /\ c.windows[h].restoring
                        THEN [c.windows[h] EXCEPT !.minimized = FALSE, !.restoring = FALSE] ELSE c.windows[h]
           after == [h \in DOMAIN c.windows |-> window(h)]
           parts == {"pid", "created", "title", "exe", "visible", "minimized", "sized", "restoring"}
<1>1. Restored(c) = [c EXCEPT !.windows = after]
  BY DEF Restored
<1>2. \A h \in DOMAIN c.windows : c.windows[h] # NoWindow => DOMAIN c.windows[h] = parts
  BY DEF IsCaptures, IsWindows
<1>3. \A h \in DOMAIN c.windows : c.windows[h] # NoWindow =>
        /\ DOMAIN window(h) = parts
        /\ \A part \in {"pid", "created", "title", "exe", "visible"} : window(h)[part] = c.windows[h][part]
  BY <1>2
<1>4. \A h \in DOMAIN c.windows : c.windows[h] = NoWindow => window(h) = NoWindow
  OBVIOUS
<1>5. \A w : DOMAIN w = parts => w # NoWindow
  <2>1. DOMAIN NoWindow = {"pid"} /\ "exe" \in parts
    BY DEF NoWindow
  <2> QED
    BY <2>1
<1>6. DOMAIN after = DOMAIN c.windows /\ \A h \in DOMAIN c.windows : after[h] = window(h)
  OBVIOUS
<1> HIDE DEF window, after, parts
<1>7. IsWindows(after)
  <2> SUFFICES ASSUME NEW h \in DOMAIN after, after[h] # NoWindow
               PROVE  DOMAIN after[h] = parts
    BY DEF IsWindows, parts
  <2> QED
    BY <1>3, <1>4, <1>6
<1>8. /\ DOMAIN Restored(c) = DOMAIN c /\ Restored(c).windows = after
      /\ \A part \in {"scene", "source", "items", "visible"} : Restored(c)[part] = c[part]
  BY <1>1 DEF IsCaptures
<1>9. IsCaptures(Restored(c))
  BY <1>7, <1>8 DEF IsCaptures
<1> QED
  BY <1>3, <1>5, <1>6, <1>8, <1>9

\* What has begun and ends leaves OBS made of what it is made of.
LEMMA SettledKept ==
  ASSUME IsOperation(op), IsWorld(op, world)
  PROVE  IsWorld(op, Settled(world))
<1>1. CASE op.domain = "sources"
  <2> DEFINE after == [name \in DOMAIN world |->
                         IF world[name].media = "opening" THEN [world[name] EXCEPT !.media = "playing"] ELSE world[name]]
  <2>1. \A name \in DOMAIN world : IsSource(world[name])
    BY <1>1 DEF IsWorld, IsSources
  <2>2. \A source : IsSource(source) => IsSource([source EXCEPT !.media = "playing"])
    BY DEF IsSource
  <2>3. DOMAIN after = DOMAIN world /\ \A name \in DOMAIN world : after[name] \in {world[name], [world[name] EXCEPT !.media = "playing"]}
    OBVIOUS
  <2>4. Settled(world) = after
    BY <1>1 DEF Settled
  <2> HIDE DEF after
  <2> QED
    BY <1>1, <2>1, <2>2, <2>3, <2>4 DEF IsWorld, IsSources
<1>2. CASE op.domain = "scenes"
  <2> DEFINE g == EndTransition(world)
  <2>1. IsGraph(world) /\ Settled(world) = Prune(g)
    BY <1>2 DEF IsWorld, Settled
  <2>2. DOMAIN g = DOMAIN world /\ g.order = world.order
    BY <2>1 DEF EndTransition, IsGraph
  <2> HIDE DEF g
  <2>3. DOMAIN Prune(g) = DOMAIN world /\ Prune(g).order = world.order
    BY <2>1, <2>2 DEF Prune, IsGraph
  <2>4. IsGraph(Prune(g))
    BY <2>1, <2>3, Zenon DEF IsGraph, Scenes
  <2> QED
    BY <1>2, <2>1, <2>4 DEF IsWorld
<1>3. CASE op.domain = "captures"
  BY <1>3, RestoredIs DEF IsWorld, Settled
<1>4. CASE op.domain = "overlays"
  BY <1>4, FrameDrawn DEF IsWorld, Settled
<1> QED
  BY <1>1, <1>2, <1>3, <1>4 DEF IsOperation

\* After a request that was accepted, the read-back finds something of the kind it looks for.
ReadableSource(o, s) ==
  \/ o.request = "SetFilterEnabled"
  \/ /\ o.target \in DOMAIN s
     /\ o.read = "GetInputSettings" => s[o.target].kind = "color_source_v3"
     /\ o.read = "GetFilter" => /\ s[o.target].filter # Nothing /\ s[o.target].filter.kind = "gain_filter"
                                /\ NormalizedFilter(s[o.target].filter.db)
     /\ o.read = "GetMediaStatus" => s[o.target].kind = "media"

\* What an answer to a request about a source says of the sources.
LEMMA SourceAnswered ==
  ASSUME NEW s, IsSources(s), NEW o, IsSourceOperation(o), NEW outcome \in PerformOnSource(s, o)
  PROVE  /\ outcome.code # "verified" /\ outcome.got = 0
         /\ outcome.code \in Refusals => outcome.after = s
         /\ outcome.code = "accepted" /\ o.read # "nothing" => ReadableSource(o, outcome.after)
         /\ outcome.code = "accepted" /\ o.read = "nothing" => SourceGoal(o, outcome.after)
<1> DEFINE n == o.name
           source == s[n]
           t == outcome.after
<1>1. \A state, code : code # "accepted" => \A x \in Refuse(state, code) : x.code = code /\ x.got = 0 /\ x.after = state
  BY DEF Refuse
<1>2. \A state : \A x \in Accept(state) : x.code = "accepted" /\ x.got = 0 /\ x.after = state
  BY DEF Accept, Give
<1>3. "accepted" \notin Refusals
  BY DEF Refusals
<1>4. ASSUME NEW code \in {"OBS_SCENE_NOT_FOUND", "OBS_SOURCE_NOT_FOUND", "OBS_SOURCE_KIND_UNSUPPORTED", "OBS_TARGET_AMBIGUOUS",
                           "OBS_FILTER_KIND_UNSUPPORTED", "OBS_MEDIA_NOT_CONTROLLABLE"},
             outcome \in Refuse(s, code)
      PROVE  outcome.code # "verified" /\ outcome.code # "accepted" /\ outcome.got = 0 /\ t = s
  BY <1>1, <1>4
<1>5. CASE o.request = "CreateSource"
  <2> DEFINE new == NewColorSource(o.value.settings, o.value.enabled)
  <2>1. \/ \E code \in {"OBS_SCENE_NOT_FOUND", "OBS_TARGET_AMBIGUOUS"} : outcome \in Refuse(s, code)
        \/ outcome \in Accept(With(s, n, new))
    BY <1>5 DEF PerformOnSource, CreateSource
  <2>2. new.kind = "color_source_v3"
    BY DEF NewColorSource
  <2> HIDE DEF new
  <2>3. CASE outcome \in Accept(With(s, n, new))
    <3>1. n \in DOMAIN t /\ t[n] = new
      BY <1>2, <2>3 DEF With, ++
    <3> QED
      BY <1>2, <1>3, <1>5, <2>2, <2>3, <3>1, SourceForm DEF ReadableSource
  <2> QED
    BY <1>4, <2>1, <2>3
<1>6. CASE o.request # "CreateSource" /\ o.name \notin DOMAIN s
  BY <1>4, <1>6 DEF PerformOnSource
<1>7. CASE o.request # "CreateSource" /\ o.name \in DOMAIN s
  <2>1. IsSource(source)
    BY <1>7 DEF IsSources
  <2>2. CASE o.request = "RenameSource"
    <3>1. \/ \E code \in {"OBS_SOURCE_KIND_UNSUPPORTED", "OBS_TARGET_AMBIGUOUS"} : outcome \in Refuse(s, code)
          \/ outcome \in Accept(With(Restrict(s, DOMAIN s \ {n}), o.value, source))
      BY <1>7, <2>2 DEF PerformOnSource, RenameSource
    <3>2. CASE outcome \in Accept(With(Restrict(s, DOMAIN s \ {n}), o.value, source))
      <4>1. o.value \in DOMAIN t
        BY <1>2, <3>2 DEF With, ++
      <4> QED
        BY <1>2, <1>3, <2>2, <3>2, <4>1, SourceForm DEF ReadableSource
    <3> QED
      BY <1>4, <3>1, <3>2
  <2>3. CASE o.request = "RemoveSource"
    <3> DEFINE after == Restrict(s, DOMAIN s \ {n})
    <3>1. \/ outcome \in Refuse(s, "OBS_SOURCE_KIND_UNSUPPORTED")
          \/ outcome \in Accept(after)
          \/ outcome \in Refuse(after, "OBS_POSTCONDITION_FAILED")
      BY <1>7, <2>3 DEF PerformOnSource, RemoveSource
    <3>2. n \notin DOMAIN after
      BY DEF Restrict
    <3> HIDE DEF after
    <3>3. CASE outcome \in Accept(after)
      BY <1>2, <1>3, <2>3, <3>2, <3>3, SourceForm DEF SourceGoal
    <3>4. CASE outcome \in Refuse(after, "OBS_POSTCONDITION_FAILED")
      BY <1>1, <3>4 DEF Refusals
    <3> QED
      BY <1>4, <3>1, <3>3, <3>4
  <2>4. CASE o.request = "SetInputSettings"
    <3> DEFINE new == [source EXCEPT !.settings = o.value ++ source.settings]
    <3>1. \/ outcome \in Refuse(s, "OBS_SOURCE_KIND_UNSUPPORTED")
          \/ source.kind = "color_source_v3" /\ outcome \in Accept([s EXCEPT ![n] = new])
      BY <1>7, <2>4 DEF PerformOnSource, SetInputSettings
    <3>2. new.kind = source.kind
      BY <2>1 DEF IsSource
    <3> HIDE DEF new
    <3>3. CASE source.kind = "color_source_v3" /\ outcome \in Accept([s EXCEPT ![n] = new])
      <4>1. n \in DOMAIN t /\ t[n] = new
        BY <1>2, <1>7, <3>3
      <4> QED
        BY <1>2, <1>3, <2>4, <3>2, <3>3, <4>1, SourceForm DEF ReadableSource
    <3> QED
      BY <1>4, <3>1, <3>3
  <2>5. CASE o.request = "CreateFilter"
    <3> DEFINE new == [source EXCEPT !.filter = NewFilter(o.value.db, o.value.enabled)]
    <3>1. outcome \in Refuse(s, "OBS_TARGET_AMBIGUOUS") \/ outcome \in Accept([s EXCEPT ![n] = new])
      BY <1>7, <2>5 DEF PerformOnSource, CreateFilter
    <3>2. new.filter # Nothing /\ new.filter.kind = "gain_filter" /\ new.filter.db = o.value.db
      BY <2>1 DEF IsSource, NewFilter, Nothing
    <3> HIDE DEF new
    <3>3. CASE outcome \in Accept([s EXCEPT ![n] = new])
      <4>1. n \in DOMAIN t /\ t[n] = new
        BY <1>2, <1>7, <3>3
      <4> QED
        BY <1>2, <1>3, <2>5, <3>2, <3>3, <4>1, SourceForm DEF ReadableSource
    <3> QED
      BY <1>4, <3>1, <3>3
  <2>6. CASE o.request \in {"SetFilterEnabled", "SetFilterSettings", "RemoveFilter"}
    <3> DEFINE enabled == [s EXCEPT ![n].filter.enabled = o.value]
               new == [source EXCEPT !.filter = [source.filter EXCEPT !.db = o.value]]
               bare == [source EXCEPT !.filter = Nothing]
    <3>1. \/ \E code \in {"OBS_SOURCE_NOT_FOUND", "OBS_FILTER_KIND_UNSUPPORTED"} : outcome \in Refuse(s, code)
          \/ o.request = "SetFilterEnabled" /\ outcome \in Accept(enabled)
          \/ /\ o.request = "SetFilterSettings" /\ source.filter # Nothing /\ source.filter.kind = "gain_filter"
             /\ outcome \in Accept([s EXCEPT ![n] = new])
          \/ o.request = "RemoveFilter" /\ outcome \in Accept([s EXCEPT ![n] = bare])
      BY <1>7, <2>6 DEF PerformOnSource, ChangeFilter
    <3>2. CASE o.request = "SetFilterEnabled" /\ outcome \in Accept(enabled)
      BY <1>2, <1>3, <3>2, SourceForm DEF ReadableSource
    <3>3. CASE /\ o.request = "SetFilterSettings" /\ source.filter # Nothing /\ source.filter.kind = "gain_filter"
               /\ outcome \in Accept([s EXCEPT ![n] = new])
      <4>1. new.filter = [source.filter EXCEPT !.db = o.value] /\ DOMAIN source.filter = {"kind", "db", "enabled"}
        BY <2>1, <3>3 DEF IsSource
      <4>2. new.filter # Nothing /\ new.filter.kind = "gain_filter" /\ new.filter.db = o.value
        BY <3>3, <4>1 DEF Nothing
      <4> HIDE DEF new
      <4>3. n \in DOMAIN t /\ t[n] = new
        BY <1>2, <1>7, <3>3
      <4> QED
        BY <1>2, <1>3, <3>3, <4>2, <4>3, SourceForm DEF ReadableSource
    <3>4. CASE o.request = "RemoveFilter" /\ outcome \in Accept([s EXCEPT ![n] = bare])
      <4>1. bare.filter = Nothing
        BY <2>1 DEF IsSource
      <4> HIDE DEF bare
      <4>2. n \in DOMAIN t /\ t[n] = bare
        BY <1>2, <1>7, <3>4
      <4> QED
        BY <1>2, <1>3, <3>4, <4>1, <4>2, SourceForm DEF SourceGoal, GoalOnSource
    <3> QED
      BY <1>4, <3>1, <3>2, <3>3, <3>4
  <2>7. CASE o.request \in {"SetSourceVolume", "SetSourceMute", "SetSourceMonitorType"}
    <3>1. \E part \in {"volume", "muted", "monitor"}, v \in {Single(o.value), o.value} :
            outcome \in Accept([s EXCEPT ![n] = [source EXCEPT ![part] = v]])
      BY <1>7, <2>7 DEF PerformOnSource, SetAudio
    <3> QED
      BY <1>2, <1>3, <1>7, <2>7, <3>1, SourceForm DEF ReadableSource
  <2>8. CASE o.request \in {"SeekMedia", "PlayMedia", "PauseMedia", "RestartMedia", "StopMedia"}
    <3>1. \/ outcome \in Refuse(s, "OBS_MEDIA_NOT_CONTROLLABLE")
          \/ source.kind = "media" /\ \E new \in Played(source, o) : outcome \in Accept([s EXCEPT ![n] = new])
      BY <1>7, <2>8 DEF PerformOnSource, ControlMedia
    <3>2. CASE source.kind = "media" /\ \E new \in Played(source, o) : outcome \in Accept([s EXCEPT ![n] = new])
      <4>1. PICK new \in Played(source, o) : outcome \in Accept([s EXCEPT ![n] = new])
        BY <3>2
      <4>2. new.kind = source.kind
        BY <2>1, <2>8 DEF Played, IsSource
      <4>3. n \in DOMAIN t /\ t[n] = new
        BY <1>2, <1>7, <4>1
      <4> QED
        BY <1>2, <1>3, <2>8, <3>2, <4>1, <4>2, <4>3, SourceForm DEF ReadableSource
    <3> QED
      BY <1>4, <3>1, <3>2
  <2> QED
    BY <1>7, <2>2, <2>3, <2>4, <2>5, <2>6, <2>7, <2>8, SourceForm
<1> QED
  BY <1>5, <1>6, <1>7

\* A read-back that finds what it looks for fails for nothing but settings out of range.
LEMMA SourceRead ==
  ASSUME NEW s, NEW o, IsSourceOperation(o), o.read # "nothing"
  PROVE  LET code == CheckSource(o, ReadSource(s, o)).code
         IN  /\ code # "verified"
             /\ ReadableSource(o, s) /\ code \in Refusals =>
                  \/ o.request = "SetFilterEnabled"
                  \/ o.request \in {"CreateSource", "SetInputSettings"} /\ code = "OBS_ARGUMENT_INVALID"
<1> DEFINE answer == ReadSource(s, o)
           source == s[o.target]
<1>1. CASE o.target \notin DOMAIN s
  BY <1>1 DEF ReadSource, CheckSource, Failed, ReadableSource
<1>2. CASE o.target \in DOMAIN s /\ o.read = "GetInputSettings"
  <2>1. o.request \in {"CreateSource", "SetInputSettings"}
    BY <1>2, SourceForm
  <2>2. answer = GetInputSettings(source)
    BY <1>2 DEF ReadSource
  <2> QED
    BY <1>2, <2>1, <2>2 DEF CheckSource, GetInputSettings, CheckedInputSettings, Failed, Answered, ReadableSource, Refusals
<1>3. CASE o.target \in DOMAIN s /\ o.read = "GetFilter"
  <2>1. answer = GetFilter(source)
    BY <1>3 DEF ReadSource
  <2> QED
    BY <1>3, <2>1 DEF CheckSource, GetFilter, CheckedFilter, Failed, Answered, ReadableSource, Refusals
<1>4. CASE o.target \in DOMAIN s /\ o.read = "GetMediaStatus"
  <2>1. answer = GetMediaStatus(source)
    BY <1>4 DEF ReadSource
  <2> QED
    BY <1>4, <2>1 DEF CheckSource, GetMediaStatus, Failed, Answered, ReadableSource, Refusals
<1>5. CASE o.target \in DOMAIN s /\ o.read \notin {"GetInputSettings", "GetFilter", "GetMediaStatus"}
  BY <1>5 DEF ReadSource, CheckSource, Answered, Refusals
<1> QED
  BY <1>1, <1>2, <1>3, <1>4, <1>5

ReadableScene(o, g) ==
  /\ o.read = "GetCurrentScene" => g.current # None
  /\ o.read = "GetSceneItem" => o.name \in Scenes(g)
  /\ o.read = "GetCurrentPreviewScene" => g.preview # None
  /\ o.read = "GetCurrentProfile" => g.profile # None
  /\ o.read = "GetCurrentSceneCollection" => g.collection # None

\* What an answer to a request about a scene says of the scenes.
LEMMA GraphAnswered ==
  ASSUME NEW g, IsGraph(g), NEW o, IsSceneOperation(o), NEW outcome \in PerformOnGraph(g, o)
  PROVE  /\ outcome.code # "verified"
         /\ outcome.code \in Refusals => outcome.after = g
         /\ outcome.code = "accepted" /\ outcome.after # g => ReadableScene(o, outcome.after)
         /\ outcome.code = "accepted" /\ o.matches = "Accepted" => outcome.after.current = o.name
<1> DEFINE Fine == /\ outcome.code # "verified"
                   /\ outcome.code \in Refusals => outcome.after = g
                   /\ outcome.code = "accepted" /\ outcome.after # g => ReadableScene(o, outcome.after)
                   /\ outcome.code = "accepted" /\ o.matches = "Accepted" => outcome.after.current = o.name
           codes == {"OBS_ARGUMENT_INVALID", "OBS_TARGET_AMBIGUOUS", "OBS_RESPONSE_INCOMPLETE", "OBS_TRANSITION_NOT_FOUND",
                     "OBS_PROFILE_NOT_FOUND", "OBS_SCENE_COLLECTION_NOT_FOUND", "OBS_SCENE_NOT_FOUND", "OBS_SOURCE_NOT_FOUND",
                     "OBS_MUTATION_REJECTED", "OBS_SCENE_ITEM_NOT_FOUND", "OBS_STUDIO_MODE_INACTIVE", "OBS_POSTCONDITION_FAILED"}
<1> SUFFICES Fine
  OBVIOUS
<1> HIDE DEF Fine
<1>1. \A code \in codes : outcome \in Refuse(g, code) => Fine
  BY DEF Refuse, Fine
<1>2. \A state : outcome \in Refuse(state, "OBS_POSTCONDITION_FAILED") => Fine
  BY DEF Refuse, Refusals, Fine
<1>3. \A state, got : /\ outcome \in Give(state, got)
                      /\ state = g \/ ReadableScene(o, state)
                      /\ o.matches = "Accepted" => state.current = o.name
                      => Fine
  BY DEF Give, Refusals, Fine
<1>4. /\ \A part \in {"order", "items", "current", "preview", "studio", "swapping", "transition", "duration", "profile", "collection"} :
           part \in DOMAIN g
      /\ g.order \in Seq(Scenes(g) \ {None})
  BY DEF IsGraph
<1>5. /\ o.matches = "Accepted" => o.request = "TriggerTransition"
      /\ o.read = "GetCurrentScene" => o.request = "SetCurrentScene" /\ o.name # None
      /\ o.read = "GetSceneItem" =>
           o.request \in {"CreateSceneItem", "SetSceneItemEnabled", "SetSceneItemTransform", "RemoveSceneItem"}
      /\ o.read = "GetCurrentPreviewScene" => o.request = "SetCurrentPreviewScene" /\ o.name # None
      /\ o.read = "GetCurrentProfile" => o.request = "SetCurrentProfile" /\ o.name # None
      /\ o.read = "GetCurrentSceneCollection" => o.request = "SetCurrentSceneCollection" /\ o.name # None
  BY SceneForm
<1>6. \A listing, name, missing : LookupName(listing, name, missing) \in {"OBS_RESPONSE_INCOMPLETE", "OBS_TARGET_AMBIGUOUS", missing, "unique"}
  BY DEF LookupName
<1>7. CASE NamesOf(o) \cap WideNames # {}
  BY <1>1, <1>7 DEF PerformOnGraph
<1>8. CASE NamesOf(o) \cap WideNames = {} /\ o.request \in {"CreateScene", "SetStudioMode"}
  <2>1. \/ \E code \in codes : outcome \in Refuse(g, code)
        \/ \E state : outcome \in Give(state, 0)
    BY <1>8 DEF PerformOnGraph, CreateScene, SetStudioMode, OrIgnored, Accept
  <2>2. /\ \A state : ReadableScene(o, state)
        /\ o.matches # "Accepted"
    BY <1>5, <1>8 DEF ReadableScene
  <2> QED
    BY <1>1, <1>3, <2>1, <2>2
<1>9. CASE NamesOf(o) \cap WideNames = {} /\ o.request = "SetCurrentTransition"
  <2>1. \/ \E code \in codes : outcome \in Refuse(g, code)
        \/ \E state : outcome \in Give(state, 0)
    BY <1>6, <1>9 DEF PerformOnGraph, SetCurrentTransition, Accept
  <2>2. /\ \A state : ReadableScene(o, state)
        /\ o.matches # "Accepted"
    BY <1>5, <1>9 DEF ReadableScene
  <2> QED
    BY <1>1, <1>3, <2>1, <2>2
<1>10. CASE NamesOf(o) \cap WideNames = {} /\ o.request = "TriggerStudioModeTransition"
  <2>1. \/ \E code \in codes : outcome \in Refuse(g, code)
        \/ \E state : outcome \in Give(state, 0)
    BY <1>10 DEF PerformOnGraph, TriggerStudioModeTransition, Accept
  <2>2. /\ \A state : ReadableScene(o, state)
        /\ o.matches # "Accepted"
    BY <1>5, <1>10 DEF ReadableScene
  <2> QED
    BY <1>1, <1>3, <2>1, <2>2
<1>11. CASE NamesOf(o) \cap WideNames = {} /\ o.request = "SetCurrentProfile"
  <2> DEFINE h == [g EXCEPT !.profile = o.name]
  <2>1. (\E code \in codes : outcome \in Refuse(g, code)) \/ (\E state \in {g, h} : outcome \in Give(state, 0))
    BY <1>6, <1>11 DEF PerformOnGraph, SetProfile, Accept
  <2>2. h.profile = o.name /\ o.name # None
    BY <1>4, <1>11, SceneForm
  <2>3. ReadableScene(o, h) /\ o.matches # "Accepted"
    BY <1>5, <1>11, <2>2 DEF ReadableScene
  <2> QED
    BY <1>1, <1>3, <2>1, <2>3
<1>12. CASE NamesOf(o) \cap WideNames = {} /\ o.request = "SetCurrentSceneCollection"
  <2> DEFINE h == [g EXCEPT !.collection = o.name]
  <2>1. (\E code \in codes : outcome \in Refuse(g, code)) \/ (\E state \in {g, h} : outcome \in Give(state, 0))
    BY <1>6, <1>12 DEF PerformOnGraph, SetSceneCollection, Accept
  <2>2. h.collection = o.name /\ o.name # None
    BY <1>4, <1>12, SceneForm
  <2>3. ReadableScene(o, h) /\ o.matches # "Accepted"
    BY <1>5, <1>12, <2>2 DEF ReadableScene
  <2> QED
    BY <1>1, <1>3, <2>1, <2>3
<1>13. CASE /\ NamesOf(o) \cap WideNames = {} /\ o.name \notin Scenes(g)
            /\ o.request \in {"SetCurrentScene", "TriggerTransition", "RenameScene", "RemoveScene", "CreateSceneItem",
                              "SetCurrentPreviewScene", "SetSceneItemEnabled", "SetSceneItemTransform", "RemoveSceneItem"}
  BY <1>1, <1>13 DEF PerformOnGraph, NoScene
<1>14. CASE /\ NamesOf(o) \cap WideNames = {} /\ o.name \in Scenes(g)
            /\ o.request \in {"SetCurrentScene", "TriggerTransition", "RenameScene", "RemoveScene", "CreateSceneItem",
                              "SetCurrentPreviewScene", "SetSceneItemEnabled", "SetSceneItemTransform", "RemoveSceneItem"}
  <2>1. outcome \in PerformOnScene(g, o)
    BY <1>14 DEF PerformOnGraph
  <2>2. CASE o.request \in {"SetCurrentScene", "TriggerTransition"}
    <3> DEFINE h == [g EXCEPT !.current = o.name]
    <3>1. outcome \in Refuse(g, "OBS_POSTCONDITION_FAILED") \/ outcome \in Give(h, 0)
      BY <2>1, <2>2 DEF PerformOnScene, SetCurrentScene, OrIgnored, Accept
    <3>2. h.current = o.name /\ o.name # None
      BY <1>4, <2>2, SceneForm
    <3>3. ReadableScene(o, h)
      BY <1>5, <2>2, <3>2 DEF ReadableScene
    <3> QED
      BY <1>2, <1>3, <3>1, <3>2, <3>3
  <2>3. CASE o.request = "SetCurrentPreviewScene"
    <3> DEFINE h == [g EXCEPT !.preview = o.name]
    <3>1. \/ outcome \in Refuse(g, "OBS_STUDIO_MODE_INACTIVE")
          \/ outcome \in Refuse(g, "OBS_POSTCONDITION_FAILED")
          \/ outcome \in Give(h, 0)
      BY <2>1, <2>3 DEF PerformOnScene, SetCurrentPreviewScene, OrIgnored, Accept
    <3>2. h.preview = o.name /\ o.name # None
      BY <1>4, <2>3, SceneForm
    <3>3. ReadableScene(o, h) /\ o.matches # "Accepted"
      BY <1>5, <2>3, <3>2 DEF ReadableScene
    <3> QED
      BY <1>1, <1>2, <1>3, <3>1, <3>3
  <2>4. CASE o.request = "RenameScene"
    <3>1. \/ outcome \in Refuse(g, "OBS_TARGET_AMBIGUOUS")
          \/ \E state : outcome \in Give(state, 0)
      BY <2>1, <2>4 DEF PerformOnScene, RenameScene, Accept
    <3>2. (\A state : ReadableScene(o, state)) /\ o.matches # "Accepted"
      BY <1>5, <2>4 DEF ReadableScene
    <3> QED
      BY <1>1, <1>3, <3>1, <3>2
  <2>5. CASE o.request = "RemoveScene"
    <3>1. \/ outcome \in Refuse(Removed(g, o.name), "OBS_POSTCONDITION_FAILED")
          \/ outcome \in Give(Removed(g, o.name), 0)
      BY <2>1, <2>5 DEF PerformOnScene, RemoveScene, Accept
    <3>2. (\A state : ReadableScene(o, state)) /\ o.matches # "Accepted"
      BY <1>5, <2>5 DEF ReadableScene
    <3> QED
      BY <1>2, <1>3, <3>1, <3>2
  <2>6. CASE o.request = "CreateSceneItem"
    <3> DEFINE h == [g EXCEPT !.items[o.name] = Append(@, [source |-> o.value.source, kind |-> KindOf(g, o.value.source),
                                                           enabled |-> o.value.enabled, position |-> 0])]
    <3>1. (\E code \in codes : outcome \in Refuse(g, code)) \/ (\E k : outcome \in Give(h, k))
      BY <2>1, <2>6 DEF PerformOnScene, CreateSceneItem
    <3>2. h.order = g.order
      BY <1>4
    <3> HIDE DEF h
    <3>3. ReadableScene(o, h) /\ o.matches # "Accepted"
      BY <1>5, <1>14, <2>6, <3>2 DEF ReadableScene, Scenes
    <3> QED
      BY <1>1, <1>3, <3>1, <3>3
  <2>7. CASE o.request \in {"SetSceneItemEnabled", "SetSceneItemTransform", "RemoveSceneItem"}
    <3> DEFINE id == o.value.item
               enabled == [g EXCEPT !.items[o.name][id].enabled = o.value.enabled]
               placed == [g EXCEPT !.items[o.name][id].position = Single(o.value.position)]
               gone == [g EXCEPT !.items[o.name][id] = Gone]
    <3>1. outcome \in ChangeSceneItem(g, o)
      BY <2>1, <2>7 DEF PerformOnScene
    <3>2. \/ \E code \in codes : outcome \in Refuse(g, code)
          \/ \E state \in {enabled, placed, gone} : outcome \in Give(state, 0)
      BY <2>7, <3>1 DEF ChangeSceneItem, OrIgnored, Accept
    <3>3. enabled.order = g.order /\ placed.order = g.order /\ gone.order = g.order
      BY <1>4
    <3> HIDE DEF enabled, placed, gone
    <3>4. \A state \in {enabled, placed, gone} : ReadableScene(o, state)
      BY <1>5, <1>14, <2>7, <3>3 DEF ReadableScene, Scenes
    <3>5. o.matches # "Accepted"
      BY <1>5, <2>7
    <3> QED
      BY <1>1, <1>3, <3>2, <3>4, <3>5
  <2> QED
    BY <1>14, <2>2, <2>3, <2>4, <2>5, <2>6, <2>7
<1> QED
  BY <1>7, <1>8, <1>9, <1>10, <1>11, <1>12, <1>13, <1>14, SceneForm

\* Every operation on the scenes says what it consults.
LEMMA SceneConsults ==
  ASSUME NEW o, IsSceneOperation(o)
  PROVE  "consult" \in DOMAIN o
  BY DEF IsSceneOperation, SetCurrentSceneRequest, CreateSceneRequest, RemoveSceneRequest, RenameSceneRequest,
         CreateSceneItemRequest, SetSceneItemEnabledRequest, SetSceneItemTransformRequest, RemoveSceneItemRequest,
         SetCurrentTransitionRequest, TriggerTransitionRequest, SetStudioModeRequest, SetCurrentPreviewSceneRequest,
         TriggerStudioModeTransitionRequest, SetCurrentProfileRequest, SetCurrentSceneCollectionRequest, Asks, Consults, Once

\* A read-back fails with a refusal only where there is nothing to read.
LEMMA GraphRead ==
  ASSUME NEW g, IsGraph(g), NEW o, IsSceneOperation(o), NEW k
  PROVE  LET code == ReadGraph(g, o, k).code
         IN  /\ code # "verified"
             /\ ReadableScene(o, g) => code \notin Refusals
             /\ o.matches = "Accepted" /\ code # "ok" => g.transition \in LongNames
<1> DEFINE answer == ReadGraph(g, o, k)
<1>1. CASE o.read = "ListScenes"
  <2>1. answer.code \in {"ok", "OBS_RESPONSE_INVALID"}
    <3>1. answer = Consulted(g, [o EXCEPT !.consult = "ListScenes"])
      BY <1>1 DEF ReadGraph
    <3>2. [o EXCEPT !.consult = "ListScenes"].consult = "ListScenes"
      BY SceneConsults
    <3>3. answer = IF g.current \in LongNames THEN Failed("OBS_RESPONSE_INVALID") ELSE CheckedListing(Listing(g.order))
      BY <3>1, <3>2 DEF Consulted
    <3> QED
      BY <3>3 DEF CheckedListing, Failed, Answered
  <2> QED
    BY <1>1, <2>1, SceneForm DEF Refusals
<1>2. CASE o.read = "GetCurrentTransition"
  BY <1>2 DEF ReadGraph, Failed, Answered, Refusals
<1>3. CASE o.read = "GetStudioModeStatus"
  BY <1>3, SceneForm DEF ReadGraph, StudioStatus, Failed, Answered, Refusals
<1>4. CASE o.read = "GetSceneItem"
  BY <1>4, SceneForm DEF ReadGraph, GetSceneItem, Failed, Answered, Refusals, ReadableScene
<1>5. CASE o.read \in {"GetCurrentScene", "GetCurrentPreviewScene", "GetCurrentProfile", "GetCurrentSceneCollection"}
  <2>1. \E name, missing : /\ answer = NamedAnswer(name, missing) /\ missing # "verified"
                           /\ ReadableScene(o, g) => name # None
    BY <1>5 DEF ReadGraph, ReadableScene
  <2> QED
    BY <1>5, <2>1, SceneForm DEF NamedAnswer, Failed, Answered, Refusals
<1> QED
  BY <1>1, <1>2, <1>3, <1>4, <1>5, SceneForm

\* The plugin never answers with what the bridge alone says.
LEMMA OverlayAnswered ==
  ASSUME NEW w, NEW o, IsOverlayOperation(o), NEW outcome \in PerformOnOverlay(w, o)
  PROVE  outcome.code # "verified"
<1>1. \A state, code : code # "verified" => \A x \in Refuse(state, code) : x.code # "verified"
  BY DEF Refuse
<1>2. \A state, got : \A x \in Give(state, got) : x.code # "verified"
  BY DEF Give
<1>3. \A v, scene, anchor, margin : \A x \in Position(v, scene, anchor, margin) : x.code # "verified"
  BY <1>2 DEF Position, Accept
<1>4. \A v, scene, layout : \A x \in Relaid(v, scene, layout) : x.code # "verified"
  BY <1>3 DEF Relaid
<1>5. CASE o.request = "CreateOverlay"
  <2>1. outcome \in CreateOverlay(w, o)
    BY <1>5 DEF PerformOnOverlay
  <2>2. \/ \E code \in {"OBS_SCENE_NOT_FOUND", "OBS_TARGET_AMBIGUOUS"} : outcome \in Refuse(w, code)
        \/ \E v, layout : outcome \in Relaid(v, o.name, layout)
    BY <2>1 DEF CreateOverlay
  <2> QED
    BY <1>1, <1>4, <2>2
<1>6. CASE o.request # "CreateOverlay"
  <2>1. \/ \E code \in {"OBS_ARGUMENT_INVALID", "OBS_SOURCE_NOT_FOUND"} : outcome \in Refuse(w, code)
        \/ outcome \in SetOverlayLayout(w, o) \/ outcome \in EmitActivity(w, o)
        \/ outcome \in ClearOverlay(w) \/ outcome \in UpdatePresentation(w, o)
    BY <1>6, OverlayForm DEF PerformOnOverlay
  <2> QED
    BY <1>1, <1>2, <1>3, <1>4, <2>1 DEF SetOverlayLayout, EmitActivity, ClearOverlay, UpdatePresentation
<1> QED
  BY <1>5, <1>6

\* A change that nobody else has undone can be read back.
Readable(w) ==
  /\ op.domain = "sources" => ReadableSource(op, w)
  /\ op.domain = "scenes" => ReadableScene(op, w)
  /\ op.domain = "captures" => op.matches = "Ready" \/ CaptureStatus(w, op, w.windows, w.windows) = "ok"
  /\ op.domain = "overlays" => Bound(w, op)

\* What the answer of the plugin says of OBS.
LEMMA Answer ==
  ASSUME IsOperation(op), IsWorld(op, world), NEW outcome \in Perform
  PROVE  /\ IsWorld(op, outcome.after)
         /\ outcome.code # "verified"
         /\ outcome.code \in Refusals => ~Changed(world, outcome.after)
         /\ outcome.code = "accepted" /\ op.read # "nothing" /\ Changed(world, outcome.after) => Readable(outcome.after)
         /\ outcome.code = "accepted" /\ op.matches = "Accepted" => \A k : Goal(outcome.after, k)
         /\ outcome.code = "accepted" /\ op.matches = "Activity" =>
              /\ outcome.after.created > 0 /\ outcome.after.source.by = op.value.by
              /\ outcome.got = outcome.after.source.sequence /\ outcome.got \in Nat \ {0}
<1> DEFINE after == outcome.after
<1>1. CASE op.domain = "sources"
  <2>1. IsSourceOperation(op) /\ IsSources(world) /\ outcome \in PerformOnSource(world, op)
    BY <1>1, SceneForm, OverlayForm, CaptureForm DEF IsOperation, IsWorld, Perform
  <2>2. IsSources(after)
    BY <2>1, SourcesKept
  <2>3. /\ outcome.code # "verified"
        /\ outcome.code \in Refusals => after = world
        /\ outcome.code = "accepted" /\ op.read # "nothing" => ReadableSource(op, after)
        /\ outcome.code = "accepted" /\ op.read = "nothing" => SourceGoal(op, after)
    BY <2>1, SourceAnswered
  <2>4. (op.matches = "Accepted" => op.read = "nothing") /\ op.matches # "Activity"
    BY <2>1, SourceForm
  <2> QED
    BY <1>1, <2>2, <2>3, <2>4 DEF IsWorld, Changed, Readable, Goal
<1>2. CASE op.domain = "scenes"
  <2>1. IsSceneOperation(op) /\ IsGraph(world) /\ outcome \in PerformOnGraph(world, op)
    BY <1>2, SourceForm, OverlayForm, CaptureForm DEF IsOperation, IsWorld, Perform
  <2>2. IsGraph(after)
    BY <2>1, GraphKept
  <2>3. /\ outcome.code # "verified"
        /\ outcome.code \in Refusals => after = world
        /\ outcome.code = "accepted" /\ after # world => ReadableScene(op, after)
        /\ outcome.code = "accepted" /\ op.matches = "Accepted" => after.current = op.name
    BY <2>1, GraphAnswered
  <2>4. (op.matches = "Accepted" => op.request = "TriggerTransition") /\ op.matches # "Activity"
    BY <2>1, SceneForm
  <2>5. \A k : op.request = "TriggerTransition" /\ after.current = op.name => SceneGoal(op, after, k)
    BY DEF SceneGoal
  <2> QED
    BY <1>2, <2>2, <2>3, <2>4, <2>5 DEF IsWorld, Changed, Readable, Goal
<1>3. CASE op.domain = "captures"
  <2>1. /\ IsCaptureOperation(op) /\ IsCaptures(world) /\ op.value.window.handle \in DOMAIN world.windows
        /\ outcome \in PerformOnCapture(world, op)
    BY <1>3, SourceForm, OverlayForm, SceneForm DEF IsOperation, IsWorld, Perform
  <2>2. CaptureOutcome(world, op, outcome)
    BY <2>1, CapturesKept
  <2>3. /\ IsCaptures(after) /\ op.value.window.handle \in DOMAIN after.windows /\ outcome.code # "verified"
        /\ outcome.code # "accepted" => after = [world EXCEPT !.windows = after.windows]
        /\ outcome.code = "accepted" /\ op.matches # "Ready" => CaptureStatus(after, op, after.windows, after.windows) = "ok"
    BY <2>2 DEF CaptureOutcome
  <2>4. op.matches # "Accepted" /\ op.matches # "Activity"
    BY <2>1, CaptureForm
  <2>5. outcome.code \in Refusals => ~Changed(world, after)
    BY <1>3, <2>3 DEF Changed, Refusals
  <2> QED
    BY <1>3, <2>3, <2>4, <2>5 DEF IsWorld, Readable
<1>4. CASE op.domain = "overlays"
  <2>1. IsOverlayOperation(op) /\ IsOverlays(world) /\ outcome \in PerformOnOverlay(world, op)
    BY <1>4, SourceForm, CaptureForm, SceneForm DEF IsOperation, IsWorld, Perform
  <2>2. /\ IsOverlays(after)
        /\ outcome.code # "accepted" => after = world
        /\ outcome.code = "accepted" => Bound(after, op)
        /\ outcome.code = "accepted" /\ op.request = "EmitActivity" =>
             /\ after.source.by = op.value.by
             /\ outcome.got = after.source.sequence /\ outcome.got # 0
    BY <2>1, OverlaysKept
  <2>3. outcome.code # "verified"
    BY <2>1, OverlayAnswered
  <2>4. /\ op.matches = "Activity" => op.request = "EmitActivity" /\ op.value.kind = "agent"
        /\ op.matches # "Accepted"
    BY <2>1, OverlayForm
  <2>5. Bound(after, op) /\ op.matches = "Activity" => after.created > 0 /\ after.source.sequence \in Nat
    BY <2>2, <2>4 DEF Bound, IsOverlays, IsOverlay
  <2> QED
    BY <1>4, <2>2, <2>3, <2>4, <2>5 DEF IsWorld, Changed, Readable, Refusals
<1> QED
  BY <1>1, <1>2, <1>3, <1>4 DEF IsOperation

----------------------------------------------------------------------------
(* Operations of any domain. *)

\* Each operation is of one domain.
LEMMA Domains ==
  ASSUME IsOperation(op), IsWorld(op, world)
  PROVE  \/ op.domain = "sources" /\ IsSourceOperation(op) /\ IsSources(world)
         \/ op.domain = "scenes" /\ IsSceneOperation(op) /\ IsGraph(world)
         \/ /\ op.domain = "captures" /\ IsCaptureOperation(op) /\ IsCaptures(world)
            /\ op.value.window.handle \in DOMAIN world.windows
         \/ op.domain = "overlays" /\ IsOverlayOperation(op) /\ IsOverlays(world)
  BY DEF IsOperation, IsWorld

\* A read-back never answers with what the bridge alone says, and nothing that can be read is refused.
LEMMA ReadFails ==
  ASSUME IsOperation(op), IsWorld(op, world), op.read # "nothing"
  PROVE  /\ Read.code # "verified"
         /\ Readable(world) /\ Read.code \in Refusals =>
              \/ op.request = "SetFilterEnabled"
              \/ op.request \in {"CreateSource", "SetInputSettings"} /\ Read.code = "OBS_ARGUMENT_INVALID"
<1>1. CASE op.domain = "sources" /\ IsSourceOperation(op)
  BY <1>1, SourceRead DEF Read, Readable
<1>2. CASE op.domain = "scenes" /\ IsSceneOperation(op) /\ IsGraph(world)
  <2>1. Read = ReadGraph(world, op, known)
    BY <1>2 DEF Read
  <2> QED
    BY <1>2, <2>1, GraphRead DEF Readable
<1>3. CASE op.domain = "captures" /\ IsCaptureOperation(op)
  <2>1. Read = ReadCapture(world, op)
    BY <1>3 DEF Read
  <2>2. CASE op.matches = "Ready"
    BY <1>3, <2>1, <2>2, CaptureForm DEF ReadCapture, Answered, Refusals
  <2>3. CASE op.matches # "Ready"
    <3> DEFINE status == CaptureStatus(world, op, world.windows, world.windows)
    <3>1. Read = IF status = "ok" THEN Answered(world.source) ELSE Failed(status)
      BY <1>3, <2>1, <2>3, CaptureForm DEF ReadCapture
    <3>2. status # "verified"
      BY DEF CaptureStatus, ValidateExactWindow
    <3>3. Readable(world) => status = "ok"
      BY <1>3, <2>3 DEF Readable
    <3> HIDE DEF status
    <3> QED
      BY <3>1, <3>2, <3>3 DEF Answered, Failed, Refusals
  <2> QED
    BY <2>2, <2>3
<1>4. CASE op.domain = "overlays"
  BY <1>4 DEF Read, Readable, ReadOverlay, Answered, Failed, Refusals
<1> QED
  BY <1>1, <1>2, <1>3, <1>4, Domains

\* A read-back that matches shows that what was asked for holds, except for what it does not show.
LEMMA ReadMatches ==
  ASSUME IsOperation(op), IsWorld(op, world), ~Refused(op), op.read # "nothing", op.matches # "Accepted",
         Read.code = "ok", Matches(Read.seen)
  PROVE  Goal(world, known) \/ Unseen
<1>1. CASE op.domain = "sources" /\ IsSourceOperation(op)
  <2>1. Read = CheckSource(op, ReadSource(world, op)) /\ SourceMatches(op, Read.seen)
    BY <1>1 DEF Read, Matches
  <2>2. SourceGoal(op, world) \/ (op.request = "CreateSource" /\ world[op.name].shown # op.value.enabled)
    BY <1>1, <2>1, SourceMatchShows
  <2> QED
    BY <1>1, <2>2 DEF Goal, Unseen
<1>2. CASE op.domain = "scenes" /\ IsSceneOperation(op) /\ IsGraph(world)
  <2>1. Read = ReadGraph(world, op, known) /\ GraphMatches(op, known, Read.seen)
    BY <1>2 DEF Read, Matches
  <2>2. SceneGoal(op, world, known) \/ (op.request \in {"RemoveScene", "RenameScene"} /\ Len(world.order) > MaxListed)
    BY <1>2, <2>1, SceneMatchShows
  <2> QED
    BY <1>2, <2>2 DEF Goal, Unseen
<1>3. CASE op.domain = "captures" /\ IsCaptureOperation(op) /\ IsCaptures(world)
  <2>1. Read = ReadCapture(world, op) /\ CaptureMatches(op, Read.seen)
    BY <1>3 DEF Read, Matches
  <2>2. CaptureGoal(op, world)
    BY <1>3, <2>1, CaptureMatchShows
  <2> QED
    BY <1>3, <2>2 DEF Goal
<1>4. CASE op.domain = "overlays" /\ IsOverlayOperation(op) /\ IsOverlays(world)
  <2>1. Read = ReadOverlay(world, op) /\ OverlayMatches(op, known, Read.seen)
    BY <1>4 DEF Read, Matches
  <2>2. op.matches = "Layout" => LayoutAccepted(op.value.kind, op.value.layout)
    BY <1>4 DEF Refused
  <2>3. OverlayGoal(op, world, known) \/ world.size # SizeOf(world.source)
    BY <1>4, <2>1, <2>2, OverlayMatchShows
  <2> QED
    BY <1>4, <2>3 DEF Goal, Unseen
<1> QED
  BY <1>1, <1>2, <1>3, <1>4, Domains

\* What was asked for and holds is recognised, except for what cannot be.
LEMMA ReadMisses ==
  ASSUME IsOperation(op), IsWorld(op, world), ~Refused(op), op.read # "nothing",
         op.matches = "Accepted" \/ Goal(world, known), Read.code = "ok" => ~Matches(Read.seen)
  PROVE  Unrecognised
<1>1. CASE op.domain = "sources" /\ IsSourceOperation(op) /\ IsSources(world)
  <2>1. Read = CheckSource(op, ReadSource(world, op)) /\ \A seen : Matches(seen) = SourceMatches(op, seen)
    BY <1>1 DEF Read, Matches
  <2>2. SourceGoal(op, world)
    BY <1>1, SourceForm DEF Goal
  <2> QED
    BY <1>1, <2>1, <2>2, SourceFailureShows
<1>2. CASE op.domain = "scenes" /\ IsSceneOperation(op) /\ IsGraph(world)
  <2>1. Read = ReadGraph(world, op, known) /\ \A seen : Matches(seen) = GraphMatches(op, known, seen)
    BY <1>2 DEF Read, Matches
  <2>2. CASE op.matches = "Accepted"
    <3>1. \A seen : Matches(seen)
      BY <2>1, <2>2 DEF GraphMatches
    <3>2. world.transition \in LongNames
      BY <1>2, <2>1, <2>2, <3>1, GraphRead
    <3> QED
      BY <1>2, <2>2, <3>2, SceneForm DEF Unrecognised
  <2>3. CASE op.matches # "Accepted"
    <3>1. SceneGoal(op, world, known) /\ ~NameRefused(op)
      BY <1>2, <2>3 DEF Goal, Refused
    <3> QED
      BY <1>2, <2>1, <3>1, SceneFailureShows
  <2> QED
    BY <2>2, <2>3
<1>3. CASE op.domain = "captures" /\ IsCaptureOperation(op) /\ IsCaptures(world)
  <2>1. Read = ReadCapture(world, op) /\ \A seen : Matches(seen) = CaptureMatches(op, seen)
    BY <1>3 DEF Read, Matches
  <2>2. CaptureGoal(op, world)
    BY <1>3, CaptureForm DEF Goal
  <2> QED
    BY <1>3, <2>1, <2>2, CaptureFailureShows
<1>4. CASE op.domain = "overlays" /\ IsOverlayOperation(op) /\ IsOverlays(world)
  <2>1. Read = ReadOverlay(world, op) /\ \A seen : Matches(seen) = OverlayMatches(op, known, seen)
    BY <1>4 DEF Read, Matches
  <2>2. OverlayGoal(op, world, known)
    BY <1>4, OverlayForm DEF Goal
  <2> QED
    BY <1>4, <2>1, <2>2, OverlayFailureShows
<1> QED
  BY <1>1, <1>2, <1>3, <1>4, Domains

\* What OBS does by itself does not take away what a read-back looks for.
LEMMA SettledReadable ==
  ASSUME IsOperation(op), IsWorld(op, world), Readable(world)
  PROVE  Readable(Settled(world))
<1>1. CASE op.domain = "sources" /\ IsSources(world)
  <2> DEFINE after == Settled(world)
  <2>1. \A name \in DOMAIN world : IsSource(world[name])
    BY <1>1 DEF IsSources
  <2>2. \A source : IsSource(source) => /\ [source EXCEPT !.media = "playing"].kind = source.kind
                                        /\ [source EXCEPT !.media = "playing"].filter = source.filter
    BY DEF IsSource
  <2>3. DOMAIN after = DOMAIN world /\ \A name \in DOMAIN world : after[name] \in {world[name], [world[name] EXCEPT !.media = "playing"]}
    BY <1>1 DEF Settled
  <2>4. \A name \in DOMAIN world : after[name].kind = world[name].kind /\ after[name].filter = world[name].filter
    BY <2>1, <2>2, <2>3
  <2> HIDE DEF after
  <2> QED
    BY <1>1, <2>3, <2>4 DEF Readable, ReadableSource, after
<1>2. CASE op.domain = "scenes" /\ IsGraph(world)
  <2> DEFINE g == EndTransition(world)
             after == Prune(g)
  <2>1. DOMAIN world = {"order", "inputs", "current", "items", "studio", "preview", "swaps", "swapping", "transition", "duration",
                        "transitions", "profile", "profiles", "collection", "collections"}
    BY <1>2 DEF IsGraph
  <2>2. DOMAIN g = DOMAIN world /\ g.order = world.order /\ g.current = world.current /\ g.profile = world.profile
        /\ g.collection = world.collection /\ g.preview \in {world.preview} \cup Scenes(world)
    BY <2>1 DEF EndTransition
  <2> HIDE DEF g
  <2>3. after.order = g.order /\ after.current = g.current /\ after.profile = g.profile /\ after.collection = g.collection
        /\ after.preview = g.preview
    BY <2>1, <2>2 DEF Prune
  <2>4. None \notin Scenes(world)
    <3>1. world.order \in Seq(Scenes(world) \ {None})
      BY <1>2 DEF IsGraph
    <3> QED
      BY <3>1 DEF Scenes, Range
  <2>5. Settled(world) = after
    BY <1>2 DEF Settled, g
  <2> HIDE DEF after
  <2> QED
    BY <1>2, <2>2, <2>3, <2>4, <2>5 DEF Readable, ReadableScene, Scenes
<1>3. CASE op.domain = "captures" /\ IsCaptures(world) /\ op.value.window.handle \in DOMAIN world.windows
  <2> DEFINE after == Restored(world)
             handle == op.value.window.handle
  <2>1. /\ \A part \in {"scene", "source", "items", "visible"} : after[part] = world[part]
        /\ world.windows[handle] # NoWindow =>
             /\ after.windows[handle] # NoWindow
             /\ \A part \in {"pid", "created", "title", "exe", "visible"} : after.windows[handle][part] = world.windows[handle][part]
    BY <1>3, RestoredIs
  <2>2. Settled(world) = after
    BY <1>3 DEF Settled
  <2>3. CASE op.matches = "Ready"
    BY <1>3, <2>3 DEF Readable
  <2>4. CASE CaptureStatus(world, op, world.windows, world.windows) = "ok"
    <3> DEFINE actual == world.windows[handle]
               now == after.windows[handle]
    <3> HIDE DEF after
    <3>1. ValidateExactWindow(world.windows, op.value.window) = "ok"
      BY <2>4 DEF CaptureStatus
    <3>2. Shown(world.windows, handle) /\ actual.pid = op.value.window.pid /\ actual.title = op.value.window.title
      BY <3>1 DEF ValidateExactWindow
    <3>3. Shown(after.windows, handle) /\ now.pid = actual.pid /\ now.title = actual.title /\ now.created = actual.created
          /\ now.exe = actual.exe
      BY <2>1, <3>2 DEF Shown
    <3>4. ValidateExactWindow(after.windows, op.value.window) = "ok"
      BY <3>2, <3>3 DEF ValidateExactWindow
    <3>5. world.scene /\ world.source # NoCapture /\ world.source.kind = "window_capture" /\ ~(world.items > 1) /\ world.items # 0
      BY <2>4, <3>1 DEF CaptureStatus
    <3>6. SettingsMatch(world.source, op, actual, {"cursor", "audio", "method"}) /\ world.visible = op.value.enabled
      BY <2>4, <3>1, <3>5, Zenon DEF CaptureStatus
    <3>7. SettingsMatch(world.source, op, now, {"cursor", "audio", "method"})
      BY <3>3, <3>6 DEF SettingsMatch, Binding, Selector
    <3>8. StillLive(after.windows, op.value.window, now)
      BY <3>3 DEF StillLive
    <3>9. after.scene = world.scene /\ after.source = world.source /\ after.items = world.items /\ after.visible = world.visible
      BY <2>1
    <3>10. CaptureStatus(after, op, after.windows, after.windows) = "ok"
      <4>1. after.scene /\ after.source # NoCapture /\ after.source.kind = "window_capture" /\ ~(after.items > 1) /\ after.items # 0
        BY <3>5, <3>9
      <4>2. SettingsMatch(after.source, op, now, {"cursor", "audio", "method"}) /\ after.visible = op.value.enabled
        BY <3>6, <3>7, <3>9
      <4> QED
        BY <3>4, <3>8, <4>1, <4>2, Zenon DEF CaptureStatus
    <3> QED
      BY <1>3, <2>2, <3>10 DEF Readable
  <2> QED
    BY <1>3, <2>3, <2>4 DEF Readable
<1>4. CASE op.domain = "overlays" /\ IsOverlays(world)
  <2>1. Settled(world) = NextFrame(world)
    BY <1>4 DEF Settled
  <2>2. NextFrame(world).places = world.places /\ NextFrame(world).source = world.source
    BY <1>4, FrameDrawn
  <2> QED
    BY <1>4, <2>1, <2>2 DEF Readable, Bound
<1> QED
  BY <1>1, <1>2, <1>3, <1>4, Domains

\* A target that cannot be selected is never reported as verified.
LEMMA SelectFails ==
  ASSUME IsOperation(op), IsWorld(op, world), op.consult # "nothing"
  PROVE  Consult.code # "verified" /\ Select(Consult.seen) # "verified"
<1>1. CASE op.domain = "overlays"
  BY <1>1 DEF Consult, Select, Answered
<1>2. CASE op.domain = "scenes" /\ IsSceneOperation(op)
  <2>1. Consult.code # "verified"
    <3>1. Consult = Consulted(world, op)
      BY <1>2 DEF Consult
    <3>2. \A listing : CheckedListing(listing).code # "verified"
      BY DEF CheckedListing, Failed, Answered
    <3>3. op.consult \in {"ListScenes", "ListTransitions", "ListProfiles", "ListSceneCollections", "GetStudioModeStatus"}
      BY <1>2, SceneForm
    <3> QED
      BY <3>1, <3>2, <3>3 DEF Consulted, StudioStatus, Failed, Answered
  <2>2. Select(Consult.seen) = Selected(op, Consult.seen)
    BY <1>2 DEF Select
  <2>3. MissingCode(op) # "verified"
    BY DEF MissingCode
  <2>4. \A listing : SelectExactName(op, listing) # "verified"
    BY <2>3 DEF SelectExactName, LookupName
  <2> QED
    BY <2>1, <2>2, <2>4 DEF Selected, SelectStudio, SelectRename
<1>3. CASE op.domain = "sources" /\ IsSourceOperation(op)
  BY <1>3, SourceForm
<1>4. CASE op.domain = "captures" /\ IsCaptureOperation(op)
  BY <1>4, CaptureForm
<1> QED
  BY <1>1, <1>2, <1>3, <1>4, Domains

----------------------------------------------------------------------------
(* The inductive invariant. *)

\* The operation and what it is about are what they are said to be.
Typed == IsOperation(op) /\ IsWorld(op, world)

\* Before the request nothing is done and nothing is known to hold; an operation that is refused
\* does not get that far; one that only waits to be accepted holds when it is.
Stage ==
  /\ phase \in {"called", "selected", "reading", "done"}
  /\ changes \in Nat
  /\ phase # "done" => result = "none"
  /\ phase \in {"called", "selected"} => performed = FALSE /\ held = FALSE
  /\ phase \in {"selected", "reading"} => ~Refused(op)
  /\ phase = "reading" => op.read # "nothing" /\ (op.matches = "Accepted" => held)

\* Until somebody else acts, what the request changed can be read back.
ChangeStands == phase = "reading" /\ performed /\ changes = 0 => Readable(world)

\* The activity on show under the number that the plugin answered is the one of this call.
NumberIsOurs ==
  phase = "reading" /\ op.matches = "Activity" =>
    /\ world.created > 0 /\ known \in Nat
    /\ world.created = 1 /\ world.source.kind = "agent" =>
         \/ world.source.sequence > known
         \/ world.source.sequence = known /\ world.source.by = op.value.by

\* All of it holds when the operation is called.
LEMMA InitHolds == Init => /\ Typed /\ Stage /\ ChangeStands /\ NumberIsOurs
                           /\ VerifiedHeld /\ FailureIsReal /\ RefusedChangedNothing /\ ActivityIsOurs
<1> SUFFICES ASSUME Init
             PROVE  /\ Typed /\ Stage /\ ChangeStands /\ NumberIsOurs
                    /\ VerifiedHeld /\ FailureIsReal /\ RefusedChangedNothing /\ ActivityIsOurs
  OBVIOUS
<1>1. PICK request \in Requests : op \in Operations(request)
  BY DEF Init
<1>2. Typed
  BY <1>1, CallsAssumption DEF Init, Typed
<1>3. Stage /\ ChangeStands /\ NumberIsOurs
  BY DEF Init, Stage, ChangeStands, NumberIsOurs
<1>4. VerifiedHeld /\ FailureIsReal /\ RefusedChangedNothing /\ ActivityIsOurs
  BY DEF Init, VerifiedHeld, FailureIsReal, RefusedChangedNothing, Refusals, ActivityIsOurs
<1> QED
  BY <1>2, <1>3, <1>4

\* What a step does to the operation, which keeps its type, and to its phase.
LEMMA StepTyped ==
  ASSUME Typed, Stage, [Next]_vars
  PROVE  Typed' /\ Stage' /\ op' = op
<1> USE DEF Typed
<1>1. op' = op
  BY DEF Next, vars, call, RejectArguments, SelectTarget, Send, AnsweredLate, ReadBack, Expire, Settle, Interfere, Ended
<1>2. world' = world \/ IsWorld(op, world')
  <2>1. CASE Send \/ AnsweredLate
    BY <2>1, Answer DEF Send, AnsweredLate
  <2>2. CASE Settle
    BY <2>2, SettledKept DEF Settle
  <2>3. CASE Interfere
    BY <2>3 DEF Interfere, Possible
  <2>4. CASE RejectArguments \/ SelectTarget \/ ReadBack \/ Expire \/ Ended \/ UNCHANGED vars
    BY <2>4 DEF RejectArguments, SelectTarget, ReadBack, Expire, Ended, vars
  <2> QED
    BY <2>1, <2>2, <2>3, <2>4 DEF Next
<1>3. Typed'
  BY <1>1, <1>2
<1>4. Refused(op') = Refused(op)
  BY <1>1
<1>5. Stage'
  <2>1. CASE RejectArguments
    BY <2>1 DEF RejectArguments, Finish, Stage
  <2>2. CASE SelectTarget
    BY <1>1, <2>2 DEF SelectTarget, Finish, Stage
  <2>3. CASE Send
    <3>1. PICK outcome \in Perform :
            /\ held' = (outcome.code = "accepted" /\ Goal(world', known'))
            /\ world' = outcome.after
            /\ IF outcome.code # "accepted" THEN Finish(outcome.code)
               ELSE IF op.read = "nothing" THEN Finish("verified")
               ELSE phase' = "reading" /\ UNCHANGED result
      BY <2>3 DEF Send
    <3>2. ~Refused(op) /\ result = "none" /\ changes' \in Nat
      BY <2>3 DEF Send, ToSend, Stage
    <3>3. outcome.code = "accepted" /\ op.matches = "Accepted" => held'
      BY <3>1, Answer
    <3> QED
      BY <1>1, <3>1, <3>2, <3>3 DEF Finish, Stage
  <2>4. CASE AnsweredLate
    BY <2>4 DEF AnsweredLate, Finish, Stage
  <2>5. CASE ReadBack
    <3>1. /\ phase = "reading" /\ (op.matches = "Accepted" => held') /\ changes' \in Nat
          /\ phase' = "done" \/ (phase' = phase /\ result' = result)
      BY <2>5 DEF ReadBack, Finish, Stage
    <3> QED
      BY <1>1, <3>1 DEF Stage
  <2>6. CASE Expire
    BY <2>6 DEF Expire, Finish, Stage
  <2>7. CASE Settle \/ Interfere \/ Ended \/ UNCHANGED vars
    BY <1>1, <2>7 DEF Settle, Interfere, Ended, vars, call, Stage
  <2> QED
    BY <2>1, <2>2, <2>3, <2>4, <2>5, <2>6, <2>7 DEF Next
<1> QED
  BY <1>1, <1>3, <1>5

\* A step to "verified" is a read-back that matches, or the acceptance that was waited for.
LEMMA StepVerified ==
  ASSUME Typed, Stage, VerifiedHeld, [Next]_vars
  PROVE  VerifiedHeld'
<1>1. op' = op
  BY StepTyped
<1>2. CASE RejectArguments \/ AnsweredLate \/ Expire
  BY <1>2 DEF RejectArguments, AnsweredLate, Expire, Finish, VerifiedHeld
<1>3. CASE SelectTarget
  <2>1. result = "none"
    BY <1>3 DEF SelectTarget, Stage
  <2>2. result' # "verified"
    BY <1>3, <2>1, SelectFails DEF SelectTarget, Finish, Typed
  <2> QED
    BY <2>2 DEF VerifiedHeld
<1>4. CASE Send
  <2>1. result = "none"
    BY <1>4 DEF Send, ToSend, Stage
  <2>2. PICK outcome \in Perform :
          /\ held' = (outcome.code = "accepted" /\ Goal(world', known'))
          /\ world' = outcome.after
          /\ IF outcome.code # "accepted" THEN Finish(outcome.code)
             ELSE IF op.read = "nothing" THEN Finish("verified")
             ELSE phase' = "reading" /\ UNCHANGED result
    BY <1>4 DEF Send
  <2>3. outcome.code # "verified" /\ (outcome.code = "accepted" /\ op.matches = "Accepted" => held')
    BY <2>2, Answer DEF Typed
  <2>4. op.read = "nothing" => op.matches = "Accepted"
    BY SourceForm, SceneForm, OverlayForm, CaptureForm, Domains DEF Typed
  <2> QED
    BY <2>1, <2>2, <2>3, <2>4 DEF Finish, VerifiedHeld
<1>5. CASE ReadBack
  <2>1. /\ phase = "reading" /\ op.read # "nothing" /\ ~Refused(op) /\ result = "none"
        /\ op.matches = "Accepted" => held
    BY <1>5 DEF ReadBack, Stage
  <2>2. world' = world
    BY <1>5 DEF ReadBack
  <2>3. result' = "verified" => Read.code = "ok" /\ Matches(Read.seen)
    BY <1>5, <2>1, ReadFails DEF ReadBack, Finish, Typed
  <2>4. held' = IF op.matches = "Accepted" THEN held ELSE Goal(world, known)
    BY <1>5 DEF ReadBack
  <2>5. Unseen => Unseen'
    BY <1>1, <2>2 DEF Unseen
  <2>6. result' = "verified" => held' \/ Unseen
    BY <2>1, <2>3, <2>4, ReadMatches DEF Typed
  <2> QED
    BY <2>5, <2>6 DEF VerifiedHeld
<1>6. CASE Settle \/ Interfere
  BY <1>6 DEF Settle, Interfere, call, Stage, VerifiedHeld
<1>7. CASE Ended \/ UNCHANGED vars
  <2>1. world' = world /\ result' = result /\ held' = held
    BY <1>7 DEF Ended, vars
  <2>2. Unseen' = Unseen
    BY <1>1, <2>1 DEF Unseen
  <2> QED
    BY <2>1, <2>2 DEF VerifiedHeld
<1> QED
  BY <1>2, <1>3, <1>4, <1>5, <1>6, <1>7 DEF Next

\* A step to a failure after which the goal holds is a read-back that missed it.
LEMMA StepFailure ==
  ASSUME Typed, Stage, FailureIsReal, [Next]_vars
  PROVE  FailureIsReal'
<1>1. op' = op
  BY StepTyped
<1>2. world' = world /\ Unrecognised => Unrecognised'
  BY <1>1 DEF Unrecognised
<1>3. CASE RejectArguments \/ SelectTarget
  BY <1>3 DEF RejectArguments, SelectTarget, Stage, FailureIsReal
<1>4. CASE AnsweredLate \/ Expire
  BY <1>4 DEF AnsweredLate, Expire, Finish, FailureIsReal
<1>5. CASE Send
  BY <1>5 DEF Send, Finish, FailureIsReal, ToSend, Stage
<1>6. CASE ReadBack
  <2>1. /\ phase = "reading" /\ op.read # "nothing" /\ ~Refused(op)
        /\ op.matches = "Accepted" => held
    BY <1>6 DEF ReadBack, Stage
  <2>2. world' = world
    BY <1>6 DEF ReadBack
  <2>3. phase' = "done" /\ result' # "verified" => (Read.code = "ok" => ~Matches(Read.seen))
    BY <1>6 DEF ReadBack, Finish
  <2>4. held' = IF op.matches = "Accepted" THEN held ELSE Goal(world, known)
    BY <1>6 DEF ReadBack
  <2>5. phase' = "done" /\ result' # "verified" /\ held' => Unrecognised
    BY <2>1, <2>3, <2>4, ReadMisses DEF Typed
  <2> QED
    BY <1>2, <2>2, <2>5 DEF FailureIsReal
<1>7. CASE Settle \/ Interfere
  BY <1>7 DEF Settle, Interfere, call, FailureIsReal
<1>8. CASE Ended \/ UNCHANGED vars
  BY <1>2, <1>8 DEF Ended, vars, FailureIsReal
<1> QED
  BY <1>3, <1>4, <1>5, <1>6, <1>7, <1>8 DEF Next

\* A step to a refusal follows a change of somebody else, or no change at all.
LEMMA StepRefused ==
  ASSUME Typed, Stage, ChangeStands, RefusedChangedNothing, [Next]_vars
  PROVE  ChangeStands' /\ RefusedChangedNothing'
<1>1. op' = op
  BY StepTyped
<1>2. \A w : Readable(w)' = Readable(w)
  BY <1>1 DEF Readable
<1>3. CASE RejectArguments \/ SelectTarget
  BY <1>3 DEF RejectArguments, SelectTarget, Finish, Stage, ChangeStands, RefusedChangedNothing
<1>4. CASE AnsweredLate \/ Expire
  BY <1>4 DEF AnsweredLate, Expire, Finish, ChangeStands, RefusedChangedNothing, Refusals
<1>5. CASE Send
  <2>1. result = "none"
    BY <1>5 DEF Send, ToSend, Stage
  <2>2. PICK outcome \in Perform :
          /\ world' = outcome.after
          /\ performed' = Changed(world, outcome.after)
          /\ IF outcome.code # "accepted" THEN Finish(outcome.code)
             ELSE IF op.read = "nothing" THEN Finish("verified")
             ELSE phase' = "reading" /\ UNCHANGED result
    BY <1>5 DEF Send
  <2>3. /\ outcome.code \in Refusals => ~Changed(world, outcome.after)
        /\ outcome.code = "accepted" /\ op.read # "nothing" /\ Changed(world, outcome.after) => Readable(outcome.after)
    BY Answer DEF Typed
  <2>4. phase' = "reading" /\ performed' => Readable(world')
    BY <2>2, <2>3 DEF Finish
  <2>5. result' \in Refusals => ~performed'
    BY <2>1, <2>2, <2>3 DEF Finish, Refusals
  <2>6. ChangeStands'
    BY <1>1, <2>4 DEF ChangeStands, Readable
  <2> QED
    BY <2>5, <2>6 DEF RefusedChangedNothing
<1>6. CASE ReadBack
  <2>1. phase = "reading" /\ op.read # "nothing" /\ result = "none"
    BY <1>6 DEF ReadBack, Stage
  <2>2. world' = world /\ performed' = performed /\ changes' = changes
    BY <1>6 DEF ReadBack
  <2>3. result' \in Refusals => result' = Read.code
    BY <1>6, <2>1 DEF ReadBack, Finish, Refusals
  <2>4. phase' \in {phase, "done"}
    BY <1>6 DEF ReadBack, Finish
  <2>5. ChangeStands'
    BY <1>1, <2>1, <2>2, <2>4 DEF ChangeStands, Readable
  <2>6. performed /\ changes = 0 => Readable(world)
    BY <2>1 DEF ChangeStands
  <2>7. performed /\ changes = 0 /\ result' \in Refusals =>
          \/ op.request = "SetFilterEnabled"
          \/ op.request \in {"CreateSource", "SetInputSettings"} /\ result' = "OBS_ARGUMENT_INVALID"
    BY <2>1, <2>3, <2>6, ReadFails DEF Typed
  <2> QED
    BY <1>1, <2>2, <2>5, <2>7 DEF RefusedChangedNothing, LateRefusal
<1>7. CASE Settle
  <2>1. phase # "done" /\ result = "none" /\ world' = Settled(world)
    BY <1>7 DEF Settle, Stage
  <2>2. phase' = phase /\ performed' = performed /\ changes' = changes /\ result' = result
    BY <1>7 DEF Settle, call
  <2>3. Readable(world) => Readable(world')
    BY <2>1, SettledReadable DEF Typed
  <2>4. ChangeStands'
    BY <1>1, <2>2, <2>3 DEF ChangeStands, Readable
  <2> QED
    BY <2>1, <2>2, <2>4 DEF RefusedChangedNothing, Refusals
<1>8. CASE Interfere
  <2>1. changes' # 0
    BY <1>8 DEF Interfere, Stage
  <2> QED
    BY <2>1 DEF ChangeStands, RefusedChangedNothing
<1>9. CASE Ended \/ UNCHANGED vars
  BY <1>1, <1>9 DEF Ended, vars, ChangeStands, RefusedChangedNothing, Readable, LateRefusal
<1> QED
  BY <1>3, <1>4, <1>5, <1>6, <1>7, <1>8, <1>9 DEF Next

\* A step to "verified" reads the number of the call, which no other activity has.
LEMMA StepOurs ==
  ASSUME Typed, Stage, NumberIsOurs, ActivityIsOurs, [Next]_vars
  PROVE  NumberIsOurs' /\ ActivityIsOurs'
<1>1. op' = op
  BY StepTyped
<1>2. op.matches = "Activity" => op.domain = "overlays" /\ IsOverlays(world) /\ op.value.kind = "agent" /\ op.read = "GetOverlay"
  BY SourceForm, SceneForm, OverlayForm, CaptureForm, Domains DEF Typed
<1> SUFFICES ASSUME op.matches = "Activity"
             PROVE  NumberIsOurs' /\ ActivityIsOurs'
  BY <1>1 DEF NumberIsOurs, ActivityIsOurs
<1>3. world.created \in Nat /\ (world.source.kind = "agent" => world.source.sequence \in Nat)
  BY <1>2 DEF IsOverlays, IsOverlay
<1>4. CASE RejectArguments \/ AnsweredLate \/ Expire
  BY <1>4 DEF RejectArguments, AnsweredLate, Expire, Finish, NumberIsOurs, ActivityIsOurs
<1>5. CASE SelectTarget
  <2>1. result = "none"
    BY <1>5 DEF SelectTarget, Stage
  <2>2. result' # "verified" /\ phase' # "reading"
    BY <1>5, <2>1, SelectFails DEF SelectTarget, Finish, Typed
  <2> QED
    BY <2>2 DEF NumberIsOurs, ActivityIsOurs
<1>6. CASE Send
  <2>1. result = "none"
    BY <1>6 DEF Send, ToSend, Stage
  <2>2. PICK outcome \in Perform :
          /\ world' = outcome.after
          /\ known' = IF outcome.got = 0 THEN known ELSE outcome.got
          /\ IF outcome.code # "accepted" THEN Finish(outcome.code)
             ELSE IF op.read = "nothing" THEN Finish("verified")
             ELSE phase' = "reading" /\ UNCHANGED result
    BY <1>6 DEF Send
  <2>3. /\ outcome.code # "verified"
        /\ outcome.code = "accepted" =>
             /\ outcome.after.created > 0 /\ outcome.after.source.by = op.value.by
             /\ outcome.got = outcome.after.source.sequence /\ outcome.got \in Nat \ {0}
    BY Answer DEF Typed
  <2>4. result' # "verified"
    BY <1>2, <2>1, <2>2, <2>3 DEF Finish
  <2>5. NumberIsOurs'
    BY <1>1, <2>2, <2>3 DEF NumberIsOurs, Finish
  <2> QED
    BY <2>4, <2>5 DEF ActivityIsOurs
<1>7. CASE ReadBack
  <2>1. phase = "reading" /\ result = "none"
    BY <1>7 DEF ReadBack, Stage
  <2>2. world' = world /\ known' = known
    BY <1>7 DEF ReadBack
  <2>3. phase' \in {phase, "done"}
    BY <1>7 DEF ReadBack, Finish
  <2>4. result' = "verified" => Read.code = "ok" /\ Matches(Read.seen)
    BY <1>2, <1>7, <2>1, ReadFails DEF ReadBack, Finish, Typed
  <2>5. ASSUME Read.code = "ok", Matches(Read.seen)
        PROVE  world.source.kind = "agent" /\ world.source.sequence = known
    <3>1. Read = ReadOverlay(world, op) /\ OverlayMatches(op, known, Read.seen)
      BY <1>2, <2>5 DEF Read, Matches
    <3>2. Bound(world, op) /\ Read.seen = GetOverlay(world, op)
      BY <2>5, <3>1 DEF ReadOverlay, Answered, Failed
    <3>3. world.source.kind = "agent"
      BY <1>2, <3>2 DEF Bound
    <3>4. GetOverlay(world, op).sequence = world.source.sequence
      BY <1>2, <3>3, OverlayReport
    <3> QED
      BY <3>1, <3>2, <3>3, <3>4 DEF OverlayMatches, ActivityMatches
  <2>6. result' = "verified" /\ world.created = 1 => world.source.by = op.value.by
    BY <1>3, <2>1, <2>4, <2>5 DEF NumberIsOurs
  <2>7. NumberIsOurs'
    BY <1>1, <2>1, <2>2, <2>3 DEF NumberIsOurs
  <2> QED
    BY <1>1, <2>2, <2>6, <2>7 DEF ActivityIsOurs
<1>8. CASE Settle
  <2>1. world' = NextFrame(world) /\ result = "none" /\ result' = result /\ phase' = phase /\ known' = known
    BY <1>2, <1>8 DEF Settle, Settled, call, Stage
  <2>2. world'.created = world.created /\ world'.source = world.source
    BY <1>2, <2>1, FrameDrawn
  <2> QED
    BY <1>1, <2>1, <2>2 DEF NumberIsOurs, ActivityIsOurs
<1>9. CASE Interfere
  <2>1. /\ IsWorld(op, world') /\ Numbered(world, world') /\ result = "none"
        /\ result' = result /\ phase' = phase /\ known' = known
    BY <1>2, <1>9 DEF Interfere, Possible, call, Stage
  <2>2. /\ world'.created \in Nat /\ (world'.source.kind = "agent" => world'.source.sequence \in Nat)
    BY <1>2, <2>1 DEF IsWorld, IsOverlays, IsOverlay
  <2>3. ASSUME phase = "reading"
        PROVE  /\ world'.created > 0 /\ known \in Nat
               /\ world'.created = 1 /\ world'.source.kind = "agent" =>
                    \/ world'.source.sequence > known
                    \/ world'.source.sequence = known /\ world'.source.by = op.value.by
    <3>1. /\ world.created > 0 /\ known \in Nat
          /\ world.created = 1 /\ world.source.kind = "agent" =>
               \/ world.source.sequence > known
               \/ world.source.sequence = known /\ world.source.by = op.value.by
      BY <2>3 DEF NumberIsOurs
    <3>2. world'.created >= world.created
      BY <2>1 DEF Numbered
    <3>3. CASE world'.created = 1 /\ world'.source.kind = "agent"
      <4>1. world.created = 1
        BY <1>3, <2>2, <3>1, <3>2, <3>3
      <4>2. /\ world.source.kind = "agent" /\ world'.source.sequence >= world.source.sequence
            /\ world'.source.sequence = world.source.sequence => world'.source.by = world.source.by
        BY <2>1, <3>3, <4>1 DEF Numbered
      <4>3. CASE world.source.sequence > known
        BY <1>3, <2>2, <3>1, <3>3, <4>2, <4>3
      <4> QED
        BY <1>3, <2>2, <3>1, <3>3, <4>1, <4>2, <4>3
    <3> QED
      BY <1>3, <2>2, <3>1, <3>2, <3>3
  <2>4. NumberIsOurs'
    BY <1>1, <2>1, <2>3 DEF NumberIsOurs
  <2> QED
    BY <2>1, <2>4 DEF ActivityIsOurs
<1>10. CASE Ended \/ UNCHANGED vars
  BY <1>1, <1>10 DEF Ended, vars, NumberIsOurs, ActivityIsOurs
<1> QED
  BY <1>4, <1>5, <1>6, <1>7, <1>8, <1>9, <1>10 DEF Next

----------------------------------------------------------------------------
(* The theorems. *)

\* Every operation and every state of OBS it meets is one of those the bridge and the plugin
\* handle, and the operation goes through its phases in order.
THEOREM OperationTyped == Spec => [](Typed /\ Stage)
<1>1. Typed /\ Stage /\ [Next]_vars => (Typed /\ Stage)'
  BY StepTyped
<1> QED
  BY <1>1, InitHolds, PTL DEF Spec

\* An operation that _poll reports as verified held when OBS was last asked, for every operation
\* of the bridge, except for what its read-back does not show.
THEOREM VerifiedOperationHeld == Spec => []VerifiedHeld
<1>1. Typed /\ Stage /\ VerifiedHeld /\ [Next]_vars => VerifiedHeld'
  BY StepVerified
<1> QED
  BY <1>1, InitHolds, OperationTyped, PTL DEF Spec

\* An operation that failed although what it asked for held failed for a reason that
\* Unrecognised names: there are no others.
THEOREM FailedOperationIsReal == Spec => []FailureIsReal
<1>1. Typed /\ Stage /\ FailureIsReal /\ [Next]_vars => FailureIsReal'
  BY StepFailure
<1> QED
  BY <1>1, InitHolds, OperationTyped, PTL DEF Spec

\* What the bridge or the plugin refuses is not done, but for the two requests whose refusal
\* comes from the read-back.
THEOREM RefusedOperationChangedNothing == Spec => []RefusedChangedNothing
<1>1. Typed /\ Stage /\ (ChangeStands /\ RefusedChangedNothing) /\ [Next]_vars => (ChangeStands /\ RefusedChangedNothing)'
  BY StepRefused
<1> QED
  BY <1>1, InitHolds, OperationTyped, PTL DEF Spec

\* emit_agent_activity takes no other agent's activity for its own.
THEOREM EmittedActivityIsOurs == Spec => []ActivityIsOurs
<1>1. Typed /\ Stage /\ (NumberIsOurs /\ ActivityIsOurs) /\ [Next]_vars => (NumberIsOurs /\ ActivityIsOurs)'
  BY StepOurs
<1> QED
  BY <1>1, InitHolds, OperationTyped, PTL DEF Spec

=============================================================================
