---------------------------- MODULE SourceControl ----------------------------
(***************************************************************************)
(* Typed control of sources and filters: what the plugin does with a       *)
(* request on OBS's user-interface thread, and what the bridge sends for    *)
(* it, reads back and compares.                                             *)
(*                                                                          *)
(* `s` is the sources of OBS by name: a function from the names in use.     *)
(* Scenes share the name space.  A volume is counted in units of 2^-20 and  *)
(* a position in units of 2^-10: in these units a single-precision number   *)
(* below 2^24 is exact.  A size or a colour is a small number, of which     *)
(* those above Largest are beyond the reviewed range.                       *)
(***************************************************************************)
EXTENDS BridgeRequests, Functions

CONSTANT Largest        \* the largest reviewed width, height and colour

Properties == {"width", "height", "color"}
Nothing == [kind |-> "none"]

----------------------------------------------------------------------------
(* What the bridge accepts from a caller. *)

Reviewed(property, v) == (IF property = "color" THEN 0 ELSE 1) <= v /\ v <= Largest

NormalizedInput(settings) ==
  /\ DOMAIN settings # {}
  /\ \A p \in DOMAIN settings : Reviewed(p, settings[p])

SettingsOf(op) == IF op.request = "CreateSource" THEN op.value.settings ELSE op.value
NormalizedFilter(db) == db \in 0..Largest

SourceRequest(request, name, value, read, matches) == Asks("sources", request, name, value, read, matches)

CreateSourceRequest(scene, name, settings, enabled) ==
  SourceRequest("CreateSource", name, [scene |-> scene, settings |-> settings, enabled |-> enabled],
                "GetInputSettings", "ExactSettings")
RenameSourceRequest(name, new) ==
  [SourceRequest("RenameSource", name, new, "GetSourceIdentity", "SourceNamed") EXCEPT !.target = new]
RemoveSourceRequest(name) ==
  Once(SourceRequest("RemoveSource", name, 0, "nothing", "Accepted"))
SetInputSettingsRequest(name, settings) ==
  SourceRequest("SetInputSettings", name, settings, "GetInputSettings", "GivenSettings")
SetPropertyValueRequest(name, property, v) ==
  SourceRequest("SetInputSettings", name, [p \in {property} |-> v], "GetInputSettings", "GivenSettings")
CreateFilterRequest(name, db, enabled) ==
  SourceRequest("CreateFilter", name, [db |-> db, enabled |-> enabled], "GetFilter", "FilterAsked")
SetFilterEnabledRequest(name, enabled) ==
  SourceRequest("SetFilterEnabled", name, enabled, "GetFilter", "FilterEnabled")
SetFilterSettingsRequest(name, db) ==
  SourceRequest("SetFilterSettings", name, db, "GetFilter", "FilterSettings")
RemoveFilterRequest(name) ==
  Once(SourceRequest("RemoveFilter", name, 0, "nothing", "Accepted"))
SetSourceVolumeRequest(name, v) == SourceRequest("SetSourceVolume", name, v, "GetSourceVolume", "VolumeClose")
SetSourceMuteRequest(name, v) == SourceRequest("SetSourceMute", name, v, "GetSourceMute", "MuteEqual")
SetSourceMonitorTypeRequest(name, v) ==
  SourceRequest("SetSourceMonitorType", name, v, "GetSourceMonitorType", "MonitorEqual")
MediaRequest(request, name, state) == SourceRequest(request, name, state, "GetMediaStatus", "MediaState")
SeekMediaRequest(name, cursor) == SourceRequest("SeekMedia", name, cursor, "GetMediaStatus", "CursorClose")

----------------------------------------------------------------------------
(* What the plugin does: a set of pairs of an answer and the sources after it. *)

NewFilter(db, enabled) == [kind |-> "gain_filter", db |-> db, enabled |-> enabled]

\* OBS completes the settings of a new colour source with its own defaults.
NewColorSource(settings, enabled) ==
  [kind |-> "color_source_v3", settings |-> settings ++ [p \in Properties |-> 1], shown |-> enabled,
   volume |-> 2^20, muted |-> FALSE, monitor |-> "none", media |-> "none", cursor |-> 0, filter |-> Nothing]

CreateSource(s, op) ==
  IF op.value.scene \notin DOMAIN s \/ s[op.value.scene].kind # "scene" THEN Refuse(s, "OBS_SCENE_NOT_FOUND")
  ELSE IF op.name \in DOMAIN s THEN Refuse(s, "OBS_TARGET_AMBIGUOUS")
  ELSE Accept(With(s, op.name, NewColorSource(op.value.settings, op.value.enabled)))

RenameSource(s, op) ==
  IF s[op.name].kind = "scene" THEN Refuse(s, "OBS_SOURCE_KIND_UNSUPPORTED")
  ELSE IF op.value \in DOMAIN s THEN Refuse(s, "OBS_TARGET_AMBIGUOUS")
  ELSE Accept(With(Restrict(s, DOMAIN s \ {op.name}), op.value, s[op.name]))

\* Mutant: the source is removed before its kind is asked for.
RemoveSourceThenRefuse(s, op) ==
  LET after == Restrict(s, DOMAIN s \ {op.name})
  IN  IF s[op.name].kind = "scene" THEN Refuse(after, "OBS_SOURCE_KIND_UNSUPPORTED")
      ELSE Accept(after) \cup Refuse(after, "OBS_POSTCONDITION_FAILED")

\* A source that something still refers to is found by its name a little longer.
RemoveSource(s, op) ==
  LET after == Restrict(s, DOMAIN s \ {op.name})
  IN  IF s[op.name].kind = "scene" THEN Refuse(s, "OBS_SOURCE_KIND_UNSUPPORTED")
      ELSE Accept(after) \cup Refuse(after, "OBS_POSTCONDITION_FAILED")

SetInputSettings(s, op) ==
  IF s[op.name].kind # "color_source_v3" THEN Refuse(s, "OBS_SOURCE_KIND_UNSUPPORTED")
  ELSE Accept([s EXCEPT ![op.name].settings = op.value ++ @])

CreateFilter(s, op) ==
  IF s[op.name].filter # Nothing THEN Refuse(s, "OBS_TARGET_AMBIGUOUS")
  ELSE Accept([s EXCEPT ![op.name].filter = NewFilter(op.value.db, op.value.enabled)])

\* Only a change of the settings asks for the kind of the filter.
ChangeFilter(s, op) ==
  LET filter == s[op.name].filter
  IN  IF filter = Nothing THEN Refuse(s, "OBS_SOURCE_NOT_FOUND") ELSE
      CASE op.request = "SetFilterEnabled" -> Accept([s EXCEPT ![op.name].filter.enabled = op.value])
        [] op.request = "SetFilterSettings" ->
             IF filter.kind # "gain_filter" THEN Refuse(s, "OBS_FILTER_KIND_UNSUPPORTED")
             ELSE Accept([s EXCEPT ![op.name].filter.db = op.value])
        [] OTHER -> Accept([s EXCEPT ![op.name].filter = Nothing])

SetAudio(s, op) ==
  Accept(CASE op.request = "SetSourceVolume" -> [s EXCEPT ![op.name].volume = Single(op.value)]
           [] op.request = "SetSourceMute"   -> [s EXCEPT ![op.name].muted = op.value]
           [] OTHER                          -> [s EXCEPT ![op.name].monitor = op.value])

\* A cursor is counted in steps as long as the tolerance of a seek.
\* A player does what it is asked at once, or opens first, or ignores what it cannot do.
Played(source, op) ==
  CASE op.request \in {"PlayMedia", "RestartMedia"} ->
         {[source EXCEPT !.media = m] : m \in {"playing", "opening"}}
    [] op.request = "PauseMedia" -> {IF source.media = "playing" THEN [source EXCEPT !.media = "paused"] ELSE source}
    [] op.request = "StopMedia"  -> {[source EXCEPT !.media = "stopped", !.cursor = 0]}
    [] OTHER                     -> {[source EXCEPT !.cursor = op.value]}

ControlMedia(s, op) ==
  IF s[op.name].kind # "media" THEN Refuse(s, "OBS_MEDIA_NOT_CONTROLLABLE")
  ELSE UNION {Accept([s EXCEPT ![op.name] = after]) : after \in Played(s[op.name], op)}

PerformOnSource(s, op) ==
  IF op.request = "CreateSource" THEN CreateSource(s, op)
  ELSE IF op.name \notin DOMAIN s THEN Refuse(s, "OBS_SOURCE_NOT_FOUND")
  ELSE
  CASE op.request = "RenameSource" -> RenameSource(s, op)
    [] op.request = "RemoveSource" -> RemoveSource(s, op)
    [] op.request = "SetInputSettings" -> SetInputSettings(s, op)
    [] op.request = "CreateFilter" -> CreateFilter(s, op)
    [] op.request \in {"SetFilterEnabled", "SetFilterSettings", "RemoveFilter"} -> ChangeFilter(s, op)
    [] op.request \in {"SetSourceVolume", "SetSourceMute", "SetSourceMonitorType"} -> SetAudio(s, op)
    [] OTHER -> ControlMedia(s, op)

----------------------------------------------------------------------------
(* What the plugin answers to a read, and what the bridge makes of the answer. *)

GetInputSettings(source) ==
  IF source.kind # "color_source_v3" THEN Failed("OBS_SOURCE_KIND_UNSUPPORTED") ELSE Answered(source)
GetFilter(source) ==
  IF source.filter = Nothing THEN Failed("OBS_SOURCE_NOT_FOUND")
  ELSE IF source.filter.kind # "gain_filter" THEN Failed("OBS_FILTER_KIND_UNSUPPORTED") ELSE Answered(source)
GetMediaStatus(source) ==
  IF source.kind # "media" THEN Failed("OBS_MEDIA_NOT_CONTROLLABLE") ELSE Answered(source)

ReadSource(s, op) ==
  IF op.target \notin DOMAIN s THEN Failed("OBS_SOURCE_NOT_FOUND") ELSE
  CASE op.read = "GetInputSettings"   -> GetInputSettings(s[op.target])
    [] op.read = "GetFilter"          -> GetFilter(s[op.target])
    [] op.read = "GetMediaStatus"     -> GetMediaStatus(s[op.target])
    [] OTHER                          -> Answered(s[op.target])

\* Settings out of the reviewed range fail with the error of a bad argument.
CheckedInputSettings(answer) ==
  IF NormalizedInput(answer.seen.settings) THEN answer ELSE Failed("OBS_ARGUMENT_INVALID")
CheckedFilter(answer) ==
  IF NormalizedFilter(answer.seen.filter.db) THEN answer ELSE Failed("OBS_ARGUMENT_INVALID")

CheckSource(op, answer) ==
  IF answer.code # "ok" THEN answer ELSE
  CASE op.read = "GetInputSettings"   -> CheckedInputSettings(answer)
    [] op.read = "GetFilter"          -> CheckedFilter(answer)
    [] OTHER                          -> answer

ExactSettings(op, source) == source.settings = op.value.settings
GivenSettings(op, source) == \A p \in DOMAIN op.value : source.settings[p] = op.value[p]
FilterAsked(op, source) == source.filter.db = op.value.db /\ source.filter.enabled = op.value.enabled
\* Mutant: the volume is compared without a tolerance.
VolumeEqual(op, source) == source.volume = op.value

VolumeClose(op, source) == Close(source.volume, op.value)
MediaReached(op, source) ==
  IF op.matches = "MediaState" THEN source.media = op.value ELSE Close(source.cursor, op.value)

SourceMatches(op, source) ==
  CASE op.matches = "SourceNamed"    -> TRUE
    [] op.matches = "ExactSettings"  -> ExactSettings(op, source)
    [] op.matches = "GivenSettings"  -> GivenSettings(op, source)
    [] op.matches = "FilterAsked"    -> FilterAsked(op, source)
    [] op.matches = "FilterEnabled"  -> source.filter.enabled = op.value
    [] op.matches = "FilterSettings" -> source.filter.db = op.value
    [] op.matches = "VolumeClose"    -> VolumeClose(op, source)
    [] op.matches = "MuteEqual"      -> source.muted = op.value
    [] op.matches = "MonitorEqual"   -> source.monitor = op.value
    [] OTHER                         -> MediaReached(op, source)
=============================================================================
