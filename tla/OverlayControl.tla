--------------------------- MODULE OverlayControl ---------------------------
(***************************************************************************)
(* The two overlays the plugin can draw: the activity of the agents and a   *)
(* presentation panel.  What the plugin does with a request on OBS's        *)
(* user-interface thread, and what the bridge sends, reads and compares.    *)
(*                                                                          *)
(* `o` is a record: the scenes, the place of the overlay's item in those    *)
(* that show it, the one source behind these items with its settings, the   *)
(* size that source has, the canvas, and the wall clock in units of 250 ms. *)
(* Coordinates are doubled, so that a centre is a whole number.             *)
(***************************************************************************)
EXTENDS BridgeRequests, Functions

CONSTANTS
  Opacities, Margins, Widths,  \* what the bridge and the plugin accept
  Durations,                   \* 250 ms to 5000 ms
  LongShortcut                 \* an activity whose keys take more than 32 bytes

Horizontal == [top_left |-> "left", top_center |-> "center", top_right |-> "right", center_left |-> "left",
               center_right |-> "right", bottom_left |-> "left", bottom_center |-> "center", bottom_right |-> "right"]
Vertical   == [top_left |-> "top", top_center |-> "top", top_right |-> "top", center_left |-> "middle",
               center_right |-> "middle", bottom_left |-> "bottom", bottom_center |-> "bottom", bottom_right |-> "bottom"]
Anchors == DOMAIN Horizontal
NoSource == [kind |-> "none"]
Quiet == [active |-> FALSE, activity |-> "none", duration |-> 0, expires |-> 0]

----------------------------------------------------------------------------
(* The operations of the bridge. *)

OverlayRequest(request, scene, value, matches) == Once(Asks("overlays", request, scene, value, "GetOverlay", matches))
CreateOverlayRequest(kind, scene, layout) ==
  [OverlayRequest("CreateOverlay", scene, [kind |-> kind, layout |-> layout], "Layout") EXCEPT !.consult = "ListScenes"]
SetOverlayLayoutRequest(kind, scene, layout) ==
  OverlayRequest("SetOverlayLayout", scene, [kind |-> kind, layout |-> layout], "Layout")
\* `by` is history: whose call it is.  Two agents may well use the same identifier.
EmitActivityRequest(by, scene, agent, activity, duration) ==
  OverlayRequest("EmitActivity", scene, [kind |-> "agent", agent |-> agent, activity |-> activity,
                                         duration |-> duration, by |-> by], "Activity")
ClearOverlayRequest(scene) == OverlayRequest("ClearOverlay", scene, [kind |-> "agent"], "Cleared")
UpdatePresentationRequest(scene, rows, visible) ==
  OverlayRequest("UpdatePresentation", scene, [kind |-> "presentation", rows |-> rows, visible |-> visible], "Content")

\* create_agent_input_overlay asks for an anchor only.
LayoutAccepted(kind, layout) ==
  /\ layout.anchor \in Anchors
  /\ "opacity" \in DOMAIN layout => layout.opacity \in Opacities /\ layout.margin \in Margins
  /\ kind = "presentation" => layout.width \in Widths

----------------------------------------------------------------------------
(* The geometry of an item. *)

AgentSize == [width |-> 620, height |-> 104]
\* source_update clamps the width and makes room for at least one row.
PresentationSize(settings) ==
  [width |-> settings.width, height |-> 92 + 18 + 38 * (IF settings.rows = 0 THEN 1 ELSE settings.rows)]
SizeOf(source) == IF source.kind = "agent" THEN AgentSize ELSE PresentationSize(source)

AtLeast0(v) == IF v < 0 THEN 0 ELSE v
Along(where, extent, size, margin) ==
  CASE where \in {"left", "top"}      -> 2 * margin
    [] where \in {"center", "middle"} -> AtLeast0(extent - size)
    [] OTHER                          -> AtLeast0(2 * (extent - size - margin))
AnchorPosition(canvas, size, anchor, margin) ==
  [x |-> Along(Horizontal[anchor], canvas.width, size.width, margin),
   y |-> Along(Vertical[anchor], canvas.height, size.height, margin)]

Near(a, b) == a - b \in -2..2
At(place, position) == Near(place.x, position.x) /\ Near(place.y, position.y)

\* The anchors are tried row by row from the top left.  The two overlays differ in the middle:
\* the presentation has a ninth place there, which is nobody's.
AnchorOrder == <<"top_left", "top_center", "top_right", "center_left", "center_right",
                 "bottom_left", "bottom_center", "bottom_right">>
Middle(canvas, size) == [x |-> AtLeast0(canvas.width - size.width), y |-> AtLeast0(canvas.height - size.height)]
AnchorForItem(o, place) ==
  LET there  == {i \in DOMAIN AnchorOrder :
                   At(place, AnchorPosition(o.canvas, o.size, AnchorOrder[i], o.source.margin))}
      first  == CHOOSE i \in there : \A j \in there : i <= j
      hidden == o.source.kind = "presentation" /\ At(place, Middle(o.canvas, o.size)) /\ \A i \in there : i > 4
  IN  IF there = {} \/ hidden THEN "custom" ELSE AnchorOrder[first]

----------------------------------------------------------------------------
(* What the plugin does. *)

\* OBS gives a source the size its new settings call for with the next frame, which another
\* thread draws: the item is positioned with the size before or after that.
NextFrame(o) == IF o.source.kind \in {"agent", "presentation"} THEN [o EXCEPT !.size = SizeOf(o.source)] ELSE o
Position(o, scene, anchor, margin) ==
  UNION {Accept([now EXCEPT !.places = With(@, scene, AnchorPosition(o.canvas, now.size, anchor, margin))]) :
           now \in {o, NextFrame(o)}}

NewSource(kind) ==
  IF kind = "agent"
  THEN [kind |-> kind, anchor |-> "bottom_right", opacity |-> 78, margin |-> 48, agent |-> "agent",
        sequence |-> 0, by |-> "nobody"] ++ Quiet
  ELSE [kind |-> kind, anchor |-> "top_right", opacity |-> 88, margin |-> 48, width |-> 520,
        rows |-> 0, visible |-> TRUE]

\* The settings belong to the source, which all the scenes that show it share.
Relaid(o, scene, layout) ==
  LET source == layout ++ o.source
  IN  Position([o EXCEPT !.source = source], scene, layout.anchor, source.margin)

Bound(o, op) == op.name \in DOMAIN o.places /\ o.source.kind = op.value.kind

CreateOverlay(o, op) ==
  LET fresh   == op.value.layout ++ NewSource(op.value.kind)
      created == [o EXCEPT !.source = fresh, !.size = SizeOf(fresh), !.created = @ + 1]
  IN  IF op.name \notin o.scenes THEN Refuse(o, "OBS_SCENE_NOT_FOUND")
      ELSE IF o.source = NoSource THEN Relaid(created, op.name, op.value.layout)
      ELSE IF o.source.kind # op.value.kind THEN Refuse(o, "OBS_TARGET_AMBIGUOUS")
      ELSE Relaid(o, op.name, op.value.layout)

SetOverlayLayout(o, op) == Relaid(o, op.name, op.value.layout)

EmitActivity(o, op) ==
  LET next == o.source.sequence + 1
  IN  Give([o EXCEPT !.source = [active |-> TRUE, activity |-> op.value.activity, agent |-> op.value.agent,
                                 duration |-> op.value.duration, expires |-> o.clock + op.value.duration, by |-> op.value.by,
                                 sequence |-> next] ++ @], next)

ClearOverlay(o) == LET next == o.source.sequence + 1
                   IN  Give([o EXCEPT !.source = Quiet ++ [sequence |-> next] ++ @], next)

UpdatePresentation(o, op) ==
  LET source == [rows |-> op.value.rows, visible |-> op.value.visible] ++ o.source
  IN  Position([o EXCEPT !.source = source], op.name, source.anchor, source.margin)

PerformOnOverlay(o, op) ==
  IF op.request = "CreateOverlay" THEN CreateOverlay(o, op)
  ELSE IF op.request = "EmitActivity" /\ op.value.activity = LongShortcut THEN Refuse(o, "OBS_ARGUMENT_INVALID")
  ELSE IF ~Bound(o, op) THEN Refuse(o, "OBS_SOURCE_NOT_FOUND")
  ELSE
  CASE op.request = "SetOverlayLayout" -> SetOverlayLayout(o, op)
    [] op.request = "EmitActivity" -> EmitActivity(o, op)
    [] op.request = "ClearOverlay" -> ClearOverlay(o)
    [] OTHER -> UpdatePresentation(o, op)

----------------------------------------------------------------------------
(* What the bridge reads back and accepts. *)

Remaining(o) == LET left == o.source.expires - o.clock
                IN  CASE left < 0 -> 0 [] left > 20 -> 20 [] OTHER -> left

\* An activity that has expired is reported as none.
ShownActivity(o) ==
  IF o.source.active /\ Remaining(o) > 0
  THEN [active |-> TRUE, activity |-> o.source.activity, duration |-> o.source.duration]
  ELSE [active |-> FALSE, activity |-> "none", duration |-> 0]
GetOverlay(o, op) ==
  LET place == [anchor |-> AnchorForItem(o, o.places[op.name])]
  IN  IF o.source.kind = "agent" THEN place ++ ShownActivity(o) ++ [remaining |-> Remaining(o)] ++ o.source
      ELSE place ++ o.source
ReadOverlay(o, op) == IF Bound(o, op) THEN Answered(GetOverlay(o, op)) ELSE Failed("OBS_SOURCE_NOT_FOUND")

\* Mutant: the settings are compared, the place is not.
LayoutMatchesSettings(layout, seen) == \A part \in DOMAIN layout \ {"anchor"} : seen[part] = layout[part]

LayoutMatches(layout, seen) == \A part \in DOMAIN layout : seen[part] = layout[part]
\* Mutant: the number of the activity is not compared.
ActivityMatchesAnyCall(value, sequence, seen) ==
  /\ seen.active /\ seen.activity = value.activity /\ seen.duration = value.duration /\ seen.agent = value.agent
  /\ 0 < seen.remaining /\ seen.remaining <= value.duration

ActivityMatches(value, sequence, seen) ==
  /\ seen.active /\ seen.sequence = sequence
  /\ seen.activity = value.activity /\ seen.duration = value.duration /\ seen.agent = value.agent
  /\ 0 < seen.remaining /\ seen.remaining <= value.duration
ClearedMatches(sequence, seen) ==
  ~seen.active /\ seen.sequence = sequence /\ seen.activity = "none" /\ seen.duration = 0 /\ seen.remaining = 0

OverlayMatches(op, known, seen) ==
  CASE op.matches = "Layout"   -> LayoutMatches(op.value.layout, seen)
    [] op.matches = "Activity" -> ActivityMatches(op.value, known, seen)
    [] op.matches = "Cleared"  -> ClearedMatches(known, seen)
    [] OTHER                   -> seen.rows = op.value.rows /\ seen.visible = op.value.visible
=============================================================================
