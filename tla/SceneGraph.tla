----------------------------- MODULE SceneGraph -----------------------------
(***************************************************************************)
(* Scenes, scene items, transitions, studio mode, profiles and collections: *)
(* what the plugin does with a request on OBS's user-interface thread, and  *)
(* what the bridge sends for it, consults, reads back and compares.         *)
(*                                                                          *)
(* `g` is a record: the scenes in the order of OBS's list, the items of     *)
(* each by number, the other sources by name with their kinds, the scene on *)
(* program and the one in the preview, the transition and its duration, and *)
(* the names of transitions, profiles and collections.  A position is one   *)
(* number, in units of 2^-10 pixel.                                         *)
(***************************************************************************)
EXTENDS BridgeRequests, Sequences, FiniteSets, Functions

CONSTANTS
  MaxListed,     \* how many entries a list carries: kMaxScenes and its like
  LongNames,     \* names of more than 256 characters, which the bridge refuses
  WideNames,     \* names of more than 256 bytes but not characters: the plugin refuses them
  LongestDuration \* the longest transition OBS's own spin box allows

ASSUME ListsAssumption == MaxListed \in Nat

None == "none"
Scenes(g) == Range(g.order)
Sources(g) == Scenes(g) \cup DOMAIN g.inputs
KindOf(g, name) == IF name \in Scenes(g) THEN "scene" ELSE g.inputs[name]

----------------------------------------------------------------------------
(* Lists, and the bridge's selection of a name in one. *)

Listing(names) == [names     |-> SubSeq(names, 1, IF Len(names) < MaxListed THEN Len(names) ELSE MaxListed),
                   truncated |-> Len(names) > MaxListed]
CheckedListing(listing) ==
  IF Range(listing.names) \cap LongNames # {} THEN Failed("OBS_RESPONSE_INVALID") ELSE Answered(listing)

StudioStatus(g) ==
  IF {g.current, g.preview} \cap LongNames # {} THEN Failed("OBS_RESPONSE_INVALID")
  ELSE Answered([enabled |-> g.studio, program |-> g.current, preview |-> g.preview])

Consulted(g, op) ==
  CASE op.consult = "ListScenes" ->
         IF g.current \in LongNames THEN Failed("OBS_RESPONSE_INVALID") ELSE CheckedListing(Listing(g.order))
    [] op.consult = "ListTransitions"      -> CheckedListing(Listing(g.transitions))
    [] op.consult = "ListProfiles"         -> CheckedListing(Listing(g.profiles))
    [] op.consult = "ListSceneCollections" -> CheckedListing(Listing(g.collections))
    [] op.consult = "GetStudioModeStatus"  -> StudioStatus(g)

\* How often a name occurs in a list, as LookupName and _select_exact_name count it.
Occurrences(names, name) == Cardinality({i \in DOMAIN names : names[i] = name})
LookupName(listing, name, missing) ==
  IF listing.truncated THEN "OBS_RESPONSE_INCOMPLETE"
  ELSE IF Occurrences(listing.names, name) > 1 THEN "OBS_TARGET_AMBIGUOUS"
  ELSE IF Occurrences(listing.names, name) = 0 THEN missing ELSE "unique"

MissingCode(op) ==
  CASE op.consult = "ListTransitions"      -> "OBS_TRANSITION_NOT_FOUND"
    [] op.consult = "ListProfiles"         -> "OBS_PROFILE_NOT_FOUND"
    [] op.consult = "ListSceneCollections" -> "OBS_SCENE_COLLECTION_NOT_FOUND"
    [] OTHER                               -> "OBS_SCENE_NOT_FOUND"

SelectExactName(op, listing) == LookupName(listing, op.name, MissingCode(op))

\* rename_scene: the new name must not be among the listed ones.
SelectRename(op, listing) ==
  LET selected == SelectExactName(op, listing)
  IN  IF selected = "unique" /\ op.value \in Range(listing.names) THEN "OBS_TARGET_AMBIGUOUS" ELSE selected

\* trigger_studio_mode_transition: nothing to do unless the preview differs from the program.
SelectStudio(status) ==
  IF status.program = None \/ status.preview = None \/ status.program = status.preview
  THEN "OBS_POSTCONDITION_FAILED" ELSE "unique"

Selected(op, seen) ==
  CASE op.request = "TriggerStudioModeTransition" -> SelectStudio(seen)
    [] op.request = "RenameScene"                 -> SelectRename(op, seen)
    [] OTHER                                      -> SelectExactName(op, seen)

----------------------------------------------------------------------------
(* The operations of the bridge. *)

SetCurrentSceneRequest(name) ==
  Consults("scenes", "SetCurrentScene", name, 0, "ListScenes", "GetCurrentScene", "SceneNamed")
CreateSceneRequest(name) == Asks("scenes", "CreateScene", name, 0, "ListScenes", "Listed")
RemoveSceneRequest(name) == Consults("scenes", "RemoveScene", name, 0, "ListScenes", "ListScenes", "Unlisted")
RenameSceneRequest(name, new) ==
  Consults("scenes", "RenameScene", name, new, "ListScenes", "ListScenes", "Renamed")
CreateSceneItemRequest(name, source, kind, enabled) ==
  Asks("scenes", "CreateSceneItem", name, [source |-> source, kind |-> kind, enabled |-> enabled],
       "GetSceneItem", "ItemCreated")
SetSceneItemEnabledRequest(name, id, enabled) ==
  Asks("scenes", "SetSceneItemEnabled", name, [item |-> id, enabled |-> enabled], "GetSceneItem", "ItemEnabled")
SetSceneItemTransformRequest(name, id, position) ==
  Asks("scenes", "SetSceneItemTransform", name, [item |-> id, position |-> position], "GetSceneItem", "ItemPlaced")
RemoveSceneItemRequest(name, id) ==
  Asks("scenes", "RemoveSceneItem", name, [item |-> id], "GetSceneItem", "ItemGone")
SetCurrentTransitionRequest(name, duration) ==
  Consults("scenes", "SetCurrentTransition", name, duration, "ListTransitions", "GetCurrentTransition", "Transition")
\* The read-back of trigger_transition is of the transition, not of the scene.
TriggerTransitionRequest(name) ==
  Once(Consults("scenes", "TriggerTransition", name, 0, "ListScenes", "GetCurrentTransition", "Accepted"))
SetStudioModeRequest(enabled) ==
  Asks("scenes", "SetStudioMode", None, enabled, "GetStudioModeStatus", "Studio")
SetCurrentPreviewSceneRequest(name) ==
  Consults("scenes", "SetCurrentPreviewScene", name, 0, "ListScenes", "GetCurrentPreviewScene", "SceneNamed")
TriggerStudioModeTransitionRequest ==
  Consults("scenes", "TriggerStudioModeTransition", None, 0, "GetStudioModeStatus", "GetStudioModeStatus", "Swapped")
SetCurrentProfileRequest(name) ==
  Consults("scenes", "SetCurrentProfile", name, 0, "ListProfiles", "GetCurrentProfile", "SceneNamed")
SetCurrentSceneCollectionRequest(name) ==
  Consults("scenes", "SetCurrentSceneCollection", name, 0, "ListSceneCollections",
           "GetCurrentSceneCollection", "SceneNamed")

\* What the bridge refuses to send.
NamesOf(op) ==
  {op.name} \cup CASE op.request = "RenameScene"     -> {op.value}
                   [] op.request = "CreateSceneItem" -> {op.value.source}
                   [] OTHER                          -> {}
NameRefused(op) ==
  \/ NamesOf(op) \cap LongNames # {}
  \/ op.request = "RenameScene" /\ op.value = op.name

----------------------------------------------------------------------------
(* What the plugin does. *)

\* OBS may leave a request without effect; where the plugin looks, it says so.
OrIgnored(g, outcomes) == outcomes \cup Refuse(g, "OBS_POSTCONDITION_FAILED")

SetCurrentScene(g, op) == OrIgnored(g, Accept([g EXCEPT !.current = op.name]))

CreateScene(g, op) ==
  IF op.name \in Sources(g) THEN Refuse(g, "OBS_TARGET_AMBIGUOUS")
  ELSE Accept([g EXCEPT !.order = Append(@, op.name), !.items = With(@, op.name, <<>>)])

Renamed(name, old, new) == IF name = old THEN new ELSE name
RenamedItems(items, old, new) ==
  [scene \in DOMAIN items |-> [id \in DOMAIN items[scene] |-> [items[scene][id] EXCEPT !.source = Renamed(@, old, new)]]]
RenameScene(g, op) ==
  IF op.value \in Sources(g) THEN Refuse(g, "OBS_TARGET_AMBIGUOUS")
  ELSE Accept([g EXCEPT !.order = [i \in DOMAIN @ |-> Renamed(@[i], op.name, op.value)],
                        !.items = RenamedItems(With(Restrict(@, DOMAIN @ \ {op.name}), op.value, @[op.name]),
                                               op.name, op.value),
                        !.current = Renamed(@, op.name, op.value),
                        !.preview = Renamed(@, op.name, op.value)])

\* OBS shows another scene in place of one that is removed, if there is one.
Removed(g, name) ==
  LET place == CHOOSE i \in DOMAIN g.order : g.order[i] = name
      rest  == [i \in 1 .. Len(g.order) - 1 |-> g.order[IF i < place THEN i ELSE i + 1]]
      Instead(shown) == IF shown # name THEN shown ELSE IF rest = <<>> THEN None ELSE rest[1]
  IN  [g EXCEPT !.order = rest, !.items = Restrict(@, DOMAIN @ \ {name}),
                !.current = Instead(@), !.preview = Instead(@)]
\* A scene that something still refers to is found by its name a little longer.
RemoveScene(g, op) ==
  Accept(Removed(g, op.name)) \cup Refuse(Removed(g, op.name), "OBS_POSTCONDITION_FAILED")

\* Items are numbered in the order they are made; a number is not used again.
Gone == [source |-> None]
Exists(g, scene, id) == id \in DOMAIN g.items[scene] /\ g.items[scene][id].source # None
\* OBS takes out the items of a removed source when it next draws the scene.
Prune(g) ==
  [g EXCEPT !.items = [scene \in DOMAIN @ |-> [id \in DOMAIN @[scene] |->
                         IF @[scene][id].source \in Sources(g) THEN @[scene][id] ELSE Gone]]]
CreateSceneItem(g, op) ==
  LET item == [source |-> op.value.source, kind |-> KindOf(g, op.value.source),
               enabled |-> op.value.enabled, position |-> 0]
  IN  IF op.value.source \notin Sources(g) THEN Refuse(g, "OBS_SOURCE_NOT_FOUND")
      ELSE IF op.value.kind \notin {None, KindOf(g, op.value.source)} THEN Refuse(g, "OBS_ARGUMENT_INVALID")
      ELSE IF op.value.source = op.name THEN Refuse(g, "OBS_MUTATION_REJECTED")
      ELSE Give([g EXCEPT !.items[op.name] = Append(@, item)], Len(g.items[op.name]) + 1)

ChangeSceneItem(g, op) ==
  LET id == op.value.item
  IN  IF ~Exists(g, op.name, id) THEN Refuse(g, "OBS_SCENE_ITEM_NOT_FOUND")
      ELSE OrIgnored(g, Accept(
        CASE op.request = "SetSceneItemEnabled"   -> [g EXCEPT !.items[op.name][id].enabled = op.value.enabled]
          [] op.request = "SetSceneItemTransform" ->
               [g EXCEPT !.items[op.name][id].position = Single(op.value.position)]
          [] OTHER -> [g EXCEPT !.items[op.name][id] = Gone]))

\* -1 stands for a duration that is not given; OBS clamps what its spin box cannot show.
SetCurrentTransition(g, op) ==
  LET found    == LookupName(Listing(g.transitions), op.name, "OBS_TRANSITION_NOT_FOUND")
      duration == IF op.value = -1 THEN g.duration
                  ELSE IF op.value > LongestDuration THEN LongestDuration ELSE op.value
  IN  IF found # "unique" THEN Refuse(g, found)
      ELSE Accept([g EXCEPT !.transition = op.name, !.duration = duration]) \cup Accept(g)

SetStudioMode(g, op) ==
  OrIgnored(g, Accept([g EXCEPT !.studio = op.value,
                                !.preview = IF ~op.value THEN None ELSE IF g.studio THEN @ ELSE g.current]))

SetCurrentPreviewScene(g, op) ==
  IF ~g.studio THEN Refuse(g, "OBS_STUDIO_MODE_INACTIVE")
  ELSE OrIgnored(g, Accept([g EXCEPT !.preview = op.name]))

\* The transition puts the preview on program; the swap waits for its end, see EndTransition.
TriggerStudioModeTransition(g) ==
  IF ~g.studio THEN Refuse(g, "OBS_STUDIO_MODE_INACTIVE")
  ELSE Accept([g EXCEPT !.current = g.preview, !.swapping = IF g.swaps THEN g.current ELSE None]) \cup Accept(g)
EndTransition(g) == [g EXCEPT !.preview = IF g.swapping \in Scenes(g) THEN g.swapping ELSE @, !.swapping = None]

SetProfile(g, op) ==
  LET found == LookupName(Listing(g.profiles), op.name, "OBS_PROFILE_NOT_FOUND")
  IN  IF found # "unique" THEN Refuse(g, found) ELSE Accept([g EXCEPT !.profile = op.name]) \cup Accept(g)
SetSceneCollection(g, op) ==
  LET found == LookupName(Listing(g.collections), op.name, "OBS_SCENE_COLLECTION_NOT_FOUND")
  IN  IF found # "unique" THEN Refuse(g, found) ELSE Accept([g EXCEPT !.collection = op.name]) \cup Accept(g)

PerformOnScene(g, op) ==
  CASE op.request \in {"SetCurrentScene", "TriggerTransition"} -> SetCurrentScene(g, op)
    [] op.request = "RenameScene" -> RenameScene(g, op)
    [] op.request = "RemoveScene" -> RemoveScene(g, op)
    [] op.request = "CreateSceneItem" -> CreateSceneItem(g, op)
    [] op.request = "SetCurrentPreviewScene" -> SetCurrentPreviewScene(g, op)
    [] OTHER -> ChangeSceneItem(g, op)

NoScene(g, op) ==
  CASE op.request = "TriggerTransition" -> "OBS_TRANSITION_NOT_FOUND"
    [] op.request = "RenameScene" -> IF op.value \in Sources(g) THEN "OBS_TARGET_AMBIGUOUS" ELSE "OBS_SCENE_NOT_FOUND"
    [] OTHER -> "OBS_SCENE_NOT_FOUND"
PerformOnGraph(g, op) ==
  IF NamesOf(op) \cap WideNames # {} THEN Refuse(g, "OBS_ARGUMENT_INVALID") ELSE
  CASE op.request = "CreateScene" -> CreateScene(g, op)
    [] op.request = "SetCurrentTransition" -> SetCurrentTransition(g, op)
    [] op.request = "SetStudioMode" -> SetStudioMode(g, op)
    [] op.request = "TriggerStudioModeTransition" -> TriggerStudioModeTransition(g)
    [] op.request = "SetCurrentProfile" -> SetProfile(g, op)
    [] op.request = "SetCurrentSceneCollection" -> SetSceneCollection(g, op)
    [] OTHER -> IF op.name \in Scenes(g) THEN PerformOnScene(g, op) ELSE Refuse(g, NoScene(g, op))

----------------------------------------------------------------------------
(* What the bridge reads back, and what it accepts.  `known` is what the operation has learnt: *)
(* the number of the item it created, or the studio status it consulted.                        *)

NamedAnswer(name, missing) ==
  IF name = None THEN Failed(missing) ELSE IF name \in LongNames THEN Failed("OBS_RESPONSE_INVALID") ELSE Answered(name)

GetSceneItem(g, op, known) ==
  LET id == IF op.request = "CreateSceneItem" THEN known ELSE op.value.item
  IN  IF op.name \notin Scenes(g) THEN Failed("OBS_SCENE_NOT_FOUND")
      ELSE Answered(IF Exists(g, op.name, id) THEN g.items[op.name][id] ELSE Gone)

ReadGraph(g, op, known) ==
  CASE op.read = "ListScenes" -> Consulted(g, [op EXCEPT !.consult = "ListScenes"])
    [] op.read = "GetCurrentScene" -> NamedAnswer(g.current, "OBS_SCENE_NOT_FOUND")
    [] op.read = "GetSceneItem" -> GetSceneItem(g, op, known)
    [] op.read = "GetCurrentTransition" ->
         IF g.transition \in LongNames THEN Failed("OBS_RESPONSE_INVALID")
         ELSE Answered([transition |-> g.transition, duration |-> g.duration])
    [] op.read = "GetStudioModeStatus" -> StudioStatus(g)
    [] op.read = "GetCurrentPreviewScene" -> NamedAnswer(g.preview, "OBS_STUDIO_MODE_INACTIVE")
    [] op.read = "GetCurrentProfile" -> NamedAnswer(g.profile, "OBS_PROFILE_NOT_FOUND")
    [] OTHER -> NamedAnswer(g.collection, "OBS_SCENE_COLLECTION_NOT_FOUND")

ItemMatches(op, item) ==
  /\ item.source # None
  /\ CASE op.matches = "ItemCreated" -> /\ item.source = op.value.source /\ item.enabled = op.value.enabled
                                        /\ op.value.kind \in {None, item.kind}
       [] op.matches = "ItemEnabled" -> item.enabled = op.value.enabled
       [] OTHER                      -> Close(item.position, op.value.position)

Swapped(known, status) == status.program = known.preview /\ status.preview \in {known.preview, known.program}

GraphMatches(op, known, seen) ==
  CASE op.matches = "SceneNamed" -> seen = op.name
    [] op.matches = "Listed"     -> op.name \in Range(seen.names)
    [] op.matches = "Unlisted"   -> op.name \notin Range(seen.names)
    [] op.matches = "Renamed"    -> op.value \in Range(seen.names) /\ op.name \notin Range(seen.names)
    [] op.matches = "ItemGone"   -> seen.source = None
    [] op.matches = "Transition" -> seen.transition = op.name /\ op.value \in {-1, seen.duration}
    [] op.matches = "Studio"     -> seen.enabled = op.value
    [] op.matches = "Swapped"    -> Swapped(known, seen)
    [] op.matches = "Accepted"   -> TRUE
    [] OTHER                     -> ItemMatches(op, seen)
=============================================================================
