--------------------------- MODULE AcceptanceScript ---------------------------
(***************************************************************************)
(* What the acceptance run does to a live OBS and what it publishes        *)
(* (exercise_live_obs and build_public_evidence of                         *)
(* real_obs_acceptance.py): a fixed script of tool calls, the effect each  *)
(* has on the scene graph of OBS (external), and the checks of what comes  *)
(* back.  Names, geometry and the picture that is captured are left out.   *)
(***************************************************************************)
EXTENDS Naturals, Sequences, SequencesExt

\* The scenes that the script creates.
TestScenes == {"baseline", "program", "preview"}

\* prepare_obs_configuration writes one scene collection with one scene.
PreparedGraph == [scenes |-> {"original"}, current |-> "original",
                  preview |-> "original", studio |-> FALSE, source |-> FALSE,
                  recording |-> "stopped"]

-----------------------------------------------------------------------------
(* The script.                                                             *)

Call(tool, argument) == [tool |-> tool, argument |-> argument, verified |-> TRUE]
Query(tool) == [tool |-> tool, argument |-> "none", verified |-> FALSE]

SceneSteps ==
    <<Query("get_status"), Call("create_scene", "baseline"),
      Call("create_scene", "program"), Call("create_scene", "preview"),
      Query("list_transitions"), Call("set_current_transition", "none"),
      Call("set_current_scene", "program"), Call("create_source", "program"),
      Query("list_scene_items"), Call("set_scene_item_transform", "program")>>

StudioSteps ==
    <<Call("trigger_transition", "preview"), Call("set_studio_mode", "on"),
      Call("set_preview_scene", "program"), Call("transition_to_program", "none"),
      Call("set_studio_mode", "off"), Call("set_current_scene", "program"),
      Query("capture_program_frame")>>

RecordingSteps ==
    <<Query("get_recording_status"), Call("start_recording", "none"),
      Call("pause_recording", "none"), Call("resume_recording", "none"),
      Call("stop_recording", "none")>>

CleanupSteps ==
    <<Call("set_current_scene", "baseline"), Call("remove_scene_item", "program"),
      Query("list_sources"), Call("remove_scene", "preview"),
      Call("remove_scene", "program")>>

Script == SceneSteps \o StudioSteps \o RecordingSteps \o CleanupSteps

\* The states recording_states must have gone through, at the calls of
\* RecordingSteps.
RecordingFlow == <<"stopped", "recording", "paused", "recording", "stopped">>

-----------------------------------------------------------------------------
(* OBS.                                                                    *)

\* What a call does that OBS performs.
Performed(g, step) ==
    CASE step.tool = "create_scene" ->
             [g EXCEPT !.scenes = @ \cup {step.argument}]
      [] step.tool \in {"set_current_scene", "trigger_transition"} ->
             [g EXCEPT !.current = step.argument]
      [] step.tool = "create_source" -> [g EXCEPT !.source = TRUE]
      [] step.tool = "set_studio_mode" ->
             [g EXCEPT !.studio = (step.argument = "on"),
                       !.preview = IF step.argument = "on" THEN g.current ELSE @]
      [] step.tool = "set_preview_scene" -> [g EXCEPT !.preview = step.argument]
      [] step.tool = "transition_to_program" -> [g EXCEPT !.current = g.preview]
      [] step.tool = "start_recording" -> [g EXCEPT !.recording = "recording"]
      [] step.tool = "pause_recording" -> [g EXCEPT !.recording = "paused"]
      [] step.tool = "resume_recording" -> [g EXCEPT !.recording = "recording"]
      [] step.tool = "stop_recording" -> [g EXCEPT !.recording = "stopped"]
      [] step.tool = "remove_scene_item" -> [g EXCEPT !.source = FALSE]
      [] step.tool = "remove_scene" ->
             [g EXCEPT !.scenes = @ \ {step.argument},
                       !.source = @ /\ step.argument # "program"]
      [] OTHER -> g

\* What OBS refuses: it cannot pause or stop what does not record.
Possible(g, step) ==
    /\ step.tool \in {"pause_recording", "stop_recording", "resume_recording"}
           => g.recording # "stopped"
    /\ step.tool = "start_recording" => g.recording = "stopped"

\* What is checked of the answer to a step, beyond its own postcondition.
Expected(g, step) ==
    CASE step.tool = "list_scene_items" -> g.source
      [] step.tool = "list_sources" -> ~g.source
      [] step \in Range(RecordingSteps) ->
             g.recording = RecordingFlow[CHOOSE i \in DOMAIN RecordingSteps :
                                             RecordingSteps[i] = step]
      [] OTHER -> TRUE
=============================================================================
