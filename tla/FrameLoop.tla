------------------------------- MODULE FrameLoop -------------------------------
(***************************************************************************)
(* The frames of a program: Application::run, the window's events, the     *)
(* swapchain, and what a frame draws from and into: the descriptor sets of *)
(* a material, one per frame in flight, and the render target of the       *)
(* editor's viewport, which all frames share.                              *)
(***************************************************************************)
EXTENDS Swapchain

CONSTANT Inputs      \* textures the user chooses from for a material

ASSUME FrameLoopAssumption == Inputs # {}

VARIABLES
  input,     \* the texture set_input has stored
  sets       \* sets[f]: the one in the descriptor set of frame f

vars == <<presentation, swapchain, frame, at, input, sets>>

(* bake writes the set of every frame.                                     *)
Init ==
  /\ InitPresentation /\ InitSwapchain /\ frame = 0 /\ at = "events"
  /\ input \in Inputs /\ sets = [f \in Frames |-> input]

(* process_events and the dispatch of the events: on_resize, or on_close.  *)
ProcessEvents ==
  /\ at = "events" /\ at' = "prepare" /\ resized' = FALSE
  /\ IF resized THEN OnResize ELSE UNCHANGED <<queue, shape, outdated, live, last_used>>
  /\ UNCHANGED <<current_image, needs_resize, frame, input, sets>>
Close == at = "events" /\ at' = "stopped" /\ UNCHANGED <<presentation, swapchain, frame, input, sets>>

(* update and gui_update: nothing that matters here, a new size of the     *)
(* viewport, or a new texture.  VulkanRenderTarget::resize reallocates the *)
(* depth image, which waits, before it releases anything.                  *)
Update ==
  /\ at = "update" /\ at' = "draw"
  /\ \/ UNCHANGED <<gpu, input>>
     \/ WaitIdle /\ gpu' = Harmed(Submissions) /\ UNCHANGED input
     \/ input' \in Inputs /\ UNCHANGED gpu
  /\ UNCHANGED <<fence, place, window, swapchain, frame, sets>>

(* post_update: VulkanMaterial::get_descriptor_set brings the set of this  *)
(* frame up to date.                                                       *)
Draw ==
  /\ at = "draw" /\ at' = "present"
  /\ IF shape # "open" \/ sets[frame] = input THEN UNCHANGED <<gpu, sets>>
     ELSE sets' = [sets EXCEPT ![frame] = input] /\ gpu' = Harmed(Of(frame))
  /\ UNCHANGED <<fence, place, window, swapchain, frame, input>>

(* end_frame of a minimized window: nothing is submitted.                  *)
SkipPresent ==
  at = "present" /\ shape # "open" /\ at' = "end" /\ UNCHANGED <<presentation, swapchain, frame, input, sets>>

(* Mutant: the index is not taken modulo the number of frames.             *)
AdvancePastEnd == frame' = IF frame = FramesInFlight THEN 0 ELSE frame + 1

Advance == frame' = (frame + 1) % FramesInFlight

EndFrame == at = "end" /\ at' = "events" /\ Advance /\ UNCHANGED <<presentation, swapchain, input, sets>>

(* ~Engine, after the loop or after an exception.                          *)
Destroy ==
  /\ at = "stopped" /\ at' = "destroyed" /\ WaitIdle /\ gpu' = Harmed(Submissions)
  /\ UNCHANGED <<fence, place, window, swapchain, frame, input, sets>>

Program ==
  \/ ProcessEvents \/ Update \/ Draw \/ SkipPresent \/ EndFrame \/ Destroy
  \/ SwapchainStep /\ UNCHANGED <<input, sets>>

Next ==
  \/ Program \/ Close
  \/ NextPresentation /\ UNCHANGED <<swapchain, frame, at, input, sets>>

(* The program runs and the GPU completes what it is given.                *)
Fairness == WF_vars(Program) /\ WF_vars(Complete /\ UNCHANGED <<swapchain, frame, at, input, sets>>)

Spec == Init /\ [][Next]_vars
FairSpec == Spec /\ Fairness

----------------------------------------------------------------------------
TypeOK ==
  /\ gpu \in Seq(Submissions) /\ fence \in [Frames -> BOOLEAN]
  /\ place \in [Images -> {"window", "program", "queue"}]
  /\ shape \in {"open", "minimized", "empty"} /\ outdated \in BOOLEAN /\ resized \in BOOLEAN
  /\ live \in BOOLEAN /\ last_used \in [Images -> Frames \cup {None}]
  /\ current_image \in Images \cup {None} /\ needs_resize \in BOOLEAN
  /\ frame \in Frames /\ input \in Inputs /\ sets \in [Frames -> Inputs]
  /\ at \in {"events", "prepare", "frame fence", "acquire", "image fence", "update", "draw", "present",
             "out of date", "end", "stopped", "destroyed", "crashed"}

(* Nothing the GPU still uses is destroyed, reset or rewritten: command    *)
(* buffers and descriptors of a frame, the images of the swapchain and of  *)
(* the viewport, whatever the window does meanwhile.                       *)
GpuUsesLive == \A n \in DOMAIN gpu : ~gpu[n].harmed

(* Every wait for a fence returns: a fence is only reset for a submission  *)
(* that will signal it, also when a minimized window skips frames and when *)
(* an image comes back to another frame than the one that used it last.    *)
FenceWaitsReturn == \A where \in {"frame fence", "image fence"} : at = where ~> at # where
================================================================================
