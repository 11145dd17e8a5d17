------------------------------ MODULE Swapchain ------------------------------
(***************************************************************************)
(* VulkanSwapchain (renderer/vulkan/vulkan_swapchain.cpp): frames in       *)
(* flight, the images they render to, and the surface that changes under   *)
(* them.  "at" is where the main thread is inside a frame.                 *)
(*                                                                         *)
(* acquireNextImage and present of vk::raii report an outdated surface by  *)
(* an exception; present catches it, acquire_next_image does not.          *)
(***************************************************************************)
EXTENDS Presentation

CONSTANT None

ASSUME SwapchainAssumption == None \notin Images \cup Frames

VARIABLES
  live,            \* the handle swapchain is not null
  last_used,       \* images_data[i].last_used_frame
  current_image,
  needs_resize,
  frame,           \* Application::current_frame, the index in the FrameContext
  at

swapchain == <<live, last_used, current_image, needs_resize>>

InitSwapchain ==
  /\ live = TRUE /\ last_used = [i \in Images |-> None]
  /\ current_image = None /\ needs_resize = FALSE

(* Mutant: nothing is waited for.                                          *)
WaitNot == TRUE

(* VulkanDevice::wait_idle.                                                *)
WaitIdle == gpu = <<>>

(* VulkanSwapchain::create.  Every image, view, depth image and semaphore  *)
(* of the old swapchain is destroyed.  For a surface without extent it     *)
(* returns when the old handle is moved out and nothing has replaced it.   *)
Create ==
  IF shape = "empty" THEN live' = FALSE /\ UNCHANGED <<queue, shape, outdated, last_used>>
  ELSE
    /\ live' = TRUE /\ last_used' = [i \in Images |-> None]
    /\ place' = [i \in Images |-> "window"]
    /\ gpu' = Harmed(Submissions) /\ outdated' = FALSE
    /\ UNCHANGED <<fence, shape>>

(* VulkanSwapchain::on_resize.                                             *)
OnResize == WaitIdle /\ Create

(* prepare_frame, to the wait for the fence of the frame.                  *)
PrepareFrame ==
  /\ at = "prepare" /\ at' = "frame fence" /\ needs_resize' = FALSE
  /\ IF needs_resize THEN OnResize /\ UNCHANGED resized ELSE UNCHANGED <<presentation, live, last_used>>
  /\ UNCHANGED <<current_image, frame>>

WaitFrameFence ==
  /\ at = "frame fence" /\ fence[frame] /\ at' = "acquire"
  /\ UNCHANGED <<presentation, swapchain, frame>>

(* acquire_next_image: an image, which may already be suboptimal, or an    *)
(* exception that ends Application::run.  Without a swapchain the call is  *)
(* undefined and the program ends there.                                   *)
Acquire(i) ==
  /\ at = "acquire" /\ live /\ place[i] = "window"
  /\ place' = [place EXCEPT ![i] = "program"]
  /\ needs_resize' \in {FALSE, outdated}
  /\ current_image' = i /\ at' = "image fence"
  /\ UNCHANGED <<gpu, fence, window, live, last_used, frame>>
AcquireOutOfDate ==
  /\ at = "acquire" /\ live /\ outdated /\ at' = "stopped"
  /\ UNCHANGED <<presentation, swapchain, frame>>
AcquireNothing ==
  /\ at = "acquire" /\ ~live /\ at' = "crashed"
  /\ UNCHANGED <<presentation, swapchain, frame>>

(* Mutant: the fence is reset where the frame begins, not where it is      *)
(* submitted.                                                              *)
CleanAndReset == gpu' = Harmed(Of(frame)) /\ fence' = [fence EXCEPT ![frame] = FALSE]

(* clean_frame, then begin: the command pool, the descriptor pools and     *)
(* what else the last round of this frame used.                            *)
CleanFrame == gpu' = Harmed(Of(frame)) /\ UNCHANGED fence

(* The rest of prepare_frame: wait for the frame that used the image last. *)
WaitImageFence ==
  /\ at = "image fence"
  /\ last_used[current_image] # None => fence[last_used[current_image]]
  /\ last_used' = [last_used EXCEPT ![current_image] = frame]
  /\ CleanFrame /\ at' = "update"
  /\ UNCHANGED <<place, window, live, current_image, needs_resize, frame>>

(* VulkanSwapchain::present: reset the fence, submit, present.  The result *)
(* is success, a suboptimal image or an exception; for the last one the    *)
(* swapchain is made anew before the frame ends.                           *)
Submit ==
  /\ gpu' = Append(gpu, [frame |-> frame, image |-> current_image, harmed |-> FALSE])
  /\ fence' = [fence EXCEPT ![frame] = FALSE]
  /\ place' = [place EXCEPT ![current_image] = "queue"]
Present ==
  /\ at = "present" /\ shape = "open" /\ Submit
  /\ \/ at' = "end" /\ UNCHANGED needs_resize
     \/ outdated /\ at' = "end" /\ needs_resize' = TRUE
     \/ outdated /\ at' = "out of date" /\ UNCHANGED needs_resize
  /\ UNCHANGED <<window, live, last_used, current_image, frame>>
PresentOutOfDate ==
  /\ at = "out of date" /\ at' = "end" /\ OnResize
  /\ UNCHANGED <<resized, needs_resize, current_image, frame>>

SwapchainStep ==
  \/ PrepareFrame \/ WaitFrameFence \/ AcquireOutOfDate \/ AcquireNothing
  \/ WaitImageFence \/ Present \/ PresentOutOfDate \/ \E i \in Images : Acquire(i)
==============================================================================
