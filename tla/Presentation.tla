----------------------------- MODULE Presentation -----------------------------
(***************************************************************************)
(* What the renderer uses of Vulkan and of the window system: the graphics *)
(* queue, whose submissions complete in order, the fences, the images of   *)
(* the swapchain, and a window that its user resizes, minimizes and        *)
(* restores.                                                               *)
(***************************************************************************)
EXTENDS Integers, Sequences

CONSTANTS
  FramesInFlight,   \* application.frames_in_flight
  Images            \* images of a swapchain

ASSUME PresentationAssumption == FramesInFlight \in Nat \ {0} /\ Images # {}

Frames == 0..(FramesInFlight - 1)

VARIABLES
  gpu,         \* submissions the GPU has not completed; one is harmed when an object
               \* it uses is destroyed, reset or rewritten
  fence,       \* fence[f]: wait_fence of frame f is signaled
  place,       \* where each image is: with the window system, the program or the queue
  shape,       \* of the window; "minimized" and "empty" are GLFW_ICONIFIED, and a surface
               \* that is "empty" has no extent
  outdated,    \* the surface is no longer the one the swapchain was made for
  resized      \* a resize event waits for glfwPollEvents

presentation == <<gpu, fence, place, shape, outdated, resized>>
queue == <<gpu, fence, place>>
window == <<shape, outdated, resized>>

Submissions == [frame : Frames, image : Images, harmed : BOOLEAN]

InitPresentation ==
  /\ gpu = <<>> /\ fence = [f \in Frames |-> TRUE] /\ place = [i \in Images |-> "window"]
  /\ shape = "open" /\ outdated = FALSE /\ resized = FALSE

(* Only submissions that use the object are hit.                           *)
Harmed(users) == [n \in DOMAIN gpu |-> [gpu[n] EXCEPT !.harmed = @ \/ gpu[n] \in users]]
Of(f) == {s \in Submissions : s.frame = f}

(* The oldest submission completes and signals its fence.                  *)
Complete ==
  /\ gpu # <<>> /\ gpu' = Tail(gpu)
  /\ fence' = [fence EXCEPT ![Head(gpu).frame] = TRUE]
  /\ UNCHANGED <<place, window>>

(* The window system gives back an image it has shown.                     *)
Return(i) ==
  /\ place[i] = "queue" /\ \A n \in DOMAIN gpu : gpu[n].image # i
  /\ place' = [place EXCEPT ![i] = "window"] /\ UNCHANGED <<gpu, fence, window>>

(* The user resizes the window, minimizes it, or restores it; a surface    *)
(* without extent is another surface, and so is the next one.              *)
Resize ==
  /\ shape = "open" /\ outdated' = TRUE /\ resized' = TRUE /\ UNCHANGED <<queue, shape>>
Minimize ==
  /\ shape = "open" /\ shape' \in {"minimized", "empty"}
  /\ outdated' = (outdated \/ shape' = "empty") /\ UNCHANGED <<queue, resized>>
Restore ==
  /\ shape # "open" /\ shape' = "open"
  /\ outdated' = (outdated \/ shape = "empty") /\ resized' = (resized \/ shape = "empty")
  /\ UNCHANGED queue

NextPresentation == Complete \/ Resize \/ Minimize \/ Restore \/ \E i \in Images : Return(i)
===============================================================================
