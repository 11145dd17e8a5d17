---------------------------- MODULE FrameLoopProofs ----------------------------
(***************************************************************************)
(* What holds of FrameLoop for every number of frames in flight, every     *)
(* swapchain and every choice of textures, proved.                         *)
(*                                                                         *)
(* The argument: a submission the GPU has not completed keeps the fence of *)
(* its frame unsignaled, and no two of them are of one frame; from the     *)
(* wait in acquire_next_image to present the fence of the current frame is *)
(* signaled.  So what is reset or rewritten for the current frame is in no *)
(* submission, and what all frames share is only replaced on an empty      *)
(* queue.                                                                  *)
(***************************************************************************)
EXTENDS FrameLoop, TLAPS

Prepared == {"acquire", "image fence", "update", "draw", "present"}

Pending == \A n \in DOMAIN gpu : ~gpu[n].harmed /\ ~fence[gpu[n].frame]
OnePerFrame == \A m, n \in DOMAIN gpu : gpu[m].frame = gpu[n].frame => m = n
Waited == at \in Prepared => fence[frame]
HasImage == at \in Prepared \ {"acquire"} => current_image \in Images

IInv == TypeOK /\ Pending /\ OnePerFrame /\ Waited /\ HasImage

USE PresentationAssumption, SwapchainAssumption, FrameLoopAssumption

(* Where the elements of a longer and of a shorter queue come from.        *)
LEMMA Appended ==
  ASSUME NEW S, NEW q \in Seq(S), NEW e \in S
  PROVE  /\ Append(q, e) \in Seq(S)
         /\ DOMAIN Append(q, e) = DOMAIN q \cup {Len(q) + 1}
         /\ Append(q, e)[Len(q) + 1] = e
         /\ \A n \in DOMAIN q : Append(q, e)[n] = q[n] /\ n # Len(q) + 1
OBVIOUS

LEMMA Removed ==
  ASSUME NEW S, NEW q \in Seq(S), q # <<>>
  PROVE  /\ Tail(q) \in Seq(S) /\ Head(q) = q[1] /\ 1 \in DOMAIN q
         /\ \A n \in DOMAIN Tail(q) : n + 1 \in DOMAIN q /\ Tail(q)[n] = q[n + 1] /\ n + 1 # 1 /\ n \in Nat
OBVIOUS

LEMMA Typed == TypeOK => \A n \in DOMAIN gpu : gpu[n] \in Submissions /\ gpu[n].frame \in Frames
<1> SUFFICES ASSUME TypeOK, NEW n \in DOMAIN gpu PROVE gpu[n] \in Submissions /\ gpu[n].frame \in Frames
  OBVIOUS
<1>1. gpu \in Seq(Submissions)
  BY DEF TypeOK
<1>2. gpu[n] \in Submissions
  BY <1>1
<1> QED  BY <1>2 DEF Submissions

(* What no submission uses may be replaced.                                *)
LEMMA NobodyHarmed ==
  ASSUME NEW users, gpu \in Seq(Submissions), \A n \in DOMAIN gpu : gpu[n] \notin users
  PROVE  Harmed(users) = gpu
<1>1. ASSUME NEW n \in DOMAIN gpu PROVE [gpu[n] EXCEPT !.harmed = @ \/ gpu[n] \in users] = gpu[n]
  <2>1. gpu[n] \in Submissions /\ gpu[n] \notin users
    OBVIOUS
  <2> QED  BY <2>1, Zenon DEF Submissions
<1> QED  BY <1>1 DEF Harmed

LEMMA IdleHarmsNobody ==
  ASSUME NEW users, gpu \in Seq(Submissions), WaitIdle
  PROVE  Harmed(users) = gpu
BY NobodyHarmed DEF WaitIdle

LEMMA NothingOfWaitedFrame ==
  ASSUME IInv, at \in Prepared
  PROVE  Harmed(Of(frame)) = gpu
<1>1. \A n \in DOMAIN gpu : gpu[n] \notin Of(frame)
  BY DEF IInv, Pending, Waited, Of
<1> QED  BY <1>1, NobodyHarmed DEF IInv, TypeOK

LEMMA Initial == Init => IInv
<1> SUFFICES ASSUME Init PROVE IInv
  OBVIOUS
<1>1. 0 \in Frames
  BY DEF Frames
<1>2. TypeOK
  BY <1>1 DEF Init, InitPresentation, InitSwapchain, TypeOK
<1> QED  BY <1>2 DEF Init, InitPresentation, InitSwapchain, IInv, Pending, OnePerFrame, Waited, HasImage, Prepared

(* A resize leaves the submissions alone, and what it sets is well typed.  *)
LEMMA Resizing ==
  ASSUME TypeOK, OnResize
  PROVE  /\ gpu' = gpu /\ fence' = fence /\ shape' = shape
         /\ live' \in BOOLEAN /\ outdated' \in BOOLEAN
         /\ last_used' \in [Images -> Frames \cup {None}]
         /\ place' \in [Images -> {"window", "program", "queue"}]
<1>1. gpu \in Seq(Submissions)
  BY DEF TypeOK
<1>2. gpu' = gpu
  BY <1>1, IdleHarmsNobody DEF OnResize, Create, queue
<1> QED  BY <1>2 DEF OnResize, Create, queue, TypeOK

(* Steps that leave the queue and the fences as they are.                  *)
LEMMA QueueKept ==
  ASSUME IInv, TypeOK', gpu' = gpu, fence' = fence,
         at' \in Prepared => fence[frame'],
         at' \in Prepared \ {"acquire"} => current_image' \in Images
  PROVE  IInv'
BY DEF IInv, Pending, OnePerFrame, Waited, HasImage

LEMMA ProgramKeeps == IInv /\ Program => IInv'
<1> SUFFICES ASSUME IInv, Program PROVE IInv'
  OBVIOUS
<1> USE DEF swapchain, presentation, queue, window
<1>a. TypeOK
  BY DEF IInv
<1>1. CASE ProcessEvents
  <2>1. gpu' = gpu /\ fence' = fence
    BY <1>1, <1>a, Resizing DEF ProcessEvents
  <2>2. TypeOK'
    BY <1>1, <1>a, <2>1, Resizing DEF ProcessEvents, TypeOK
  <2> QED  BY <1>1, <2>1, <2>2, QueueKept DEF ProcessEvents, Prepared
<1>2. CASE PrepareFrame /\ UNCHANGED <<input, sets>>
  <2>1. gpu' = gpu /\ fence' = fence
    BY <1>2, <1>a, Resizing DEF PrepareFrame
  <2>2. TypeOK'
    BY <1>2, <1>a, <2>1, Resizing DEF PrepareFrame, TypeOK
  <2> QED  BY <1>2, <2>1, <2>2, QueueKept DEF PrepareFrame, Prepared
<1>3. CASE (WaitFrameFence \/ AcquireOutOfDate \/ AcquireNothing) /\ UNCHANGED <<input, sets>>
  <2>1. TypeOK'
    BY <1>3, <1>a DEF WaitFrameFence, AcquireOutOfDate, AcquireNothing, TypeOK
  <2> QED  BY <1>3, <2>1, QueueKept DEF WaitFrameFence, AcquireOutOfDate, AcquireNothing, Prepared
<1>4. CASE (\E i \in Images : Acquire(i)) /\ UNCHANGED <<input, sets>>
  <2> PICK i \in Images : Acquire(i)
    BY <1>4
  <2>1. TypeOK'
    BY <1>4, <1>a DEF Acquire, TypeOK
  <2> QED  BY <2>1, QueueKept DEF Acquire, IInv, Waited, Prepared
<1>5. CASE WaitImageFence /\ UNCHANGED <<input, sets>>
  <2>1. gpu' = gpu /\ fence' = fence
    BY <1>5, NothingOfWaitedFrame DEF WaitImageFence, CleanFrame, Prepared
  <2>2. TypeOK'
    BY <1>5, <1>a, <2>1 DEF WaitImageFence, TypeOK
  <2> QED  BY <1>5, <2>1, <2>2, QueueKept DEF WaitImageFence, IInv, Waited, HasImage, Prepared
<1>6. CASE Present /\ UNCHANGED <<input, sets>>
  <2> DEFINE s == [frame |-> frame, image |-> current_image, harmed |-> FALSE]
  <2>1. s \in Submissions /\ fence[frame]
    BY <1>6, <1>a DEF Present, IInv, HasImage, Waited, Prepared, Submissions, TypeOK
  <2>2. gpu' = Append(gpu, s) /\ fence' = [fence EXCEPT ![frame] = FALSE]
    BY <1>6 DEF Present, Submit
  <2> HIDE DEF s
  <2>a. gpu \in Seq(Submissions)
    BY <1>a DEF TypeOK
  <2>3. /\ gpu' \in Seq(Submissions)
        /\ DOMAIN gpu' = DOMAIN gpu \cup {Len(gpu) + 1} /\ gpu'[Len(gpu) + 1] = s
        /\ \A n \in DOMAIN gpu : gpu'[n] = gpu[n] /\ n # Len(gpu) + 1
    BY <2>1, <2>2, <2>a, Appended
  <2>4. \A n \in DOMAIN gpu : gpu[n].frame \in Frames /\ gpu[n].frame # frame
    BY <2>1, <1>a, Typed DEF IInv, Pending
  <2>s. s.frame = frame /\ ~s.harmed
    BY DEF s
  <2>5. TypeOK'
    BY <1>6, <1>a, <2>2, <2>3 DEF Present, Submit, TypeOK
  <2>6. Pending'
    <3> SUFFICES ASSUME NEW n \in DOMAIN gpu' PROVE ~gpu'[n].harmed /\ ~fence'[gpu'[n].frame]
      BY DEF Pending
    <3>1. fence \in [Frames -> BOOLEAN] /\ frame \in Frames
      BY <1>a DEF TypeOK
    <3>2. CASE n = Len(gpu) + 1
      BY <3>1, <3>2, <2>2, <2>3, <2>s
    <3>3. CASE n \in DOMAIN gpu
      BY <3>1, <3>3, <2>2, <2>3, <2>4 DEF IInv, Pending
    <3> QED  BY <3>2, <3>3, <2>3
  <2>7. OnePerFrame'
    BY <2>3, <2>4, <2>s DEF OnePerFrame, IInv
  <2> QED  BY <1>6, <2>5, <2>6, <2>7 DEF Present, IInv, Waited, HasImage, Prepared
<1>7. CASE PresentOutOfDate /\ UNCHANGED <<input, sets>>
  <2>1. gpu' = gpu /\ fence' = fence
    BY <1>7, <1>a, Resizing DEF PresentOutOfDate
  <2>2. TypeOK'
    BY <1>7, <1>a, <2>1, Resizing DEF PresentOutOfDate, TypeOK
  <2> QED  BY <1>7, <2>1, <2>2, QueueKept DEF PresentOutOfDate, Prepared
<1>8. CASE Update
  <2>1. gpu' = gpu /\ fence' = fence
    BY <1>8, <1>a, IdleHarmsNobody DEF Update, TypeOK
  <2>2. TypeOK'
    BY <1>8, <1>a, <2>1 DEF Update, TypeOK
  <2> QED  BY <1>8, <2>1, <2>2, QueueKept DEF Update, IInv, Waited, HasImage, Prepared
<1>9. CASE Draw
  <2>1. gpu' = gpu /\ fence' = fence
    BY <1>9, NothingOfWaitedFrame DEF Draw, Prepared
  <2>2. TypeOK'
    BY <1>9, <1>a, <2>1 DEF Draw, TypeOK
  <2> QED  BY <1>9, <2>1, <2>2, QueueKept DEF Draw, IInv, Waited, HasImage, Prepared
<1>10. CASE SkipPresent
  <2>1. TypeOK'
    BY <1>10, <1>a DEF SkipPresent, TypeOK
  <2> QED  BY <1>10, <2>1, QueueKept DEF SkipPresent, Prepared
<1>11. CASE EndFrame
  <2>1. (frame + 1) % FramesInFlight \in Frames
    <3>a. frame \in Frames
      BY <1>a DEF TypeOK
    <3>1. frame + 1 \in Nat /\ FramesInFlight \in Nat /\ FramesInFlight > 0
      BY <3>a DEF Frames
    <3> QED  BY <3>1 DEF Frames
  <2>2. TypeOK'
    BY <1>11, <1>a, <2>1 DEF EndFrame, Advance, TypeOK
  <2> QED  BY <1>11, <2>2, QueueKept DEF EndFrame, Prepared
<1>12. CASE Destroy
  <2>1. gpu' = gpu /\ fence' = fence
    BY <1>12, <1>a, IdleHarmsNobody DEF Destroy, TypeOK
  <2>2. TypeOK'
    BY <1>12, <1>a, <2>1 DEF Destroy, TypeOK
  <2> QED  BY <1>12, <2>1, <2>2, QueueKept DEF Destroy, Prepared
<1> QED
  BY <1>1, <1>2, <1>3, <1>4, <1>5, <1>6, <1>7, <1>8, <1>9, <1>10, <1>11, <1>12
  DEF Program, SwapchainStep

LEMMA OthersKeep ==
  ASSUME IInv, Close \/ (NextPresentation /\ UNCHANGED <<swapchain, frame, at, input, sets>>) \/ UNCHANGED vars
  PROVE  IInv'
<1> USE DEF swapchain, presentation, queue, window
<1>a. TypeOK
  BY DEF IInv
<1>1. CASE Close
  <2>1. TypeOK'
    BY <1>1, <1>a DEF Close, TypeOK
  <2> QED  BY <1>1, <2>1, QueueKept DEF Close, Prepared
<1>2. CASE Complete /\ UNCHANGED <<swapchain, frame, at, input, sets>>
  <2> DEFINE done == Head(gpu).frame
  <2>1. gpu \in Seq(Submissions) /\ gpu # <<>>
    BY <1>2, <1>a DEF Complete, TypeOK
  <2>2. gpu' = Tail(gpu) /\ fence' = [fence EXCEPT ![done] = TRUE]
    BY <1>2 DEF Complete
  <2>3. /\ gpu' \in Seq(Submissions) /\ Head(gpu) = gpu[1] /\ 1 \in DOMAIN gpu
        /\ \A n \in DOMAIN gpu' : n + 1 \in DOMAIN gpu /\ gpu'[n] = gpu[n + 1] /\ n + 1 # 1 /\ n \in Nat
    BY <2>1, <2>2, Removed
  <2>d. done \in Frames /\ done = gpu[1].frame
    BY <2>3, <1>a, Typed
  <2> HIDE DEF done
  <2>4. TypeOK'
    BY <1>2, <1>a, <2>d, <2>2, <2>3 DEF Complete, TypeOK
  <2>5. \A n \in DOMAIN gpu' : gpu'[n].frame # done /\ gpu'[n].frame \in Frames
    BY <2>3, <2>d, <1>a, Typed DEF IInv, OnePerFrame
  <2>6. Pending'
    BY <2>2, <2>3, <2>5, <1>a DEF IInv, Pending, TypeOK
  <2>7. OnePerFrame'
    BY <2>3 DEF IInv, OnePerFrame
  <2>8. Waited'
    BY <1>2, <1>a, <2>2 DEF IInv, Waited, TypeOK
  <2> QED  BY <1>2, <2>4, <2>6, <2>7, <2>8 DEF IInv, HasImage
<1>3. CASE (Resize \/ Minimize \/ Restore \/ \E i \in Images : Return(i)) /\ UNCHANGED <<swapchain, frame, at, input, sets>>
  <2>1. gpu' = gpu /\ fence' = fence
    BY <1>3 DEF Resize, Minimize, Restore, Return
  <2>2. TypeOK'
    BY <1>3, <1>a, <2>1 DEF Resize, Minimize, Restore, Return, TypeOK
  <2> QED  BY <1>3, <2>1, <2>2, QueueKept DEF IInv, Waited, HasImage
<1>4. CASE UNCHANGED vars
  BY <1>4 DEF vars, IInv, TypeOK, Pending, OnePerFrame, Waited, HasImage
<1> QED  BY <1>1, <1>2, <1>3, <1>4 DEF NextPresentation

(* IInv holds of every behaviour.                                          *)
THEOREM InductiveInvariant == Spec => []IInv
<1>1. IInv /\ [Next]_vars => IInv'
  BY ProgramKeeps, OthersKeep DEF Next
<1> QED  BY Initial, <1>1, PTL DEF Spec

(* The variables keep their types; the index of the frame stays below      *)
(* frames_in_flight.                                                       *)
THEOREM TypeCorrect == Spec => []TypeOK
<1>1. IInv => TypeOK
  BY DEF IInv
<1> QED  BY <1>1, InductiveInvariant, PTL

(* Nothing a submission uses is destroyed, reset or rewritten while the    *)
(* GPU may still read it (clean_frame, invalidate_and_update, on_resize,   *)
(* VulkanRenderTarget::resize).                                            *)
THEOREM GpuUsesWhatLives == Spec => []GpuUsesLive
<1>1. IInv => GpuUsesLive
  BY DEF IInv, Pending, GpuUsesLive
<1> QED  BY <1>1, InductiveInvariant, PTL
================================================================================
