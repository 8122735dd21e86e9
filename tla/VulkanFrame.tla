----------------------------- MODULE VulkanFrame -----------------------------
(***************************************************************************)
(* The frame loop of an application on Vulkan_t (core/gpu/vulkan): acquire *)
(* an image of the swapchain, wait for the fence of that image, record its *)
(* command buffer, submit it and present.  One semaphore tells the GPU     *)
(* that the image may be drawn to, one tells the presentation that it has  *)
(* been; both serve every frame.                                           *)
(*                                                                         *)
(* The GPU, its queues and the presentation engine are external: what they *)
(* do is what Vulkan lets them do.  A call that Vulkan does not allow      *)
(* leaves nothing to be said; broken then names the call and the model     *)
(* stops.                                                                  *)
(***************************************************************************)
EXTENDS Integers, Sequences, SequencesExt

CONSTANTS
  ImageCounts,    \* the image counts the driver may choose for a swapchain
  ResizesPasses,  \* whether the application resizes its render passes
  MaxResizes      \* bound: how often the window changes its size

ASSUME VulkanAssumption ==
  /\ ImageCounts \subseteq Nat \ {0, 1} /\ ImageCounts # {}
  /\ ResizesPasses \in BOOLEAN
  /\ MaxResizes \in Nat

VARIABLES
  pc,            \* where the loop is
  swapchain,     \* m_swapchain and m_swapchain_image_count
  image,         \* m_next_swapchain_image_idx
  fences,        \* m_fences: whether each is signaled
  framebuffers,  \* the swapchain whose views are in the framebuffers
  available,     \* m_image_available_semaphore
  finished,      \* m_rendering_finished_semaphore
  queue,         \* the batches submitted and not finished
  presents,      \* the images handed to the present queue
  oneQueue,      \* whether m_present_q is m_graphics_q
  held,          \* the images the application has acquired
  display,       \* the image on the screen and those to follow
  outOfDate,     \* whether the window no longer has the swapchain's size
  broken

loopVars == <<pc, swapchain, image, fences, framebuffers>>
gpuVars == <<available, finished, queue, presents, oneQueue>>
displayVars == <<held, display, outOfDate>>
vars == <<loopVars, gpuVars, displayVars, broken>>

Images == 0 .. swapchain.count - 1

(* m_next_swapchain_image_idx is not initialised; whatever it holds is not *)
(* counted on to be an index.                                              *)
NoImage == -1

(* The arrays of fences, command buffers and framebuffers keep the length  *)
(* they are created with.                                                  *)
Created == DOMAIN fences

Breaks(why) ==
  /\ broken' = why
  /\ UNCHANGED <<loopVars, gpuVars, displayVars>>

-----------------------------------------------------------------------------
(* The loop *)

Init ==
  /\ pc = "frame"
  /\ \E n \in ImageCounts :
       /\ swapchain = [id |-> 0, count |-> n]
       /\ fences = [i \in 0 .. n - 1 |-> TRUE]
  /\ image = NoImage /\ framebuffers = 0
  /\ available = "unsignaled" /\ finished = FALSE
  /\ queue = <<>> /\ presents = <<>> /\ oneQueue \in BOOLEAN
  /\ held = {} /\ display = <<>> /\ outOfDate = FALSE
  /\ broken = "no"

(* vkAcquireNextImageKHR needs a semaphore that nothing is pending on, and *)
(* delivers an image the display is done with or about to be.  From a      *)
(* swapchain that is out of date it may do so or fail.                     *)
SemaphoreIdle == available = "unsignaled" /\ \A k \in DOMAIN queue : queue[k].started

Acquirable(i) ==
  /\ i \in Images \ held
  /\ i \in ToSet(display) => i = Head(display) /\ Len(display) > 1

Acquire ==
  /\ pc = "frame" /\ broken = "no"
  /\ IF SemaphoreIdle
     THEN \E i \in Images :
            /\ Acquirable(i)
            /\ image' = i
            /\ held' = held \cup {i}
            /\ available' = "pending"
            /\ pc' = "begin"
            /\ UNCHANGED <<swapchain, fences, framebuffers, finished, queue, presents,
                           oneQueue, display, outOfDate, broken>>
     ELSE Breaks("semaphore in use")

(* The check of the result only logs: the loop goes on with the image of   *)
(* the frame before.                                                       *)
AcquireFails ==
  /\ pc = "frame" /\ broken = "no" /\ outOfDate
  /\ pc' = "begin"
  /\ UNCHANGED <<swapchain, image, fences, framebuffers, gpuVars, displayVars, broken>>

(* Mutant: does not wait for the fence. *)
CmdBeginAtOnce ==
  /\ pc = "begin" /\ broken = "no"
  /\ IF image = NoImage THEN Breaks("no image")
     ELSE /\ fences' = [fences EXCEPT ![image] = FALSE]
          /\ pc' = "record"
          /\ UNCHANGED <<swapchain, image, framebuffers, gpuVars, displayVars, broken>>

(* Mutant: resets the fence, and then waits for it. *)
CmdBeginResetsFirst ==
  /\ pc = "begin" /\ broken = "no"
  /\ IF image = NoImage THEN Breaks("no image")
     ELSE /\ fences' = [fences EXCEPT ![image] = FALSE]
          /\ UNCHANGED <<pc, swapchain, image, framebuffers, gpuVars, displayVars, broken>>

CmdBegin ==
  /\ pc = "begin" /\ broken = "no"
  /\ IF image = NoImage THEN Breaks("no image")
     ELSE /\ fences[image]
          /\ fences' = [fences EXCEPT ![image] = FALSE]
          /\ pc' = "record"
          /\ UNCHANGED <<swapchain, image, framebuffers, gpuVars, displayVars, broken>>

Batch == [image |-> image, views |-> framebuffers, waits |-> TRUE, started |-> FALSE]

(* Mutant: does not present. *)
CmdEndOnly ==
  /\ pc = "record" /\ broken = "no"
  /\ IF available = "unsignaled" THEN Breaks("nothing to wait for")
     ELSE /\ queue' = Append(queue, Batch)
          /\ pc' = "frame"
          /\ UNCHANGED <<swapchain, image, fences, framebuffers, available, finished,
                         presents, oneQueue, displayVars, broken>>

(* cmd_end, and the passes before it: the batch draws to the framebuffer   *)
(* of the image.  It must have a signal to wait for.  Whatever presenting  *)
(* returns changes nothing: VK_ERROR_OUT_OF_DATE_KHR is passed over and    *)
(* the rest, VK_SUBOPTIMAL_KHR too, only logged as unimplemented.          *)
CmdEnd ==
  /\ pc = "record" /\ broken = "no"
  /\ IF available = "unsignaled" THEN Breaks("nothing to wait for")
     ELSE /\ queue' = Append(queue, Batch)
          /\ presents' = Append(presents, image)
          /\ pc' = "frame"
          /\ UNCHANGED <<swapchain, image, fences, framebuffers, available, finished,
                         oneQueue, displayVars, broken>>

DeviceIdle == queue = <<>> /\ presents = <<>>

(* The handler of the window between two frames: a new swapchain with new  *)
(* views.  Command buffers are freed and framebuffers written up to its    *)
(* number of images, in arrays that keep the length they were created      *)
(* with.  Every framebuffer of the array is destroyed before: where the    *)
(* last resize has made fewer, the others a second time.                   *)
OnResized ==
  /\ pc = "frame" /\ broken = "no" /\ outOfDate
  /\ DeviceIdle
  /\ \E n \in ImageCounts :
       IF n - 1 \notin Created THEN Breaks("too many images")
       ELSE IF ResizesPasses /\ Created # Images THEN Breaks("framebuffer destroyed twice")
       ELSE /\ swapchain' = [id |-> swapchain.id + 1, count |-> n]
            /\ framebuffers' = IF ResizesPasses THEN swapchain.id + 1 ELSE framebuffers
            /\ held' = {} /\ display' = <<>> /\ outOfDate' = FALSE
            /\ UNCHANGED <<pc, image, fences, gpuVars, broken>>

-----------------------------------------------------------------------------
(* The GPU, the presentation engine and the window *)

(* The display no longer reads the image that was acquired. *)
SignalAvailable ==
  /\ available = "pending" /\ broken = "no"
  /\ image \notin ToSet(display)
  /\ available' = "signaled"
  /\ UNCHANGED <<loopVars, finished, queue, presents, oneQueue, displayVars, broken>>

(* The first batch goes past its semaphore.  What was handed to the same   *)
(* queue before it has been done.                                          *)
Start ==
  /\ queue # <<>> /\ ~Head(queue).started /\ broken = "no"
  /\ Head(queue).waits => available = "signaled"
  /\ oneQueue => Len(presents) <= Len(queue)
  /\ queue' = [queue EXCEPT ![1].started = TRUE]
  /\ available' = IF Head(queue).waits THEN "unsignaled" ELSE available
  /\ UNCHANGED <<loopVars, finished, presents, oneQueue, displayVars, broken>>

Finish ==
  /\ queue # <<>> /\ Head(queue).started /\ broken = "no"
  /\ IF finished THEN Breaks("signaled twice")
     ELSE /\ finished' = TRUE
          /\ fences' = [fences EXCEPT ![Head(queue).image] = TRUE]
          /\ queue' = Tail(queue)
          /\ UNCHANGED <<pc, swapchain, image, framebuffers, available, presents,
                         oneQueue, displayVars, broken>>

(* A swapchain that is out of date gets its image back and shows nothing. *)
Present ==
  /\ presents # <<>> /\ finished /\ broken = "no"
  /\ finished' = FALSE
  /\ presents' = Tail(presents)
  /\ held' = held \ {Head(presents)}
  /\ display' = IF outOfDate THEN display ELSE Append(display, Head(presents))
  /\ UNCHANGED <<loopVars, available, queue, oneQueue, outOfDate, broken>>

ShowNext ==
  /\ Len(display) > 1 /\ broken = "no"
  /\ display' = Tail(display)
  /\ UNCHANGED <<loopVars, gpuVars, held, outOfDate, broken>>

WindowChanges ==
  /\ ~outOfDate /\ broken = "no"
  /\ swapchain.id < MaxResizes
  /\ outOfDate' = TRUE
  /\ UNCHANGED <<loopVars, gpuVars, held, display, broken>>

-----------------------------------------------------------------------------

Loop == Acquire \/ AcquireFails \/ CmdBegin \/ CmdEnd
Device == SignalAvailable \/ Start \/ Finish \/ Present \/ ShowNext

Next == Loop \/ OnResized \/ Device \/ WindowChanges

(* The loop runs for ever, and what was submitted is done some time. *)
Spec ==
  /\ Init /\ [][Next]_vars
  /\ WF_vars(Loop)
  /\ WF_vars(SignalAvailable) /\ WF_vars(Start) /\ WF_vars(Finish)
  /\ WF_vars(Present) /\ WF_vars(ShowNext)

-----------------------------------------------------------------------------
(***************************************************************************)
(* Properties                                                              *)
(***************************************************************************)

TypeOK ==
  /\ pc \in {"frame", "begin", "record"}
  /\ swapchain.id \in 0 .. MaxResizes /\ swapchain.count \in ImageCounts
  /\ image \in Created \cup {NoImage}
  /\ Images \subseteq Created /\ fences \in [Created -> BOOLEAN]
  /\ framebuffers \in 0 .. swapchain.id
  /\ available \in {"unsignaled", "pending", "signaled"}
  /\ finished \in BOOLEAN /\ oneQueue \in BOOLEAN /\ outOfDate \in BOOLEAN
  /\ \A k \in DOMAIN queue : queue[k].image \in Created
  /\ held \subseteq Images /\ ToSet(display) \subseteq Images /\ ToSet(presents) \subseteq Images

(* A command buffer is not reset and recorded while the GPU executes it,   *)
(* not even when acquiring fails and the image of the frame before is      *)
(* taken once more.                                                        *)
CommandBufferIdle ==
  pc = "record" => \A k \in DOMAIN queue : queue[k].image # image

(* A batch draws to an image only while the application holds it and the   *)
(* display does not read it, and through views of the swapchain there is.  *)
DrawsToOwnImage ==
  \A k \in DOMAIN queue :
    /\ queue[k].started => queue[k].image \in held \ ToSet(display)
    /\ queue[k].views = swapchain.id

(* What the GPU executes is nobody else's at the time.                     *)
DrawsSafely == TypeOK /\ CommandBufferIdle /\ DrawsToOwnImage

(* While the window keeps its size and one queue serves drawing and        *)
(* presenting, the only rule the loop can break is that it hands its       *)
(* semaphore to the next acquire before the last batch has waited for it.  *)
OnlyTheSemaphore ==
  oneQueue /\ ~outOfDate => broken \in {"no", "semaphore in use"}

(* The loop never waits for ever: not for a fence nobody signals, nor for  *)
(* an image nobody gives back.                                             *)
FramesGoOn == []<>(pc = "record" \/ broken # "no")
=============================================================================
