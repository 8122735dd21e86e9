------------------------------ MODULE D3d12Frame ------------------------------
(***************************************************************************)
(* The frame loop of an application on D3d12_t (core/gpu/d3d12): a command *)
(* allocator per buffer of the swapchain, one command list and one queue,  *)
(* and one fence whose values tell which frames the GPU has finished.  The *)
(* program keeps track of the state every render target is in; barriers in *)
(* the list take it from one state to the next.                            *)
(*                                                                         *)
(* The GPU and DXGI are external.  A call they do not allow leaves nothing *)
(* to be said; broken then names the rule and the model stops.             *)
(***************************************************************************)
EXTENDS Integers, Sequences

CONSTANTS
  FrameCount,       \* sc_frame_count
  FramePasses,      \* the sequences of passes a frame is drawn with
  Textures,         \* the textures the application creates
  PitchAlignment,   \* D3D12_TEXTURE_DATA_PITCH_ALIGNMENT
  PlaceAlignment,   \* D3D12_TEXTURE_DATA_PLACEMENT_ALIGNMENT
  UploadSize,       \* the size of m_upload_buffer
  MaxFence,         \* bound: the fence values the loop reaches
  MaxTextures,      \* bound: how many textures are created
  MaxResizes        \* bound: how often the window changes its size

(* A frame ends with the buffer to be presented, and draws the shadows     *)
(* before it samples them.                                                 *)
CompleteFrame(s) ==
  /\ s \in Seq({"shadow", "final", "cube", "pbr"})
  /\ \A k \in DOMAIN s : s[k] = "cube" => \E j \in DOMAIN s : j > k /\ s[j] \in {"final", "pbr"}
  /\ \A k \in DOMAIN s : s[k] = "final" => \E j \in DOMAIN s : j < k /\ s[j] = "shadow"

ASSUME D3d12Assumption ==
  /\ FrameCount \in Nat \ {0, 1}
  /\ \A s \in FramePasses : CompleteFrame(s)
  /\ Textures \subseteq [cube : BOOLEAN, pitch : Nat \ {0}, rows : Nat \ {0}]
  /\ PitchAlignment \in Nat \ {0} /\ PlaceAlignment \in Nat \ {0}
  /\ UploadSize \in Nat
  /\ MaxFence \in Nat \ {0} /\ MaxTextures \in Nat /\ MaxResizes \in Nat

VARIABLES
  pc,           \* where the loop is
  frameNo,      \* m_frame_no
  fenceVals,    \* m_fence_vals
  waiting,      \* in a wait: the value waited for, the next one, and what follows
  passes,       \* the passes still to be recorded
  list,         \* m_cmd_list: what is recorded in it
  tracked,      \* rt->state of every render target
  upload,       \* m_upload_buffer: its offset and the rows written to it
  queue,        \* m_cmd_queue: what was submitted and is not finished
  fence,        \* the completed value of m_fence
  actual,       \* the state each render target is in on the GPU
  textures,     \* the rows each texture was asked to have, and has got
  backBuffer,   \* GetCurrentBackBufferIndex
  resizes,      \* how often the window has changed its size
  outOfDate,    \* whether the swapchain does not have it yet
  lag,          \* frames since ResizeBuffers that drew to another buffer
  failures,     \* the functions of DXGI a call of which has failed
  broken

loopVars == <<pc, frameNo, fenceVals, waiting, passes, list, tracked>>
gpuVars == <<queue, fence, actual, textures>>
dxgiVars == <<backBuffer, resizes, outOfDate, lag, failures>>
vars == <<loopVars, upload, gpuVars, dxgiVars, broken>>

Frames == 0 .. FrameCount - 1
Buffers == {<<"buffer", f>> : f \in Frames}
DepthStencils == {<<"depth", "shadow">>, <<"depth", "final">>}
Targets == Buffers \cup DepthStencils
States == {"present", "render_target", "depth_write", "sampled"}

NoWait == [for |-> 0, next |-> 0, pc |-> "frame"]
Garbage == 0

Breaks(why) ==
  /\ broken' = why
  /\ UNCHANGED <<loopVars, upload, gpuVars, dxgiVars>>

-----------------------------------------------------------------------------
(* Render passes *)

Desc(target, during, after) == [target |-> target, during |-> during, after |-> after]

(* The target that stands for the buffer of the frame. *)
Swapchain == <<"buffer", FrameCount>>

CreateRenderPass(descs, useSwapchain, isLast) ==
  IF ~useSwapchain /\ ~isLast THEN descs
  ELSE Append(descs, Desc(Swapchain, "render_target",
                          IF isLast THEN "present" ELSE "render_target"))

RenderPass ==
  [shadow |-> CreateRenderPass(<<Desc(<<"depth", "shadow">>, "depth_write", "sampled")>>,
                               FALSE, FALSE),
   final  |-> CreateRenderPass(<<Desc(<<"depth", "final">>, "depth_write", "depth_write")>>,
                               TRUE, TRUE),
   cube   |-> CreateRenderPass(<<>>, TRUE, FALSE),
   pbr    |-> CreateRenderPass(<<>>, FALSE, TRUE)]

Samples(pass) == IF pass = "final" THEN {<<"depth", "shadow">>} ELSE {}

(* A command of a list needs its target in one state and leaves it in one. *)
Command(target, from, to) == [target |-> target, from |-> from, to |-> to]

(* The target of the last description is the buffer of the frame. *)
Patched(descs) ==
  [k \in DOMAIN descs |->
     IF descs[k].target = Swapchain
     THEN [descs[k] EXCEPT !.target = <<"buffer", frameNo>>] ELSE descs[k]]

(* The code leaves out a barrier between two equal states.  Here it is a   *)
(* command that changes nothing, and that needs its target in no other     *)
(* state than the draw calls of the pass do.                               *)
Barriers(descs, states, when) ==
  [k \in DOMAIN descs |->
     Command(descs[k].target, states[descs[k].target], descs[k][when])]

(* Mutant: rt->state is kept when a pass ends. *)
TrackedAtBeginOnly(descs, states, when) ==
  [t \in Targets |->
     IF \E k \in DOMAIN descs : descs[k].target = t /\ when = "during"
     THEN descs[CHOOSE k \in DOMAIN descs : descs[k].target = t][when] ELSE states[t]]

Tracked(descs, states, when) ==
  [t \in Targets |->
     IF \E k \in DOMAIN descs : descs[k].target = t
     THEN descs[CHOOSE k \in DOMAIN descs : descs[k].target = t][when] ELSE states[t]]

-----------------------------------------------------------------------------
(* The fence *)

Signal(value) == [kind |-> "signal", value |-> value]
List(commands, copies) ==
  [kind |-> "list", allocator |-> frameNo, commands |-> commands, copies |-> copies]

AllocatorInUse(f) == \E k \in DOMAIN queue : queue[k].kind = "list" /\ queue[k].allocator = f

WaitForCurrentFrame(submitted) ==
  /\ queue' = queue \o submitted \o <<Signal(fenceVals[frameNo])>>
  /\ waiting' = [for |-> fenceVals[frameNo], next |-> fenceVals[frameNo] + 1, pc |-> "frame"]
  /\ pc' = "wait"
  /\ UNCHANGED frameNo

(* Mutant: goes on from the value of the frame it waits for. *)
WaitForBackFrameOwnValue(submitted, buffer, then) ==
  /\ queue' = queue \o submitted \o <<Signal(fenceVals[frameNo])>>
  /\ frameNo' = buffer
  /\ waiting' = [for |-> fenceVals[buffer], next |-> fenceVals[buffer] + 1, pc |-> then]
  /\ pc' = "wait"

(* Mutant: counts the frames instead of asking DXGI. *)
WaitForBackFrameCounts(submitted, buffer, then) ==
  LET counted == (frameNo + 1) % FrameCount IN
  /\ queue' = queue \o submitted \o <<Signal(fenceVals[frameNo])>>
  /\ frameNo' = counted
  /\ waiting' = [for |-> fenceVals[counted], next |-> fenceVals[frameNo] + 1, pc |-> then]
  /\ pc' = "wait"

(* Mutant: does not signal. *)
WaitForBackFrameNoSignal(submitted, buffer, then) ==
  /\ queue' = queue \o submitted
  /\ frameNo' = buffer
  /\ waiting' = [for |-> fenceVals[buffer], next |-> fenceVals[frameNo] + 1, pc |-> then]
  /\ pc' = "wait"

(* The next frame is that of the current back buffer; the loop waits until *)
(* the GPU has finished what was last drawn with its allocator.            *)
WaitForBackFrame(submitted, buffer, then) ==
  /\ queue' = queue \o submitted \o <<Signal(fenceVals[frameNo])>>
  /\ frameNo' = buffer
  /\ waiting' = [for |-> fenceVals[buffer], next |-> fenceVals[frameNo] + 1, pc |-> then]
  /\ pc' = "wait"

WaitEnds ==
  /\ pc = "wait" /\ broken = "no"
  /\ fence >= waiting.for
  /\ fenceVals' = [fenceVals EXCEPT ![frameNo] = waiting.next]
  /\ pc' = waiting.pc
  /\ waiting' = NoWait
  /\ UNCHANGED <<frameNo, passes, list, tracked, upload, gpuVars, dxgiVars, broken>>

CanGoOn == pc = "frame" /\ broken = "no" /\ fenceVals[frameNo] < MaxFence

-----------------------------------------------------------------------------
(* Textures *)

AlignedTo(n, alignment) == ((n + alignment - 1) \div alignment) * alignment

Faces(t) == IF t.cube THEN 6 ELSE 1
RowPitch(t) == AlignedTo(t.pitch, PitchAlignment)
Place == AlignedTo(upload.offset, PlaceAlignment)
SubBufferSize(t) == Faces(t) * t.rows * RowPitch(t)

(* Mutant: rows are copied without the padding the GPU reads with. *)
WrittenUnpadded(t, k) == Place + (k - 1) * t.pitch

(* Where the rows are written: those of a cube one behind the other, all   *)
(* others at the pitch the GPU reads with.                                 *)
WrittenAt(t, k) == Place + (k - 1) * IF t.cube THEN t.pitch ELSE RowPitch(t)

(* Where the GPU reads them. *)
ReadAt(t, face, row) ==
  Place + (face - 1) * t.pitch * t.rows + (row - 1) * RowPitch(t)

Rows(t) == 1 .. Faces(t) * t.rows

(* The rows are numbered over all textures, so that none is like another. *)
RowOf(k) == 100 * (Len(textures) + 1) + k

(* Obligation: the pitch of a cube is one the GPU can read with, and its   *)
(* faces, which are written one behind the other, begin where textures may *)
(* be placed.                                                              *)
CarefulTexture(t) ==
  t.cube => RowPitch(t) = t.pitch /\ (t.pitch * t.rows) % PlaceAlignment = 0

CreateTexture(t) ==
  LET written == [a \in {WrittenAt(t, k) : k \in Rows(t)} |->
                    RowOf(CHOOSE k \in Rows(t) : WrittenAt(t, k) = a)]
      copies == <<[asked |-> [k \in Rows(t) |-> RowOf(k)],
                   from |-> [k \in Rows(t) |->
                               ReadAt(t, ((k - 1) \div t.rows) + 1, ((k - 1) % t.rows) + 1)]]>>
  IN
  /\ CanGoOn
  /\ Len(textures) < MaxTextures
  /\ CarefulTexture(t)
  /\ IF Place + SubBufferSize(t) > UploadSize THEN Breaks("out of memory")
     ELSE IF AllocatorInUse(frameNo) THEN Breaks("allocator in use")
     ELSE /\ upload' = [offset |-> Place + SubBufferSize(t),
                        rows |-> [a \in DOMAIN upload.rows \cup DOMAIN written |->
                                    IF a \in DOMAIN written THEN written[a]
                                    ELSE upload.rows[a]]]
          /\ WaitForCurrentFrame(<<List(<<>>, copies)>>)
          /\ list' = <<>>
          /\ UNCHANGED <<fenceVals, passes, tracked, fence, actual, textures, dxgiVars, broken>>

-----------------------------------------------------------------------------
(* The loop *)

Init ==
  /\ pc = "frame" /\ frameNo = 0
  /\ fenceVals = [f \in Frames |-> IF f = 0 THEN 2 ELSE 0]
  /\ waiting = NoWait
  /\ passes = <<>> /\ list = <<>>
  /\ tracked = [t \in Targets |-> IF t \in Buffers THEN "present" ELSE "depth_write"]
  /\ upload = [offset |-> 0, rows |-> <<>>]
  /\ queue = <<>> /\ fence = 1 /\ actual = tracked /\ textures = <<>>
  /\ backBuffer = 0 /\ resizes = 0 /\ outOfDate = FALSE /\ lag = 0 /\ failures = {}
  /\ broken = "no"

(* Resetting an allocator while the GPU executes its commands is not       *)
(* allowed.                                                                *)
CmdBegin ==
  /\ CanGoOn
  /\ IF AllocatorInUse(frameNo) THEN Breaks("allocator in use")
     ELSE /\ pc' = "record"
          /\ list' = <<>>
          /\ \E s \in FramePasses : passes' = s
          /\ UNCHANGED <<frameNo, fenceVals, waiting, tracked, upload, gpuVars, dxgiVars, broken>>

(* cmd_begin_render_pass, the draw calls, cmd_end_render_pass. *)
DrawPass ==
  LET descs == Patched(RenderPass[Head(passes)])
      during == Tracked(descs, tracked, "during")
      draws == [k \in DOMAIN descs |->
                  Command(descs[k].target, descs[k].during, descs[k].during)]
      samples == [k \in 1 .. IF Samples(Head(passes)) = {} THEN 0 ELSE 1 |->
                    Command(<<"depth", "shadow">>, "sampled", "sampled")]
  IN
  /\ pc = "record" /\ broken = "no" /\ passes # <<>>
  /\ IF \E k \in DOMAIN descs : descs[k].target \in Buffers /\ "ResizeBuffers" \in failures
     THEN Breaks("released buffer")
     ELSE /\ list' = list \o Barriers(descs, tracked, "during") \o draws \o samples
                          \o Barriers(descs, during, "after")
          /\ tracked' = Tracked(descs, during, "after")
          /\ passes' = Tail(passes)
          /\ UNCHANGED <<pc, frameNo, fenceVals, waiting, upload, gpuVars, dxgiVars, broken>>

Presented == <<List(list, <<>>), [kind |-> "present", buffer |-> backBuffer]>>

CmdEnd ==
  /\ pc = "record" /\ broken = "no" /\ passes = <<>>
  /\ backBuffer' = (backBuffer + 1) % FrameCount
  /\ lag' = IF frameNo = backBuffer THEN lag ELSE lag + 1
  /\ WaitForBackFrame(Presented, (backBuffer + 1) % FrameCount, "frame")
  /\ UNCHANGED <<fenceVals, passes, list, tracked, upload, fence, actual, textures,
                 resizes, outOfDate, failures, broken>>

(* Present does not return S_OK: the frame goes on without a signal. *)
PresentFails ==
  /\ pc = "record" /\ broken = "no" /\ passes = <<>>
  /\ failures' = failures \cup {"Present"}
  /\ queue' = Append(queue, List(list, <<>>))
  /\ pc' = "frame"
  /\ UNCHANGED <<frameNo, fenceVals, waiting, passes, list, tracked, upload, fence, actual,
                 textures, backBuffer, resizes, outOfDate, lag, broken>>

(* on_resized waits first. *)
OnResized ==
  /\ CanGoOn /\ outOfDate
  /\ WaitForBackFrame(<<>>, backBuffer, "resize")
  /\ UNCHANGED <<fenceVals, passes, list, tracked, upload, fence, actual, textures,
                 dxgiVars, broken>>

BuffersInUse == \E k \in DOMAIN queue : queue[k].kind # "signal"

(* It then releases the buffers, which it cannot twice, and has new ones   *)
(* made.  They may not be in use.  Any of them may be the one to draw to;  *)
(* m_frame_no is not read again.                                           *)
ResizeBuffers ==
  /\ pc = "resize" /\ broken = "no"
  /\ IF "ResizeBuffers" \in failures THEN Breaks("released buffer")
     ELSE IF BuffersInUse THEN Breaks("buffers in use")
     ELSE /\ backBuffer' \in Frames
          /\ actual' = [t \in Targets |-> IF t \in Buffers THEN "present" ELSE actual[t]]
          /\ outOfDate' = FALSE /\ lag' = 0
          /\ pc' = "frame"
          /\ UNCHANGED <<frameNo, fenceVals, waiting, passes, list, tracked, upload, queue,
                         fence, textures, resizes, failures, broken>>

(* ResizeBuffers does not return S_OK: the buffers are released, and no    *)
(* new ones are there.                                                     *)
ResizeFails ==
  /\ pc = "resize" /\ broken = "no" /\ ~BuffersInUse /\ "ResizeBuffers" \notin failures
  /\ failures' = failures \cup {"ResizeBuffers"}
  /\ outOfDate' = FALSE
  /\ pc' = "frame"
  /\ UNCHANGED <<frameNo, fenceVals, waiting, passes, list, tracked, upload, gpuVars,
                 backBuffer, resizes, lag, broken>>

-----------------------------------------------------------------------------
(* The GPU and the window *)

(* The state a target is in after the first n commands of a list. *)
StateAfter(states, commands, n, target) ==
  LET changes == {k \in 1 .. n : commands[k].target = target}
  IN  IF changes = {} THEN states[target]
      ELSE commands[CHOOSE k \in changes : \A j \in changes : j <= k].to

FindsItsStates(states, commands) ==
  \A k \in DOMAIN commands :
    StateAfter(states, commands, k - 1, commands[k].target) = commands[k].from

Copied(copy) ==
  [asked |-> copy.asked,
   got |-> [k \in DOMAIN copy.from |->
              IF copy.from[k] \in DOMAIN upload.rows THEN upload.rows[copy.from[k]]
              ELSE Garbage]]

GpuList ==
  LET commands == Head(queue).commands IN
  /\ queue # <<>> /\ Head(queue).kind = "list" /\ broken = "no"
  /\ IF ~FindsItsStates(actual, commands) THEN Breaks("wrong state")
     ELSE /\ actual' = [t \in Targets |-> StateAfter(actual, commands, Len(commands), t)]
          /\ textures' = textures \o [k \in DOMAIN Head(queue).copies |->
                                        Copied(Head(queue).copies[k])]
          /\ queue' = Tail(queue)
          /\ UNCHANGED <<loopVars, upload, fence, dxgiVars, broken>>

GpuPresent ==
  /\ queue # <<>> /\ Head(queue).kind = "present" /\ broken = "no"
  /\ IF actual[<<"buffer", Head(queue).buffer>>] # "present" THEN Breaks("wrong state")
     ELSE /\ queue' = Tail(queue)
          /\ UNCHANGED <<loopVars, upload, fence, actual, textures, dxgiVars, broken>>

GpuSignal ==
  /\ queue # <<>> /\ Head(queue).kind = "signal" /\ broken = "no"
  /\ fence' = Head(queue).value
  /\ queue' = Tail(queue)
  /\ UNCHANGED <<loopVars, upload, actual, textures, dxgiVars, broken>>

WindowChanges ==
  /\ ~outOfDate /\ broken = "no"
  /\ resizes < MaxResizes
  /\ outOfDate' = TRUE /\ resizes' = resizes + 1
  /\ UNCHANGED <<loopVars, upload, gpuVars, backBuffer, lag, failures, broken>>

-----------------------------------------------------------------------------

Loop == CmdBegin \/ DrawPass \/ CmdEnd \/ PresentFails
Handler == OnResized \/ ResizeBuffers \/ ResizeFails
Gpu == GpuList \/ GpuPresent \/ GpuSignal

Next ==
  \/ Loop
  \/ WaitEnds
  \/ Handler
  \/ \E t \in Textures : CreateTexture(t)
  \/ Gpu
  \/ WindowChanges

(* A thread that is not waiting goes on, and the GPU executes its queue. *)
Spec ==
  /\ Init /\ [][Next]_vars
  /\ WF_vars(WaitEnds)
  /\ WF_vars(Gpu)

-----------------------------------------------------------------------------
(***************************************************************************)
(* Properties                                                              *)
(***************************************************************************)

(* Between frames the program takes every buffer to be in the state that   *)
(* Present needs, whatever passes the frame had.                           *)
TypeOK ==
  /\ pc \in {"frame", "record", "wait", "resize"}
  /\ frameNo \in Frames /\ backBuffer \in Frames
  /\ fenceVals \in [Frames -> 0 .. MaxFence + 1]
  /\ tracked \in [Targets -> States] /\ actual \in [Targets -> States]
  /\ upload.offset \in 0 .. UploadSize
  /\ pc = "frame" => \A b \in Buffers : tracked[b] = "present"

(* As long as Present and ResizeBuffers succeed, no allocator is reset     *)
(* while the GPU executes its commands, no buffer of the swapchain is      *)
(* replaced while it is in use, and every barrier, draw call and Present   *)
(* finds its target in the state the program takes it to be in.  When they *)
(* fail, only the first of these rules can be broken, or the second, or a  *)
(* released buffer be drawn to or released once more.                      *)
RulesKept ==
  broken \in {"no", "out of memory"}
    \cup (IF "Present" \in failures THEN {"allocator in use", "buffers in use"} ELSE {})
    \cup (IF "ResizeBuffers" \in failures THEN {"released buffer"} ELSE {})

(* The values signaled on the one fence grow, though each frame has a      *)
(* value of its own: the comment of wait_for_back_frame_ demands it.       *)
SignalsGrow ==
  LET signals == {k \in DOMAIN queue : queue[k].kind = "signal"} IN
  /\ \A k \in signals : fence < queue[k].value
  /\ \A j, k \in signals : j < k => queue[j].value < queue[k].value
  /\ pc \in {"frame", "record"} => \A k \in signals : queue[k].value < fenceVals[frameNo]

(* The frames and their fence values between two steps.                    *)
WellFormed == TypeOK /\ SignalsGrow

(* ResizeBuffers may change the buffer to draw to and m_frame_no does not  *)
(* follow: one frame is drawn to another buffer than the one presented,    *)
(* and never a second.                                                     *)
LagsOnce == lag <= 1

(* Every texture gets the rows it was created from, in their order: what   *)
(* is written to the upload buffer is where the GPU reads it, and is not   *)
(* overwritten by the next texture.                                        *)
TexturesArrive == \A k \in DOMAIN textures : textures[k].got = textures[k].asked

(* Every wait for the fence ends: the value waited for has been signaled,  *)
(* after each sequence of frames, textures and resizes.                    *)
WaitsEnd == pc = "wait" ~> (pc # "wait" \/ broken # "no")
=============================================================================
