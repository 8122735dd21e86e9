--------------------------- MODULE VulkanResources ---------------------------
(***************************************************************************)
(* What Vulkan_t (core/gpu/vulkan) makes of the calls that create and use  *)
(* resources: each operator takes the object and the call and returns the  *)
(* object after it.  Buffers are parts of large ones; a set of resources   *)
(* is a descriptor set, which bind_resource_to_set writes, and a draw call *)
(* reads what was written last; textures go through one upload buffer and  *)
(* a batch on the transfer queue.                                          *)
(***************************************************************************)
EXTENDS GpuInterface

MiB == 1024 * 1024
BufferSizes == [uniform |-> 16 * MiB, vertex |-> 100 * MiB, upload |-> 100 * MiB]
FramebuffersCapacity == 4

(* Mutant: one descriptor less than the textures of the scene need. *)
PoolSizesOfFive == [uniform |-> 10, image |-> 5, sampler |-> 10, sets |-> 30]
PoolSizes == [uniform |-> 10, image |-> 10, sampler |-> 10, sets |-> 30]

Created(imageCount) ==
  [imageCount |-> imageCount,
   offsets |-> [uniform |-> 0, vertex |-> 0], subBuffers |-> <<>>,
   pool |-> PoolSizes,
   sets |-> <<>>,                       \* set -> [shape, first, bindings]
   layouts |-> <<>>, pipelines |-> <<>>, passes |-> <<>>,
   views |-> <<>>,                      \* view -> the image it shows
   images |-> <<>>,                     \* image -> [layout, data]
   upload |-> NoResource, transfer |-> <<>>,
   bound |-> <<>>, slots |-> <<>>, pipeline |-> NoResource, pass |-> NoResource,
   framebuffer |-> <<>>,                \* the attachments that are drawn to
   broken |-> "no"]

-----------------------------------------------------------------------------
(* Buffers *)

(* Mutant: the next offset does not count the padding. *)
AllocateSubBufferShort(g, name, buffer, size, alignment) ==
  [Allocated(g, name, buffer, SubBufferAt(g, buffer, alignment), size)
     EXCEPT !.offsets[buffer] = g.offsets[buffer] + size]

(* When there is no room it logs, and the sub-buffer stays what it was.    *)
AllocateSubBuffer(g, name, buffer, size, alignment) ==
  LET at == SubBufferAt(g, buffer, alignment) IN
  IF at + size <= BufferSizes[buffer] THEN Allocated(g, name, buffer, at, size)
  ELSE Breaks(g, "out of memory")

CreateVertexBuffer(g, ci) == AllocateSubBuffer(g, ci.name, "vertex", ci.size, 256)
CreateIndexBuffer(g, ci) == AllocateSubBuffer(g, ci.name, "vertex", ci.size, 256)
CreateUniformBuffer(g, ci) == AllocateSubBuffer(g, ci.name, "uniform", ci.size, 256)

-----------------------------------------------------------------------------
(* Sets of resources *)

BindingOffset == [uniform |-> 0, image |-> 20, sampler |-> 40]

(* Sets of one shape can stand for each other in a pipeline layout.        *)
Shape(ci) == [kind |-> KindOf(ci), count |-> CountOf(ci), stages |-> ci.visibility]

CreateResourcesSet(g, ci) ==
  LET shape == Shape(ci)
      first == BindingOffset[shape.kind] + ci.binding
  IN  IF g.pool[shape.kind] >= shape.count /\ g.pool.sets > 0
      THEN [g EXCEPT
             !.pool = [@ EXCEPT ![shape.kind] = @ - shape.count, !.sets = @ - 1],
             !.sets = Put(@, ci.name, [shape |-> shape, first |-> first,
               bindings |-> [b \in first .. first + shape.count - 1 |-> NoResource]])]
      ELSE Breaks(g, "descriptor pool")

CreateSampler(g, ci) == g

(* A view of a render target is the one it was created with.               *)
CreateImageView(g, ci) == [g EXCEPT !.views = Put(@, ci.name, ci.image)]

BindResourceToSet(g, ci) ==
  LET dst == BindingOffset[ci.kind] + ci.binding IN
  IF dst \in DOMAIN g.sets[ci.set].bindings
  THEN [g EXCEPT !.sets[ci.set].bindings[dst] = ci.resource]
  ELSE Breaks(g, "binding")

CreatePipelineLayout(g, ci) ==
  [g EXCEPT !.layouts = Put(@, ci.name, [k \in DOMAIN ci.sets |-> g.sets[ci.sets[k]].shape])]

-----------------------------------------------------------------------------
(* Images: textures and targets *)

(* create_texture and create_texture_cube up to vkQueueSubmit: the data is *)
(* at the start of the upload buffer, and the batch that copies it is on   *)
(* the transfer queue.                                                     *)
UploadTexture(g, ci) ==
  IF ci.size > BufferSizes.upload THEN Breaks(g, "upload buffer")
  ELSE IF g.transfer # <<>> THEN Breaks(g, "transfer command buffer")
  ELSE [g EXCEPT !.upload = ci.name, !.transfer = Append(@, ci.name),
                 !.images = Put(@, ci.name, [layout |-> "undefined", data |-> NoResource])]

(* The GPU copies what is in the buffer when it gets to the batch.         *)
GpuCopies(g) ==
  [g EXCEPT !.transfer = Tail(@),
            !.images[Head(g.transfer)] = [layout |-> "shader read", data |-> g.upload]]

(* Mutant: does not wait for the fence. *)
UploadEndsAtOnce(g) == TRUE

(* vkWaitForFences *)
UploadEnds(g) == g.transfer = <<>>

CreateDepthStencil(g, ci) ==
  [g EXCEPT !.images = Put(@, ci.name, [layout |-> "undefined", data |-> NoResource]),
            !.views = Put(@, ci.name, ci.name)]

(* The layout of a state, and the attachments of a pass: its targets, and  *)
(* the image of the swapchain.                                             *)
LayoutOf(state) == IF state = "pixel_shader_resource" THEN "shader read" ELSE state
UsesSwapchain(ci) == ci.swapchain \/ ci.last

(* create_framebuffers_: one for each image of the swapchain.  It goes by  *)
(* the length of the array of framebuffers, which holds four and stays     *)
(* empty when it is to hold more: with a length of one or none it makes    *)
(* one framebuffer and sets no image.                                      *)
SetsTheImage(g) == g.imageCount \in 2 .. FramebuffersCapacity

CreateFramebuffers(g, targets, swapchain) ==
  IF swapchain THEN [k \in 0 .. g.imageCount - 1 |-> Append(targets, k)]
  ELSE [k \in {0} |-> targets]

(* A framebuffer of an attachment that nothing has set is none.            *)
CreateRenderPass(g, ci) ==
  LET targets == [k \in DOMAIN ci.descs |-> ci.descs[k].target] IN
  IF UsesSwapchain(ci) /\ ~SetsTheImage(g) THEN Breaks(g, "framebuffers")
  ELSE [g EXCEPT !.passes = Put(@, ci.name,
         [descs |-> ci.descs, swapchain |-> UsesSwapchain(ci),
          framebuffers |-> CreateFramebuffers(g, targets, UsesSwapchain(ci))])]

CreatePipelineStateObject(g, ci) ==
  [g EXCEPT !.pipelines = Put(@, ci.name,
    [layout |-> ci.layout, pass |-> ci.pass, slots |-> ci.slots,
     attributes |-> Attributes(ci.slots)])]

-----------------------------------------------------------------------------
(* Commands *)

(* A command buffer starts with nothing bound.                             *)
CmdBegin(g) == [g EXCEPT !.bound = <<>>, !.slots = <<>>, !.pipeline = NoResource]

(* The framebuffer of the image the frame was given, or the only one.      *)
CmdBeginRenderPass(g, ci, image) ==
  LET pass == g.passes[ci.pass]
      k == IF pass.swapchain THEN image ELSE 0
  IN  IF k \in DOMAIN pass.framebuffers
      THEN [g EXCEPT !.pass = ci.pass, !.framebuffer = pass.framebuffers[k]]
      ELSE Breaks(g, "framebuffers")

CmdEndRenderPass(g, ci) ==
  LET descs == g.passes[ci.pass].descs
      After(k) == [g.images[descs[k].target] EXCEPT !.layout = LayoutOf(descs[k].after)]
  IN  [g EXCEPT !.pass = NoResource, !.framebuffer = <<>>,
                !.images = [x \in DOMAIN @ |->
                  IF \E k \in DOMAIN descs : descs[k].target = x
                  THEN After(CHOOSE k \in DOMAIN descs : descs[k].target = x) ELSE @[x]]]

CmdSetPipelineState(g, ci) == [g EXCEPT !.pipeline = ci.pipeline]
CmdSetVertexBuffer(g, ci) == [g EXCEPT !.slots = Put(@, ci.slot, ci.buffer)]
CmdSetIndexBuffer(g, ci) == g

(* Binds the set, whatever resource is given.  What else is bound stays as *)
(* far as it fits the layout.                                              *)
CmdSetResource(g, ci) ==
  LET shapes == g.layouts[ci.layout]
      kept == {i \in DOMAIN g.bound : i < Len(shapes) /\ g.sets[g.bound[i]].shape = shapes[i + 1]}
  IN  [g EXCEPT !.bound = Put([i \in kept |-> g.bound[i]], ci.index, ci.set)]

(* What a draw call finds at an index: nothing unless a set of the shape   *)
(* the pipeline's layout has there is bound.                               *)
ReadAt(g, index) ==
  LET shapes == g.layouts[g.pipelines[g.pipeline].layout] IN
  IF index \in DOMAIN g.bound /\ g.sets[g.bound[index]].shape = shapes[index + 1]
  THEN LET set == g.sets[g.bound[index]]
       IN  [b \in 1 .. set.shape.count |-> set.bindings[set.first + b - 1]]
  ELSE <<>>

(* The views are written with READ_ONLY_OPTIMAL, which names every layout  *)
(* an image is read in; images are in SHADER_READ_ONLY_OPTIMAL, the layout *)
(* of the older name.                                                      *)
Readable(g, resource) ==
  resource \in DOMAIN g.views => g.images[g.views[resource]].layout = "shader read"

(* The stride is the pipeline's, whatever buffer is bound.                 *)
StrideOf(g, slot) == slot.stride

=============================================================================
