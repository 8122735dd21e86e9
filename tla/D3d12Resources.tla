--------------------------- MODULE D3d12Resources ---------------------------
(***************************************************************************)
(* What D3d12_t (core/gpu/d3d12) makes of the calls that create and use    *)
(* resources, as VulkanResources does for Vulkan_t.  A set of resources is *)
(* only its counts: a pipeline layout is a root signature with a table of  *)
(* descriptors for each set, and cmd_set_resource points the table at the  *)
(* descriptor of the resource.  A draw call reads as many descriptors from *)
(* there as the table has, in the order they were created in.  How         *)
(* textures are uploaded and states are tracked is in D3d12Frame.          *)
(***************************************************************************)
EXTENDS GpuInterface

MiB == 1024 * 1024
BufferSizes == [uniform |-> 64 * MiB, vertex |-> 128 * MiB]
HeapSizes == [dsv |-> 2, cbv_srv |-> 20, sampler |-> 10]

Created ==
  [offsets |-> [uniform |-> 0, vertex |-> 0], subBuffers |-> <<>>, strides |-> <<>>,
   heaps |-> [dsv |-> <<>>, cbv_srv |-> <<>>, sampler |-> <<>>],  \* what each descriptor is of
   sets |-> <<>>, layouts |-> <<>>, pipelines |-> <<>>, passes |-> <<>>,
   signature |-> NoResource, tables |-> <<>>, slots |-> <<>>,
   pipeline |-> NoResource, pass |-> NoResource,
   broken |-> "no"]

(* Sizes are made multiples of 256.                                        *)
AllocateSubBuffer(g, name, buffer, size, alignment) ==
  LET at == SubBufferAt(g, buffer, alignment)
      whole == ((size - 1) \div 256 + 1) * 256
  IN  IF at + whole <= BufferSizes[buffer] THEN Allocated(g, name, buffer, at, whole)
      ELSE Breaks(g, "out of memory")

(* A heap that is full logs, and the descriptor stays unset.               *)
AllocateDescriptor(g, heap, name) ==
  IF Len(g.heaps[heap]) < HeapSizes[heap] THEN [g EXCEPT !.heaps[heap] = Append(@, name)]
  ELSE Breaks(g, "out of descriptors")

HeapOf(name, g) == IF name \in ToSet(g.heaps.sampler) THEN "sampler" ELSE "cbv_srv"
DescriptorOf(name, g) == SelectInSeq(g.heaps[HeapOf(name, g)], LAMBDA x : x = name)

CreateVertexBuffer(g, ci) ==
  LET made == AllocateSubBuffer(g, ci.name, "vertex", ci.size, 256)
  IN  [made EXCEPT !.strides = Put(@, ci.name, ci.stride)]
CreateIndexBuffer(g, ci) == AllocateSubBuffer(g, ci.name, "vertex", ci.size, 256)

CreateUniformBuffer(g, ci) ==
  AllocateDescriptor(AllocateSubBuffer(g, ci.name, "uniform", ci.size, 256), "cbv_srv", ci.name)

CreateSampler(g, ci) == AllocateDescriptor(g, "sampler", ci.name)
CreateImageView(g, ci) == AllocateDescriptor(g, "cbv_srv", ci.name)
CreateDepthStencil(g, ci) == AllocateDescriptor(g, "dsv", ci.name)

CreateResourcesSet(g, ci) ==
  [g EXCEPT !.sets = Put(@, ci.name,
    [kind |-> KindOf(ci), count |-> CountOf(ci), stages |-> ci.visibility])]

BindResourceToSet(g, ci) == g

(* A parameter for each set: a table with one range of descriptors.        *)
CreatePipelineLayout(g, ci) ==
  [g EXCEPT !.layouts = Put(@, ci.name, [k \in DOMAIN ci.sets |-> g.sets[ci.sets[k]]])]

CreateRenderPass(g, ci) ==
  [g EXCEPT !.passes = Put(@, ci.name, [descs |-> ci.descs, swapchain |-> ci.swapchain \/ ci.last])]

CreatePipelineStateObject(g, ci) ==
  [g EXCEPT !.pipelines = Put(@, ci.name,
    [layout |-> ci.layout, pass |-> ci.pass, slots |-> ci.slots,
     attributes |-> Attributes(ci.slots)])]

-----------------------------------------------------------------------------
(* Commands *)

CmdBegin(g) == [g EXCEPT !.signature = NoResource, !.tables = <<>>, !.slots = <<>>,
                         !.pipeline = NoResource]
CmdBeginRenderPass(g, ci) == [g EXCEPT !.pass = ci.pass]
CmdEndRenderPass(g, ci) == [g EXCEPT !.pass = NoResource]

(* Another root signature leaves no table set.                             *)
CmdSetPipelineState(g, ci) ==
  LET signature == g.pipelines[ci.pipeline].layout IN
  [g EXCEPT !.pipeline = ci.pipeline, !.signature = signature,
            !.tables = IF g.signature = signature THEN @ ELSE <<>>]

CmdSetVertexBuffer(g, ci) == [g EXCEPT !.slots = Put(@, ci.slot, ci.buffer)]
CmdSetIndexBuffer(g, ci) == g

CmdSetResource(g, ci) == [g EXCEPT !.tables = Put(@, ci.index, ci.resource)]

(* The descriptors from the table's first on; nothing if the table is not  *)
(* set or the heap ends before it.                                         *)
ReadAt(g, index) ==
  LET count == g.layouts[g.signature][index + 1].count IN
  IF index \notin DOMAIN g.tables THEN <<>>
  ELSE LET heap == g.heaps[HeapOf(g.tables[index], g)]
           from == DescriptorOf(g.tables[index], g)
       IN  SubSeq(heap, from, from + count - 1)

(* The stride is the buffer's.                                             *)
StrideOf(g, slot) == g.strides[g.slots[slot.slot]]

=============================================================================
