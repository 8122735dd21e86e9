----------------------------- MODULE EinsScene -----------------------------
(***************************************************************************)
(* Eins_window_t::init and loop (eins): the calls that build the scene and *)
(* those that draw a frame, one step each, made to the backend that        *)
(* Gpu_t::init constructs.  With Vulkan the device is made as VulkanInit   *)
(* says first; whether that went well is not asked.                        *)
(***************************************************************************)
EXTENDS VulkanInit, GpuInterface

VARIABLES
  backend,  \* "vulkan" or "dx12"
  gpu,      \* the backend object
  pc,       \* the next call of Script; 0 in Gpu_t::init
  waiting,  \* in create_texture, for the copy
  back,     \* the image of the swapchain the frame draws to
  wanted,   \* ghost: the resource bound to each binding of each set
  passed    \* ghost: the resource handed over for each index in this pass

vars == <<deviceVars, backend, gpu, pc, waiting, back, wanted, passed>>

Vk == INSTANCE VulkanResources
Dx == INSTANCE D3d12Resources

-----------------------------------------------------------------------------
(* The scene.  A call is a record; its name is that of what it creates.    *)

DepthStencil(name) == [op |-> "depth stencil", name |-> name]
Target(target, after) == [target |-> target, after |-> after]
RenderPass(name, descs, swapchain, last) ==
  [op |-> "render pass", name |-> name, descs |-> descs, swapchain |-> swapchain, last |-> last]

ScenePasses ==
  << DepthStencil("shadow depth"), DepthStencil("final depth"),
     RenderPass("shadow", <<Target("shadow depth", "pixel_shader_resource")>>, FALSE, FALSE),
     RenderPass("final", <<Target("final depth", "depth_write")>>, TRUE, TRUE),
     RenderPass("cube", <<>>, TRUE, FALSE),
     RenderPass("pbr", <<>>, FALSE, TRUE) >>

ResourcesSet(name, uniforms, samplers, textures, visibility) ==
  [op |-> "resources set", name |-> name, binding |-> 0, uniforms |-> uniforms,
   samplers |-> samplers, images |-> textures, visibility |-> visibility]
Uniform(name, size) == [op |-> "uniform", name |-> name, size |-> size]
Sampler(name) == [op |-> "sampler", name |-> name]
View(name, of) == [op |-> "view", name |-> name, image |-> of]
Bind(resource, kind, set, binding) ==
  [op |-> "bind", resource |-> resource, kind |-> kind, set |-> set, binding |-> binding]

SharedSets ==
  << ResourcesSet("shared", 1, 0, 0, {"vertex", "fragment"}),
     ResourcesSet("samplers", 0, 1, 0, {"fragment"}),
     ResourcesSet("srvs", 0, 0, 1, {"fragment"}),
     ResourcesSet("cube srvs", 0, 0, 1, {"fragment"}),
     Uniform("shared uniform", 320), Bind("shared uniform", "uniform", "shared", 0),
     Sampler("sampler"), Bind("sampler", "sampler", "samplers", 0),
     View("shadow view", "shadow depth"), Bind("shadow view", "image", "srvs", 0) >>

(* create_texture_and_srv_, and the same for the cube.                     *)
Texture(name, size) == [op |-> "texture", name |-> name, size |-> size]
CreateTextureAndSrv(name, set, binding) ==
  << Texture(name, 1024 * 1024),
     View(name \o " srv", name), Bind(name \o " srv", "image", set, binding) >>

SceneTextures ==
  << ResourcesSet("pbr samplers", 0, 1, 0, {"fragment"}),
     Bind("sampler", "sampler", "pbr samplers", 0),
     ResourcesSet("pbr srvs", 0, 0, 4, {"fragment"}) >>
  \o CreateTextureAndSrv("albedo", "pbr srvs", 0)
  \o CreateTextureAndSrv("normal", "pbr srvs", 1)
  \o CreateTextureAndSrv("metallic", "pbr srvs", 2)
  \o CreateTextureAndSrv("roughness", "pbr srvs", 3)
  \o CreateTextureAndSrv("cube texture", "cube srvs", 0)

PipelineLayout(name, sets) == [op |-> "pipeline layout", name |-> name, sets |-> sets]

SceneLayouts ==
  << ResourcesSet("per obj", 1, 0, 0, {"vertex"}),
     ResourcesSet("per obj cube", 1, 0, 0, {"vertex"}),
     PipelineLayout("shadow", <<"per obj", "shared">>),
     PipelineLayout("final", <<"per obj", "shared", "samplers", "srvs">>),
     PipelineLayout("cube", <<"per obj cube", "shared", "samplers", "cube srvs">>),
     PipelineLayout("pbr", <<"per obj", "shared", "pbr samplers", "pbr srvs">>) >>

VertexBuffer(name, size, stride) ==
  [op |-> "vertex buffer", name |-> name, size |-> size, stride |-> stride]
IndexBuffer(name, size) == [op |-> "index buffer", name |-> name, size |-> size]
MiB == 1024 * 1024
Float2 == 8
Float3 == 12
VertexSize == 16 + Float3 + 16 * 4 + 16 * 4  \* Vertex_t
PerObjSize == 64 * (1 + 300 + 300)           \* Per_obj_t_

SceneObjects ==
  << VertexBuffer("vertices", 32 * MiB, VertexSize), VertexBuffer("normals", 32 * MiB, VertexSize),
     IndexBuffer("indices", 16 * MiB),
     Uniform("object", PerObjSize), Bind("object", "uniform", "per obj", 0) >>

Element(format, rows) == [format |-> format, rows |-> rows]
Slot(slot, stride, elements) == [slot |-> slot, stride |-> stride, elements |-> elements]
Pipeline(name, slots) ==
  [op |-> "pipeline", name |-> name, layout |-> name, pass |-> name, slots |-> slots]

VertexElements ==
  << Element("r32g32b32a32_float", 1), Element("r32g32b32_float", 1),
     Element("r32g32b32a32_uint", 4), Element("r32g32b32a32_float", 4) >>

ScenePipelines ==
  << Pipeline("shadow", <<Slot(0, VertexSize, SubSeq(VertexElements, 1, 1))>>),
     Pipeline("final", <<Slot(0, VertexSize, VertexElements)>>) >>

CubeScene ==
  << Pipeline("cube", <<Slot(0, Float3, <<Element("r32g32b32_float", 1)>>)>>),
     VertexBuffer("cube vertices", Float3 * 36, Float3),
     Uniform("cube object", PerObjSize), Bind("cube object", "uniform", "per obj cube", 0) >>

(* Mutant: the uniform of the sphere is bound to the set of the objects,   *)
(* as in the line that is commented out.                                   *)
PbrSceneBinds ==
  << Pipeline("pbr", << Slot(0, Float3, <<Element("r32g32b32_float", 1)>>),
                        Slot(1, Float2, <<Element("r32g32_float", 1)>>),
                        Slot(2, Float3, <<Element("r32g32b32_float", 1)>>) >>),
     VertexBuffer("pbr vertices", MiB, Float3), VertexBuffer("pbr uvs", MiB, Float2),
     Uniform("pbr object", PerObjSize), Bind("pbr object", "uniform", "per obj", 0) >>

PbrScene ==
  << Pipeline("pbr", << Slot(0, Float3, <<Element("r32g32b32_float", 1)>>),
                        Slot(1, Float2, <<Element("r32g32_float", 1)>>),
                        Slot(2, Float3, <<Element("r32g32b32_float", 1)>>) >>),
     VertexBuffer("pbr vertices", MiB, Float3), VertexBuffer("pbr uvs", MiB, Float2),
     Uniform("pbr object", PerObjSize) >>

-----------------------------------------------------------------------------
(* A frame: the shadow pass, and the final pass that reads what it drew.   *)

BeginPass(pass) == [op |-> "begin pass", pass |-> pass]
EndPass(pass) == [op |-> "end pass", pass |-> pass]
SetPipeline(pipeline) == [op |-> "set pipeline", pipeline |-> pipeline]
SetVertices(buffer, slot) == [op |-> "set vertices", buffer |-> buffer, slot |-> slot]
SetIndices(buffer) == [op |-> "set indices", buffer |-> buffer]
SetResource(resource, layout, set, index) ==
  [op |-> "set resource", resource |-> resource, layout |-> layout, set |-> set, index |-> index]
Draw == [op |-> "draw"]

Frame ==
  << [op |-> "begin"],
     BeginPass("shadow"), SetPipeline("shadow"),
     SetVertices("vertices", 0), SetIndices("indices"),
     SetResource("shared uniform", "shadow", "shared", 1),
     SetResource("object", "shadow", "per obj", 0), Draw, EndPass("shadow"),
     BeginPass("final"), SetPipeline("final"), SetVertices("normals", 1),
     SetResource("shared uniform", "final", "shared", 1),
     SetResource("sampler", "final", "samplers", 2),
     SetResource("shadow view", "final", "srvs", 3),
     SetResource("object", "final", "per obj", 0), Draw, EndPass("final") >>

Scene == ScenePasses \o SharedSets \o SceneTextures \o SceneLayouts \o SceneObjects
           \o ScenePipelines \o CubeScene \o PbrScene
Script == Scene \o Frame

-----------------------------------------------------------------------------
(* The calls *)

Call == Script[pc]
AfterCall == IF pc = Len(Script) THEN Len(Scene) + 1 ELSE pc + 1

Init ==
  /\ InitMachine
  /\ backend \in {"vulkan", "dx12"} /\ gpu = [broken |-> "no"]
  /\ pc = 0 /\ waiting = FALSE /\ back = 0
  /\ wanted = <<>> /\ passed = <<>>

InitVulkan ==
  /\ pc = 0 /\ backend = "vulkan"
  /\ InitDevice
  /\ UNCHANGED <<backend, gpu, pc, waiting, back, wanted, passed>>

(* Gpu_t::init *)
InitGpu ==
  /\ pc = 0
  /\ \/ backend = "vulkan" /\ step = "ready" /\ gpu' = Vk!Created(images)
     \/ backend = "vulkan" /\ step = "failed" /\ gpu' = Breaks(gpu, "no device")
     \/ backend = "dx12" /\ gpu' = Dx!Created
  /\ pc' = 1
  /\ UNCHANGED <<deviceVars, backend, waiting, back, wanted, passed>>

At(op) == pc > 0 /\ gpu.broken = "no" /\ Call.op = op

(* A call that returns at once, with what either backend makes of it.      *)
Makes(op, vk, dx) ==
  /\ At(op)
  /\ gpu' = IF backend = "vulkan" THEN vk ELSE dx
  /\ pc' = AfterCall
  /\ UNCHANGED <<deviceVars, backend, waiting>>

Creates(op, vk, dx) == Makes(op, vk, dx) /\ UNCHANGED <<back, wanted, passed>>

DepthStencilStep == Creates("depth stencil", Vk!CreateDepthStencil(gpu, Call), Dx!CreateDepthStencil(gpu, Call))
RenderPassStep == Creates("render pass", Vk!CreateRenderPass(gpu, Call), Dx!CreateRenderPass(gpu, Call))
ResourcesSetStep == Creates("resources set", Vk!CreateResourcesSet(gpu, Call), Dx!CreateResourcesSet(gpu, Call))
UniformStep == Creates("uniform", Vk!CreateUniformBuffer(gpu, Call), Dx!CreateUniformBuffer(gpu, Call))
SamplerStep == Creates("sampler", Vk!CreateSampler(gpu, Call), Dx!CreateSampler(gpu, Call))
ViewStep == Creates("view", Vk!CreateImageView(gpu, Call), Dx!CreateImageView(gpu, Call))
LayoutStep == Creates("pipeline layout", Vk!CreatePipelineLayout(gpu, Call), Dx!CreatePipelineLayout(gpu, Call))
VerticesStep == Creates("vertex buffer", Vk!CreateVertexBuffer(gpu, Call), Dx!CreateVertexBuffer(gpu, Call))
IndicesStep == Creates("index buffer", Vk!CreateIndexBuffer(gpu, Call), Dx!CreateIndexBuffer(gpu, Call))
PipelineStep == Creates("pipeline", Vk!CreatePipelineStateObject(gpu, Call), Dx!CreatePipelineStateObject(gpu, Call))

BindStep ==
  /\ Makes("bind", Vk!BindResourceToSet(gpu, Call), Dx!BindResourceToSet(gpu, Call))
  /\ wanted' = Put(wanted, <<Call.set, Call.binding + 1>>, Call.resource)
  /\ UNCHANGED <<back, passed>>

(* create_texture hands the data to the transfer queue and waits for the   *)
(* copy.  How the other backend does that is in D3d12Frame.                *)
TextureStep ==
  /\ At("texture") /\ ~waiting
  /\ IF backend = "vulkan"
     THEN gpu' = Vk!UploadTexture(gpu, Call) /\ waiting' = TRUE /\ pc' = pc
     ELSE gpu' = gpu /\ waiting' = FALSE /\ pc' = AfterCall
  /\ UNCHANGED <<deviceVars, backend, back, wanted, passed>>

TextureDone ==
  /\ At("texture") /\ waiting
  /\ Vk!UploadEnds(gpu)
  /\ waiting' = FALSE /\ pc' = AfterCall
  /\ UNCHANGED <<deviceVars, backend, gpu, back, wanted, passed>>

GpuCopies ==
  /\ backend = "vulkan" /\ pc > 0 /\ gpu.broken = "no"
  /\ gpu.transfer # <<>>
  /\ gpu' = Vk!GpuCopies(gpu)
  /\ UNCHANGED <<deviceVars, backend, pc, waiting, back, wanted, passed>>

(* get_back_buffer and cmd_begin.                                          *)
BeginStep ==
  /\ Makes("begin", Vk!CmdBegin(gpu), Dx!CmdBegin(gpu))
  /\ back' \in (IF backend = "vulkan" THEN 0 .. gpu.imageCount - 1 ELSE {0, 1})
  /\ UNCHANGED <<wanted, passed>>

BeginPassStep ==
  /\ Makes("begin pass", Vk!CmdBeginRenderPass(gpu, Call, back), Dx!CmdBeginRenderPass(gpu, Call))
  /\ passed' = <<>>
  /\ UNCHANGED <<back, wanted>>

EndPassStep == Creates("end pass", Vk!CmdEndRenderPass(gpu, Call), Dx!CmdEndRenderPass(gpu, Call))
SetPipelineStep == Creates("set pipeline", Vk!CmdSetPipelineState(gpu, Call), Dx!CmdSetPipelineState(gpu, Call))
SetVerticesStep == Creates("set vertices", Vk!CmdSetVertexBuffer(gpu, Call), Dx!CmdSetVertexBuffer(gpu, Call))
SetIndicesStep == Creates("set indices", Vk!CmdSetIndexBuffer(gpu, Call), Dx!CmdSetIndexBuffer(gpu, Call))

SetResourceStep ==
  /\ Makes("set resource", Vk!CmdSetResource(gpu, Call), Dx!CmdSetResource(gpu, Call))
  /\ passed' = Put(passed, Call.index, Call.resource)
  /\ UNCHANGED <<back, wanted>>

(* What a draw call reads is looked at by the properties.                  *)
DrawStep == Creates("draw", gpu, gpu)

CreateStep ==
  \/ DepthStencilStep \/ RenderPassStep \/ ResourcesSetStep \/ UniformStep \/ SamplerStep
  \/ ViewStep \/ BindStep \/ LayoutStep \/ VerticesStep \/ IndicesStep \/ PipelineStep
  \/ TextureStep \/ TextureDone

FrameStep ==
  \/ BeginStep \/ BeginPassStep \/ EndPassStep \/ SetPipelineStep \/ SetVerticesStep
  \/ SetIndicesStep \/ SetResourceStep \/ DrawStep

Next == InitVulkan \/ InitGpu \/ CreateStep \/ FrameStep \/ GpuCopies

(* The application goes on, and what was submitted is done some time.      *)
Spec ==
  /\ Init /\ [][Next]_vars
  /\ WF_vars(InitVulkan \/ InitGpu \/ CreateStep \/ FrameStep)
  /\ WF_vars(GpuCopies)

-----------------------------------------------------------------------------
(***************************************************************************)
(* Properties                                                              *)
(***************************************************************************)

Building == pc > 0 /\ gpu.broken = "no"
Drawing == At("draw")

(* The number of images that the passes have framebuffers for.             *)
FramebuffersFit == SwapchainImages \in 2 .. Vk!FramebuffersCapacity

(* With a device no call of the scene is refused, but for the passes that  *)
(* draw onto a swapchain of more images than their framebuffers, or of     *)
(* one; and every buffer has its own bytes of the large one, at an offset  *)
(* both APIs accept (allocate_sub_buffer_ of both backends,                *)
(* create_resources_set, create_render_pass).                              *)
ResourcesFit ==
  /\ gpu.broken \in {"no", "no device", "framebuffers"}
  /\ gpu.broken = "framebuffers" => backend = "vulkan" /\ ~FramebuffersFit
  /\ Building => \A r \in DOMAIN gpu.subBuffers :
       LET b == gpu.subBuffers[r] IN
       /\ b.offset % 256 = 0
       /\ \E k \in DOMAIN Scene : {"name", "size"} \subseteq DOMAIN Scene[k]
                                /\ Scene[k].name = r /\ b.size >= Scene[k].size
       /\ \A other \in DOMAIN gpu.subBuffers \ {r} :
            LET o == gpu.subBuffers[other]
            IN  o.buffer = b.buffer =>
                  b.offset + b.size <= o.offset \/ o.offset + o.size <= b.offset

(* What a set holds: on one backend its descriptors, on the other those    *)
(* from the one of its first resource on.                                  *)
Held(set) ==
  IF backend = "vulkan"
  THEN [b \in 1 .. gpu.sets[set].shape.count |-> gpu.sets[set].bindings[gpu.sets[set].first + b - 1]]
  ELSE LET heap == gpu.heaps[Dx!HeapOf(wanted[<<set, 1>>], gpu)]
           from == Dx!DescriptorOf(wanted[<<set, 1>>], gpu)
       IN  SubSeq(heap, from, from + gpu.sets[set].count - 1)

CountIn(set) == IF backend = "vulkan" THEN gpu.sets[set].shape.count ELSE gpu.sets[set].count

(* A set that has been bound completely is the same on both backends: the  *)
(* descriptors of the four textures follow one another, with nothing       *)
(* created in between (bind_resource_to_set of Vulkan_t, allocate_descriptor_ *)
(* of D3d12_t, for which bind_resource_to_set does nothing).               *)
SetsHoldTheirs ==
  Building => \A set \in DOMAIN gpu.sets :
    (\A b \in 1 .. CountIn(set) : <<set, b>> \in DOMAIN wanted) =>
      Held(set) = [b \in 1 .. CountIn(set) |-> wanted[<<set, b>>]]

(* At a draw call every set of the pipeline's layout is there and starts   *)
(* with the resource the application passed, written, and in the layout it *)
(* is read in; the vertices have the stride they were made with; the       *)
(* pipeline is one of the pass (cmd_set_resource, cmd_set_vertex_buffer,   *)
(* cmd_set_pipeline_state and the two passes of Eins_window_t::loop).      *)
DrawsReadTheirs ==
  Drawing =>
    LET pipeline == gpu.pipelines[gpu.pipeline] IN
    /\ pipeline.pass = gpu.pass
    /\ \A k \in DOMAIN gpu.layouts[pipeline.layout] :
         LET read == IF backend = "vulkan" THEN Vk!ReadAt(gpu, k - 1) ELSE Dx!ReadAt(gpu, k - 1) IN
         /\ Len(read) = gpu.layouts[pipeline.layout][k].count
         /\ k - 1 \in DOMAIN passed /\ Head(read) = passed[k - 1]
         /\ \A b \in DOMAIN read : read[b] # NoResource
         /\ backend = "vulkan" => \A b \in DOMAIN read : Vk!Readable(gpu, read[b])
    /\ \A k \in DOMAIN pipeline.slots :
         LET slot == pipeline.slots[k] IN
         /\ slot.slot \in DOMAIN gpu.slots
         /\ \E j \in DOMAIN Scene : /\ Scene[j].op = "vertex buffer"
                                   /\ Scene[j].name = gpu.slots[slot.slot]
                                   /\ Scene[j].stride = IF backend = "vulkan"
                                        THEN Vk!StrideOf(gpu, slot) ELSE Dx!StrideOf(gpu, slot)

(* What the shaders declare: inputs at their locations, and a register in  *)
(* each space, with the stage that reads it.                               *)
ShaderInputs ==
  [shadow |-> [l \in 0 .. 0 |-> "r32g32b32a32_float"],
   final |-> [l \in 0 .. 9 |-> CASE l = 1 -> "r32g32b32_float"
                                 [] l \in 2 .. 5 -> "r32g32b32a32_uint"
                                 [] OTHER -> "r32g32b32a32_float"],
   cube |-> [l \in 0 .. 0 |-> "r32g32b32_float"],
   pbr |-> [l \in 0 .. 2 |-> IF l = 1 THEN "r32g32_float" ELSE "r32g32b32_float"]]

ShaderRegisters(pipeline) ==
  << [kind |-> "uniform", count |-> 1, stages |-> {"vertex"}],
     [kind |-> "uniform", count |-> 1,
      stages |-> IF pipeline \in {"final", "pbr"} THEN {"vertex", "fragment"} ELSE {"vertex"}] >>
  \o IF pipeline = "shadow" THEN <<>>
     ELSE << [kind |-> "sampler", count |-> 1, stages |-> {"fragment"}],
             [kind |-> "image", count |-> IF pipeline = "pbr" THEN 4 ELSE 1,
              stages |-> {"fragment"}] >>

(* A pipeline feeds its shaders: an attribute of the right format at every *)
(* location, no two on the same bytes, all within the stride; and every    *)
(* register a shader reads is in its layout and visible to it              *)
(* (create_pipeline_state_object of both backends and the .hlsl files).    *)
PipelinesFit ==
  Building => \A p \in DOMAIN gpu.pipelines :
    LET pipeline == gpu.pipelines[p]
        attributes == pipeline.attributes
        layout == gpu.layouts[pipeline.layout]
    IN  /\ ShaderInputs[p] = [l \in 0 .. Len(attributes) - 1 |-> attributes[l + 1].format]
        /\ \A k \in DOMAIN attributes :
             /\ attributes[k].location = k - 1
             /\ \E s \in DOMAIN pipeline.slots :
                  /\ pipeline.slots[s].slot = attributes[k].slot
                  /\ attributes[k].offset + FormatSize(attributes[k].format) <= pipeline.slots[s].stride
             /\ \A j \in 1 .. k - 1 : attributes[j].slot = attributes[k].slot =>
                  attributes[j].offset + FormatSize(attributes[j].format) <= attributes[k].offset
        /\ Len(layout) = Len(ShaderRegisters(p))
        /\ \A k \in DOMAIN layout :
             /\ layout[k].kind = ShaderRegisters(p)[k].kind
             /\ layout[k].count = ShaderRegisters(p)[k].count
             /\ ShaderRegisters(p)[k].stages \subseteq layout[k].stages

(* A texture whose creation has returned has its own pixels, though all go *)
(* through the start of one upload buffer and the transfer queue takes its *)
(* time (create_texture and create_texture_cube of Vulkan_t).              *)
TexturesAreTheirOwn ==
  Building /\ backend = "vulkan" =>
    \A k \in 1 .. pc - 1 : Script[k].op = "texture" =>
      gpu.images[Script[k].name] = [layout |-> "shader read", data |-> Script[k].name]

(* A pass draws to its targets and, the last one, to the image the frame   *)
(* was given (create_framebuffers_, cmd_begin_render_pass).                *)
DrawsOntoTheImage ==
  Drawing /\ backend = "vulkan" =>
    LET pass == gpu.passes[gpu.pass]
        targets == [k \in DOMAIN pass.descs |-> pass.descs[k].target]
    IN  gpu.framebuffer = IF pass.swapchain THEN Append(targets, back) ELSE targets

(* What a draw call reads and where it draws to, together.                 *)
DrawsAreWhole == SetsHoldTheirs /\ DrawsReadTheirs /\ DrawsOntoTheImage

(* What a machine must have for the Vulkan backend.                        *)
Sufficient ==
  machine.missing = {} /\ machine.validation /\ QueuesGranted(ChosenFamilies) /\ FramebuffersFit

(* What the last draw call of a frame is.                                  *)
FinalDrawn == Drawing /\ gpu.pass = "final"

(* The scene is drawn again and again with Direct3D and on the machines    *)
(* that have what Vulkan_t takes for granted, since creating a texture     *)
(* waits, but not for ever; and on no other is it ever, since nobody looks *)
(* at what went wrong (Gpu_t::init, Eins_window_t::init, create_texture).  *)
SceneIsDrawn ==
  /\ backend = "dx12" \/ Sufficient => []<>FinalDrawn
  /\ backend = "dx12" \/ Sufficient \/ []~FinalDrawn

=============================================================================
