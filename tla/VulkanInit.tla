----------------------------- MODULE VulkanInit -----------------------------
(***************************************************************************)
(* Vulkan_t::init (core/gpu/vulkan): the loader that looks up the functions *)
(* of the library, and then the choices the backend makes on the machine   *)
(* it finds: the device, the queue families, the kinds of memory and the   *)
(* number of images of the swapchain.                                      *)
(*                                                                         *)
(* The machine is external.  What varies is what it has; a call succeeds   *)
(* when that is enough for it.  init only logs the result of a call, and   *)
(* goes on with handles that were never written when it is an error: from  *)
(* there on, as after a call through a pointer that was not loaded, or one *)
(* Vulkan does not allow, anything may happen.  The model ends there, and  *)
(* broken says what it was.                                                *)
(***************************************************************************)
EXTENDS Integers, Sequences, SequencesExt, FiniteSetsExt

CONSTANTS
  Machines  \* what machines have: [missing, validation, gpus, minImages, maxImages, more],
            \* where a device is [discrete, families, memory], and validation is whether
            \* the layer and the extension for debugging are installed

VARIABLES
  step,      \* where init is
  machine,
  loaded,    \* the function pointers that are not null
  families,  \* m_graphics_q_idx, m_present_q_idx and m_transfer_queue_idx
  memory,    \* the type of memory of each buffer
  images,    \* m_swapchain_image_count
  broken

initVars == <<step, machine, loaded, families, memory, images>>
deviceVars == <<initVars, broken>>

(* What the program calls, in the order the loader looks it up.  A function *)
(* it loads and never calls is left out; the last one stands for those.    *)
DeviceFunctions == <<
  "vkCreateInstance", "vkEnumeratePhysicalDevices", "vkGetPhysicalDeviceFormatProperties",
  "vkGetPhysicalDeviceProperties", "vkGetPhysicalDeviceQueueFamilyProperties",
  "vkGetPhysicalDeviceMemoryProperties", "vkGetInstanceProcAddr", "vkCreateDevice",
  "vkGetDeviceQueue", "vkQueueSubmit", "vkDeviceWaitIdle", "vkAllocateMemory", "vkMapMemory",
  "vkBindBufferMemory", "vkBindImageMemory", "vkGetBufferMemoryRequirements",
  "vkGetImageMemoryRequirements" >>

ObjectFunctions == <<
  "vkCreateFence", "vkDestroyFence", "vkResetFences", "vkWaitForFences", "vkCreateSemaphore",
  "vkCreateBuffer", "vkCreateImage", "vkCreateImageView", "vkDestroyImageView",
  "vkCreateShaderModule", "vkCreateGraphicsPipelines", "vkCreatePipelineLayout",
  "vkCreateSampler", "vkCreateDescriptorSetLayout", "vkCreateDescriptorPool",
  "vkAllocateDescriptorSets", "vkUpdateDescriptorSets", "vkCreateFramebuffer",
  "vkDestroyFramebuffer", "vkCreateRenderPass", "vkCreateCommandPool",
  "vkAllocateCommandBuffers", "vkFreeCommandBuffers", "vkBeginCommandBuffer",
  "vkEndCommandBuffer", "vkResetCommandBuffer" >>

CommandFunctions == <<
  "vkCmdBindPipeline", "vkCmdSetViewport", "vkCmdSetScissor", "vkCmdBindDescriptorSets",
  "vkCmdBindIndexBuffer", "vkCmdBindVertexBuffers", "vkCmdDraw", "vkCmdDrawIndexed",
  "vkCmdCopyBufferToImage", "vkCmdPipelineBarrier", "vkCmdBeginRenderPass",
  "vkCmdEndRenderPass" >>

SurfaceFunctions == <<
  "vkCreateXcbSurfaceKHR", "vkGetPhysicalDeviceSurfaceSupportKHR",
  "vkGetPhysicalDeviceSurfaceCapabilitiesKHR", "vkGetPhysicalDeviceSurfaceFormatsKHR",
  "vkCreateSwapchainKHR", "vkDestroySwapchainKHR", "vkGetSwapchainImagesKHR",
  "vkAcquireNextImageKHR", "vkQueuePresentKHR", "vkAcquireNextImage2KHR" >>

LoadOrder == DeviceFunctions \o ObjectFunctions \o CommandFunctions \o SurfaceFunctions
Functions == ToSet(LoadOrder)

(* What Vulkan says of every machine with a window, and that coherent      *)
(* memory can be mapped.                                                   *)
Devices ==
  [discrete : BOOLEAN,
   families : Seq([graphics : BOOLEAN, present : BOOLEAN, transfer : BOOLEAN]),
   memory : Seq(SUBSET {"visible", "coherent"})]

ASSUME MachinesAssumption ==
  \A x \in Machines :
    /\ x.missing \subseteq Functions /\ x.validation \in BOOLEAN
    /\ x.gpus \in Seq(Devices) /\ Len(x.gpus) > 0
    /\ \A k \in DOMAIN x.gpus :
         /\ \E f \in DOMAIN x.gpus[k].families : x.gpus[k].families[f].graphics
         /\ \E f \in DOMAIN x.gpus[k].families : x.gpus[k].families[f].present
         /\ \E t \in DOMAIN x.gpus[k].memory : "visible" \in x.gpus[k].memory[t]
         /\ \A t \in DOMAIN x.gpus[k].memory :
              "coherent" \in x.gpus[k].memory[t] => "visible" \in x.gpus[k].memory[t]

(* The pointers are declared for everyone, and no one asks whether they are *)
(* null.                                                                   *)
Callable(calls) == calls \subseteq loaded

InitMachine ==
  /\ step = "load" /\ machine \in Machines
  /\ loaded = {} /\ images = 0
  /\ families = [graphics |-> 0, present |-> 0, transfer |-> 0]
  /\ memory = [b \in {"uniform", "vertex", "upload"} |-> 0]
  /\ broken = "no"

(* One step of init and the calls it makes.                                *)
Does(from, calls, to) ==
  /\ step = from /\ broken = "no"
  /\ step' = to
  /\ broken' = IF Callable(calls) THEN "no" ELSE "null function"

(* Mutant: goes on when a function is missing. *)
LoadGoesOn ==
  /\ step = "load"
  /\ loaded' = Functions \ machine.missing
  /\ step' = "instance"
  /\ UNCHANGED <<machine, families, memory, images, broken>>

(* The functions before the first one that is missing are loaded, those    *)
(* after it are not.  A library that cannot be opened lacks them all.      *)
Load ==
  /\ step = "load"
  /\ LET missing == {k \in DOMAIN LoadOrder : LoadOrder[k] \in machine.missing} IN
       /\ loaded' = {LoadOrder[k] : k \in {j \in DOMAIN LoadOrder : \A x \in missing : j < x}}
       /\ step' = IF missing = {} THEN "instance" ELSE "failed"
  /\ UNCHANGED <<machine, families, memory, images, broken>>

(* The instance asks for the validation layer and the extension whose      *)
(* function is then called unseen, in every build.                         *)
InstanceCalls == {"vkCreateInstance", "vkCreateXcbSurfaceKHR"}
CreateInstance ==
  /\ Does("instance", InstanceCalls, "families")
  /\ machine.validation
  /\ UNCHANGED <<machine, loaded, families, memory, images>>

CreateInstanceFails ==
  /\ step = "instance" /\ broken = "no"
  /\ ~machine.validation
  /\ broken' = "instance"
  /\ UNCHANGED initVars

(* The index of the first element that has the property, or none (-1).     *)
First(seq, P(_)) ==
  LET found == {k \in DOMAIN seq : P(seq[k])}
  IN  IF found = {} THEN -1 ELSE CHOOSE k \in found : \A j \in found : k <= j

(* The first discrete device, or the first one.                            *)
Gpu ==
  LET discrete == First(machine.gpus, LAMBDA g : g.discrete)
  IN  machine.gpus[IF discrete = -1 THEN 1 ELSE discrete]

ChosenFamilies ==
  [graphics |-> First(Gpu.families, LAMBDA f : f.graphics),
   present  |-> First(Gpu.families, LAMBDA f : f.present),
   transfer |-> First(Gpu.families, LAMBDA f : f.transfer)]

FamilyCalls == {"vkEnumeratePhysicalDevices", "vkGetPhysicalDeviceProperties",
                "vkGetPhysicalDeviceMemoryProperties",
                "vkGetPhysicalDeviceQueueFamilyProperties",
                "vkGetPhysicalDeviceSurfaceSupportKHR"}
ChooseFamilies ==
  /\ Does("families", FamilyCalls, "device")
  /\ families' = ChosenFamilies
  /\ UNCHANGED <<machine, loaded, memory, images>>

(* The families queues are asked of: they must be there, and a family may  *)
(* be asked only once.                                                     *)
QueueCreateInfos(f) ==
  <<f.graphics>> \o (IF f.present # f.graphics THEN <<f.present>> ELSE <<>>)
                 \o (IF f.transfer # f.graphics THEN <<f.transfer>> ELSE <<>>)
QueuesGranted(f) == IsInjective(QueueCreateInfos(f)) /\ f.transfer # -1

DeviceCalls == {"vkCreateDevice", "vkGetDeviceQueue", "vkGetInstanceProcAddr",
                "vkCreateCommandPool"}
CreateDevice ==
  /\ Does("device", DeviceCalls, "swapchain")
  /\ QueuesGranted(families)
  /\ UNCHANGED <<machine, loaded, families, memory, images>>

CreateDeviceFails ==
  /\ step = "device" /\ broken = "no"
  /\ ~QueuesGranted(families)
  /\ broken' = "queue families"
  /\ UNCHANGED initVars

(* One image more than the least, unless that is more than there can be.   *)
(* The driver may make more than it is asked for.                          *)
ImageCount ==
  IF machine.maxImages # 0 /\ machine.minImages + 1 > machine.maxImages
  THEN machine.maxImages ELSE machine.minImages + 1

SwapchainImages == ImageCount + machine.more

SwapchainCalls == {"vkGetPhysicalDeviceSurfaceCapabilitiesKHR",
                   "vkGetPhysicalDeviceSurfaceFormatsKHR", "vkCreateSwapchainKHR",
                   "vkGetSwapchainImagesKHR", "vkCreateImageView"}
CreateSwapchain ==
  /\ Does("swapchain", SwapchainCalls, "buffers")
  /\ images' = SwapchainImages
  /\ UNCHANGED <<machine, loaded, families, memory>>

(* The first type that has any of the flags; a buffer may be in any type.  *)
GetMemTypeIdx(flags) == First(Gpu.memory, LAMBDA t : t \cap flags # {})

BufferCalls == {"vkCreateDescriptorPool", "vkCreateBuffer", "vkGetBufferMemoryRequirements",
                "vkAllocateMemory", "vkBindBufferMemory", "vkMapMemory"}
CreateBuffers ==
  /\ Does("buffers", BufferCalls, "sync")
  /\ memory' = [uniform |-> GetMemTypeIdx({"visible"}), vertex |-> GetMemTypeIdx({"visible"}),
                upload |-> GetMemTypeIdx({"visible", "coherent"})]
  /\ UNCHANGED <<machine, loaded, families, images>>

SyncCalls == {"vkAllocateCommandBuffers", "vkCreateFence", "vkCreateSemaphore",
              "vkGetPhysicalDeviceFormatProperties"}
CreateSync ==
  /\ Does("sync", SyncCalls, "ready")
  /\ UNCHANGED <<machine, loaded, families, memory, images>>

(* Vulkan_t::init *)
InitDevice ==
  \/ Load \/ CreateInstance \/ CreateInstanceFails \/ ChooseFamilies \/ CreateDevice \/ CreateDeviceFails
  \/ CreateSwapchain \/ CreateBuffers \/ CreateSync

-----------------------------------------------------------------------------
(* Properties *)

(* A machine whose graphics families say that they can transfer, and where *)
(* no other family presents.  Vulkan promises neither: the choices of init *)
(* are made for such machines and may be wrong on others.                  *)
Plain ==
  \A k \in DOMAIN Gpu.families :
    /\ Gpu.families[k].graphics => Gpu.families[k].transfer
    /\ Gpu.families[k].present => Gpu.families[k].graphics

(* init calls no function that was not loaded, and a missing one makes it  *)
(* fail, used or not.  On a plain machine the queues it gets can do what   *)
(* they are for and no family is asked twice, and what it maps can be      *)
(* mapped (M_vk_check_return_false in vulkan_loader_init, the two loops    *)
(* over the families in Vulkan_t::init, get_mem_type_idx_).                *)
FitsTheMachine ==
  /\ broken # "null function"
  /\ step = "ready" => machine.missing = {} /\ loaded = Functions
  /\ Plain =>
       /\ broken # "queue families"
       /\ step = "ready" =>
            /\ Gpu.families[families.graphics].graphics
            /\ Gpu.families[families.present].present
            /\ Gpu.families[families.transfer].transfer
  /\ step \in {"sync", "ready"} =>
       \A b \in DOMAIN memory : memory[b] # -1 /\ "visible" \in Gpu.memory[memory[b]]

=============================================================================
