-------------------------- MODULE EinsSceneProofs ---------------------------
(***************************************************************************)
(* Proofs about the part of EinsScene that brings Vulkan up (VulkanInit),  *)
(* for every machine that MachinesAssumption admits: any devices, with any *)
(* families of queues and types of memory, any functions missing.          *)
(***************************************************************************)
EXTENDS EinsScene, SequenceTheorems, WellFoundedInduction, TLAPS

-----------------------------------------------------------------------------
(* The first that has a property. *)

(* Every nonempty set of naturals has a least element. *)
LEMMA LeastNatural ==
  ASSUME NEW S, S \subseteq Nat, S # {}
  PROVE  \E n \in S : \A m \in S : n <= m
<1> DEFINE R == OpToRel(<, Nat)
<1>1. IsWellFoundedOn(R, Nat)
  BY NatLessThanWellFounded
<1>2. \A x, y \in Nat : y < x => <<y, x>> \in R
  BY DEF OpToRel
<1> HIDE DEF R
<1>3. PICK n \in S : \A m \in S : <<m, n>> \notin R
  BY <1>1, WFMin
<1>4. \A m \in S : ~(m < n)
  BY <1>2, <1>3
<1> QED
  BY <1>3, <1>4

(* What the two loops over the families and get_mem_type_idx_ come to. *)
LeastOr(found) == IF found = {} THEN -1 ELSE CHOOSE k \in found : \A j \in found : k <= j

LEMMA LeastIs ==
  ASSUME NEW found, found \subseteq Nat \ {0}, found # {}
  PROVE  /\ LeastOr(found) \in found /\ LeastOr(found) # -1
         /\ \A j \in found : LeastOr(found) <= j
<1>1. \E n \in found : \A m \in found : n <= m
  BY LeastNatural
<1> DEFINE n == CHOOSE k \in found : \A j \in found : k <= j
<1>2. LeastOr(found) = n
  BY DEF LeastOr
<1>3. n \in found /\ \A j \in found : n <= j
  BY <1>1
<1> HIDE DEF n
<1>4. n \in Nat
  BY <1>3
<1> QED
  BY <1>2, <1>3, <1>4

-----------------------------------------------------------------------------
(* The functions of the library. *)

LEMMA ToSetOfBoth ==
  ASSUME NEW S, NEW s \in Seq(S), NEW t \in Seq(S)
  PROVE  s \o t \in Seq(S) /\ ToSet(s) \subseteq ToSet(s \o t) /\ ToSet(t) \subseteq ToSet(s \o t)
<1>1. ASSUME NEW x \in ToSet(s)
      PROVE  x \in ToSet(s \o t)
  <2>1. PICK k \in DOMAIN s : x = s[k]
    BY DEF ToSet
  <2>2. k \in DOMAIN (s \o t) /\ x = (s \o t)[k]
    BY <2>1
  <2> QED
    BY <2>2 DEF ToSet
<1>2. ASSUME NEW x \in ToSet(t)
      PROVE  x \in ToSet(s \o t)
  <2>1. PICK k \in DOMAIN t : x = t[k]
    BY DEF ToSet
  <2>2. Len(s) + k \in DOMAIN (s \o t) /\ x = (s \o t)[Len(s) + k]
    BY <2>1
  <2> QED
    BY <2>2 DEF ToSet
<1> QED
  BY <1>1, <1>2

Names(s) == s \in Seq({s[k] : k \in DOMAIN s})

LEMMA AreNames ==
  Names(DeviceFunctions) /\ Names(ObjectFunctions) /\ Names(CommandFunctions) /\ Names(SurfaceFunctions)
<1>1. Names(DeviceFunctions)
  BY DEF Names, DeviceFunctions
<1>2. Names(ObjectFunctions)
  BY DEF Names, ObjectFunctions
<1>3. Names(CommandFunctions)
  BY DEF Names, CommandFunctions
<1>4. Names(SurfaceFunctions)
  BY DEF Names, SurfaceFunctions
<1> QED
  BY <1>1, <1>2, <1>3, <1>4

LEMMA PartsOfFunctions ==
  /\ ToSet(DeviceFunctions) \subseteq Functions /\ ToSet(ObjectFunctions) \subseteq Functions
  /\ ToSet(SurfaceFunctions) \subseteq Functions
<1> DEFINE a == DeviceFunctions
           b == ObjectFunctions
           c == CommandFunctions
           d == SurfaceFunctions
           S == ToSet(a) \cup ToSet(b) \cup ToSet(c) \cup ToSet(d)
<1>1. a \in Seq(ToSet(a)) /\ b \in Seq(ToSet(b)) /\ c \in Seq(ToSet(c)) /\ d \in Seq(ToSet(d))
  BY AreNames DEF Names, ToSet
<1>2. LoadOrder = ((a \o b) \o c) \o d
  BY DEF LoadOrder
<1>3. \A U, s : U \subseteq S /\ s \in Seq(U) => s \in Seq(S)
  <2> HIDE DEF S
  <2> QED
    BY SeqDef
<1> HIDE DEF a, b, c, d
<1>4. a \in Seq(S) /\ b \in Seq(S) /\ c \in Seq(S) /\ d \in Seq(S)
  BY <1>1, <1>3
<1> HIDE DEF S
<1>5. a \o b \in Seq(S) /\ ToSet(a) \subseteq ToSet(a \o b) /\ ToSet(b) \subseteq ToSet(a \o b)
  BY <1>4, ToSetOfBoth
<1>6. (a \o b) \o c \in Seq(S) /\ ToSet(a \o b) \subseteq ToSet((a \o b) \o c)
  BY <1>4, <1>5, ToSetOfBoth
<1>7. /\ LoadOrder \in Seq(S) /\ ToSet((a \o b) \o c) \subseteq ToSet(LoadOrder)
      /\ ToSet(d) \subseteq ToSet(LoadOrder)
  BY <1>2, <1>4, <1>6, ToSetOfBoth
<1>8. ToSet(a) \subseteq Functions /\ ToSet(b) \subseteq Functions /\ ToSet(d) \subseteq Functions
  BY <1>5, <1>6, <1>7 DEF Functions
<1> QED
  BY <1>8 DEF a, b, d

(* Every function that init calls is looked up. *)
LEMMA CallsAreLookedUp ==
  /\ InstanceCalls \subseteq Functions /\ FamilyCalls \subseteq Functions
  /\ DeviceCalls \subseteq Functions /\ SwapchainCalls \subseteq Functions
  /\ BufferCalls \subseteq Functions /\ SyncCalls \subseteq Functions
<1>1. /\ {"vkCreateInstance", "vkEnumeratePhysicalDevices", "vkGetPhysicalDeviceFormatProperties",
          "vkGetPhysicalDeviceProperties", "vkGetPhysicalDeviceQueueFamilyProperties",
          "vkGetPhysicalDeviceMemoryProperties"} \subseteq ToSet(DeviceFunctions)
      /\ {"vkGetInstanceProcAddr", "vkCreateDevice", "vkGetDeviceQueue", "vkAllocateMemory",
          "vkMapMemory", "vkBindBufferMemory", "vkGetBufferMemoryRequirements"} \subseteq ToSet(DeviceFunctions)
  BY DEF DeviceFunctions, ToSet
<1>2. {"vkCreateFence", "vkCreateSemaphore", "vkCreateBuffer", "vkCreateImageView",
       "vkCreateDescriptorPool", "vkCreateCommandPool", "vkAllocateCommandBuffers"} \subseteq ToSet(ObjectFunctions)
  BY DEF ObjectFunctions, ToSet
<1>3. {"vkCreateXcbSurfaceKHR", "vkGetPhysicalDeviceSurfaceSupportKHR",
       "vkGetPhysicalDeviceSurfaceCapabilitiesKHR", "vkGetPhysicalDeviceSurfaceFormatsKHR",
       "vkCreateSwapchainKHR", "vkGetSwapchainImagesKHR"} \subseteq ToSet(SurfaceFunctions)
  BY DEF SurfaceFunctions, ToSet
<1> QED
  BY <1>1, <1>2, <1>3, PartsOfFunctions
     DEF InstanceCalls, FamilyCalls, DeviceCalls, SwapchainCalls, BufferCalls, SyncCalls

-----------------------------------------------------------------------------
(* The machine. *)

GraphicsFamilies == {k \in DOMAIN Gpu.families : Gpu.families[k].graphics}
PresentFamilies == {k \in DOMAIN Gpu.families : Gpu.families[k].present}
TransferFamilies == {k \in DOMAIN Gpu.families : Gpu.families[k].transfer}
TypesWith(flags) == {k \in DOMAIN Gpu.memory : Gpu.memory[k] \cap flags # {}}

(* The device that is chosen is one of the machine's. *)
LEMMA GpuIs ==
  ASSUME machine \in Machines
  PROVE  /\ Gpu \in Devices
         /\ GraphicsFamilies # {} /\ PresentFamilies # {}
         /\ \E t \in DOMAIN Gpu.memory : "visible" \in Gpu.memory[t]
         /\ \A t \in DOMAIN Gpu.memory : "coherent" \in Gpu.memory[t] => "visible" \in Gpu.memory[t]
<1> DEFINE discrete == {k \in DOMAIN machine.gpus : machine.gpus[k].discrete}
           chosen == IF LeastOr(discrete) = -1 THEN 1 ELSE LeastOr(discrete)
<1>1. machine.gpus \in Seq(Devices) /\ Len(machine.gpus) > 0
  BY MachinesAssumption
<1>2. chosen \in DOMAIN machine.gpus
  <2>1. DOMAIN machine.gpus = 1 .. Len(machine.gpus) /\ Len(machine.gpus) \in Nat
    BY <1>1
  <2>2. discrete \subseteq 1 .. Len(machine.gpus) /\ discrete \subseteq Nat \ {0}
    BY <2>1
  <2> HIDE DEF discrete
  <2>3. CASE discrete = {}
    BY <1>1, <2>1, <2>3 DEF LeastOr
  <2>4. CASE discrete # {}
    BY <2>1, <2>2, <2>4, LeastIs
  <2> QED
    BY <2>3, <2>4
<1>3. Gpu = machine.gpus[chosen]
  <2>1. First(machine.gpus, LAMBDA g : g.discrete) = LeastOr(discrete)
    BY DEF First, LeastOr
  <2> HIDE DEF discrete
  <2> QED
    BY <2>1 DEF Gpu
<1> HIDE DEF chosen
<1>4. Gpu \in Devices
  BY <1>1, <1>2, <1>3
<1>5. /\ \E f \in DOMAIN Gpu.families : Gpu.families[f].graphics
      /\ \E f \in DOMAIN Gpu.families : Gpu.families[f].present
      /\ \E t \in DOMAIN Gpu.memory : "visible" \in Gpu.memory[t]
      /\ \A t \in DOMAIN Gpu.memory : "coherent" \in Gpu.memory[t] => "visible" \in Gpu.memory[t]
  BY <1>2, <1>3, MachinesAssumption
<1> QED
  BY <1>4, <1>5 DEF GraphicsFamilies, PresentFamilies

(* The families that are chosen are the first of their kinds. *)
LEMMA FamiliesAre ==
  ASSUME machine \in Machines
  PROVE  /\ ChosenFamilies.graphics \in GraphicsFamilies
         /\ \A k \in GraphicsFamilies : ChosenFamilies.graphics <= k
         /\ ChosenFamilies.present \in PresentFamilies
         /\ ChosenFamilies.transfer = LeastOr(TransferFamilies)
         /\ TransferFamilies # {} => /\ ChosenFamilies.transfer \in TransferFamilies
                                    /\ \A k \in TransferFamilies : ChosenFamilies.transfer <= k
         /\ GraphicsFamilies \subseteq Nat \ {0} /\ PresentFamilies \subseteq Nat \ {0}
         /\ TransferFamilies \subseteq Nat \ {0}
<1>1. First(Gpu.families, LAMBDA f : f.graphics) = LeastOr(GraphicsFamilies)
  BY DEF First, LeastOr, GraphicsFamilies
<1>2. First(Gpu.families, LAMBDA f : f.present) = LeastOr(PresentFamilies)
  BY DEF First, LeastOr, PresentFamilies
<1>3. First(Gpu.families, LAMBDA f : f.transfer) = LeastOr(TransferFamilies)
  BY DEF First, LeastOr, TransferFamilies
<1>4. /\ ChosenFamilies.graphics = LeastOr(GraphicsFamilies)
      /\ ChosenFamilies.present = LeastOr(PresentFamilies)
      /\ ChosenFamilies.transfer = LeastOr(TransferFamilies)
  BY <1>1, <1>2, <1>3 DEF ChosenFamilies
<1>5. DOMAIN Gpu.families \subseteq Nat \ {0}
  <2>1. Gpu.families \in Seq([graphics : BOOLEAN, present : BOOLEAN, transfer : BOOLEAN])
    BY GpuIs DEF Devices
  <2> QED
    BY <2>1
<1>6. /\ GraphicsFamilies \subseteq Nat \ {0} /\ PresentFamilies \subseteq Nat \ {0}
      /\ TransferFamilies \subseteq Nat \ {0}
  BY <1>5 DEF GraphicsFamilies, PresentFamilies, TransferFamilies
<1>7. GraphicsFamilies # {} /\ PresentFamilies # {}
  BY GpuIs
<1> QED
  BY <1>4, <1>6, <1>7, LeastIs

LEMMA ConcatOfOnes ==
  ASSUME NEW x \in Nat, NEW y \in Nat, NEW z \in Nat
  PROVE  /\ <<x>> \o <<>> = <<x>> /\ <<x>> \o <<y>> = <<x, y>>
         /\ <<x, y>> \o <<>> = <<x, y>> /\ <<x, y>> \o <<z>> = <<x, y, z>>
<1>1. <<x>> \o <<y>> = <<x, y>>
  <2> DEFINE c == <<x>> \o <<y>>
             d == <<x, y>>
  <2>1. c \in Seq(Nat) /\ Len(c) = 2 /\ c[1] = x /\ c[2] = y
    OBVIOUS
  <2>2. d \in Seq(Nat) /\ Len(d) = 2 /\ d[1] = x /\ d[2] = y
    OBVIOUS
  <2> HIDE DEF c, d
  <2>3. \A k \in 1 .. Len(c) : c[k] = d[k]
    BY <2>1, <2>2
  <2>4. c = d
    BY <2>1, <2>2, <2>3, SeqEqual
  <2> QED
    BY <2>4 DEF c, d
<1>2. <<x, y>> \o <<z>> = <<x, y, z>>
  <2> DEFINE c == <<x, y>> \o <<z>>
             d == <<x, y, z>>
  <2>1. c \in Seq(Nat) /\ Len(c) = 3 /\ c[1] = x /\ c[2] = y /\ c[3] = z
    OBVIOUS
  <2>2. d \in Seq(Nat) /\ Len(d) = 3 /\ d[1] = x /\ d[2] = y /\ d[3] = z
    OBVIOUS
  <2> HIDE DEF c, d
  <2>3. \A k \in 1 .. Len(c) : c[k] = d[k]
    BY <2>1, <2>2
  <2>4. c = d
    BY <2>1, <2>2, <2>3, SeqEqual
  <2> QED
    BY <2>4 DEF c, d
<1> QED
  BY <1>1, <1>2

(* On a plain machine each family is asked once.  The first that draws is  *)
(* not before the first that transfers and not behind the one that         *)
(* presents, so the latter two are only the same if all three are.         *)
LEMMA PlainAsksOnce ==
  ASSUME machine \in Machines, Plain, families = ChosenFamilies
  PROVE  QueuesGranted(families)
<1> DEFINE g == families.graphics
           p == families.present
           t == families.transfer
<1>1. GraphicsFamilies \subseteq TransferFamilies /\ PresentFamilies \subseteq GraphicsFamilies
  BY DEF Plain, GraphicsFamilies, PresentFamilies, TransferFamilies
<1>2. g \in GraphicsFamilies /\ p \in GraphicsFamilies /\ t \in TransferFamilies
  BY <1>1, FamiliesAre
<1>3. g \in Nat \ {0} /\ p \in Nat \ {0} /\ t \in Nat \ {0}
  BY <1>2, FamiliesAre
<1>4. t <= g /\ g <= p
  BY <1>1, <1>2, FamiliesAre
<1> DEFINE infos == QueueCreateInfos(families)
<1>0. SUFFICES IsInjective(infos) /\ t # -1
  BY DEF QueuesGranted
<1>5. infos =
        <<g>> \o (IF p # g THEN <<p>> ELSE <<>>) \o (IF t # g THEN <<t>> ELSE <<>>)
  BY DEF QueueCreateInfos
<1> HIDE DEF g, p, t, infos
<1>6. CASE p = g /\ t = g
  <2>1. infos = <<g>>
    BY <1>5, <1>6
  <2> QED
    BY <1>3, <2>1 DEF IsInjective, t
<1>7. CASE p # g /\ t = g
  <2>0. infos = (<<g>> \o <<p>>) \o <<>>
    BY <1>5, <1>7
  <2>1. infos = <<g, p>>
    BY Zenon, <1>3, <2>0, ConcatOfOnes
  <2> QED
    BY <1>3, <1>7, <2>1 DEF IsInjective, t
<1>8. CASE p = g /\ t # g
  <2>1. infos = <<g, t>>
    BY <1>3, <1>5, <1>8, ConcatOfOnes
  <2> QED
    BY <1>3, <1>8, <2>1 DEF IsInjective, t
<1>9. CASE p # g /\ t # g
  <2>0. infos = (<<g>> \o <<p>>) \o <<t>>
    BY <1>5, <1>9
  <2>1. infos = <<g, p, t>>
    <3>1. <<g>> \o <<p>> = <<g, p>>
      BY Zenon, <1>3, ConcatOfOnes
    <3>2. <<g, p>> \o <<t>> = <<g, p, t>>
      BY Zenon, <1>3, ConcatOfOnes
    <3> QED
      BY Zenon, <2>0, <3>1, <3>2
  <2>2. g # p /\ g # t /\ p # t
    BY <1>3, <1>4, <1>9
  <2> QED
    BY <1>3, <2>1, <2>2 DEF IsInjective, t
<1> QED
  BY <1>6, <1>7, <1>8, <1>9

(* The memory that is mapped can be. *)
LEMMA MappedIsVisible ==
  ASSUME machine \in Machines, NEW flags \in {{"visible"}, {"visible", "coherent"}}
  PROVE  GetMemTypeIdx(flags) # -1 /\ "visible" \in Gpu.memory[GetMemTypeIdx(flags)]
<1>1. GetMemTypeIdx(flags) = LeastOr(TypesWith(flags))
  BY DEF GetMemTypeIdx, First, LeastOr, TypesWith
<1>2. Gpu.memory \in Seq(SUBSET {"visible", "coherent"})
  BY GpuIs DEF Devices
<1>3. TypesWith(flags) \subseteq Nat \ {0}
  BY <1>2 DEF TypesWith
<1>4. TypesWith(flags) # {}
  BY GpuIs DEF TypesWith
<1>5. \A k \in TypesWith(flags) : "visible" \in Gpu.memory[k]
  BY GpuIs DEF TypesWith
<1> QED
  BY <1>1, <1>3, <1>4, <1>5, LeastIs

-----------------------------------------------------------------------------
(* The inductive invariant: what the steps of init that are done have come *)
(* to.  The choices stay those of the machine, and a step is only reached  *)
(* with what the one before made sure of.                                  *)
AfterLoad == {"instance", "families", "device", "swapchain", "buffers", "sync", "ready"}
AfterFamilies == {"device", "swapchain", "buffers", "sync", "ready"}
AfterDevice == {"swapchain", "buffers", "sync", "ready"}

Inv ==
  /\ machine \in Machines
  /\ step \in {"load", "failed"} \cup AfterLoad
  /\ broken \in {"no", "instance", "queue families"} /\ (Plain => broken # "queue families")
  /\ step \in AfterLoad => machine.missing = {} /\ loaded = Functions
  /\ step \in AfterFamilies => families = ChosenFamilies
  /\ step \in AfterDevice => families.transfer # -1
  /\ step \in {"sync", "ready"} =>
       \A b \in DOMAIN memory :
         memory[b] \in {GetMemTypeIdx({"visible"}), GetMemTypeIdx({"visible", "coherent"})}

LEMMA InvFits ==
  ASSUME Inv
  PROVE  FitsTheMachine
<1>1. broken # "null function" /\ (step = "ready" => machine.missing = {} /\ loaded = Functions)
  BY DEF Inv, AfterLoad
<1>2. Plain => broken # "queue families"
  BY DEF Inv
<1>3. ASSUME step = "ready"
      PROVE  /\ Gpu.families[families.graphics].graphics
             /\ Gpu.families[families.present].present
             /\ Gpu.families[families.transfer].transfer
  <2>1. families = ChosenFamilies /\ families.transfer # -1 /\ machine \in Machines
    BY <1>3 DEF Inv, AfterFamilies, AfterDevice
  <2>2. families.graphics \in GraphicsFamilies /\ families.present \in PresentFamilies
    BY <2>1, FamiliesAre
  <2>3. TransferFamilies # {}
    BY <2>1, FamiliesAre DEF LeastOr
  <2>4. families.transfer \in TransferFamilies
    BY <2>1, <2>3, FamiliesAre
  <2> QED
    BY <2>2, <2>4 DEF GraphicsFamilies, PresentFamilies, TransferFamilies
<1>4. ASSUME step \in {"sync", "ready"}, NEW b \in DOMAIN memory
      PROVE  memory[b] # -1 /\ "visible" \in Gpu.memory[memory[b]]
  <2>1. PICK flags \in {{"visible"}, {"visible", "coherent"}} : memory[b] = GetMemTypeIdx(flags)
    BY <1>4 DEF Inv
  <2> QED
    BY <2>1, MappedIsVisible DEF Inv
<1> QED
  BY <1>1, <1>2, <1>3, <1>4 DEF FitsTheMachine

LEMMA InitInv ==
  ASSUME Init
  PROVE  Inv
  BY DEF Init, InitMachine, Inv, AfterLoad, AfterFamilies, AfterDevice

LEMMA MachineStays ==
  ASSUME UNCHANGED machine
  PROVE  /\ Gpu' = Gpu /\ (Plain' <=> Plain) /\ ChosenFamilies' = ChosenFamilies
         /\ \A flags : GetMemTypeIdx(flags)' = GetMemTypeIdx(flags)
<1>1. Gpu' = Gpu
  BY DEF Gpu, First
<1> QED
  BY <1>1 DEF Plain, ChosenFamilies, First, GetMemTypeIdx

(* A step that init takes after loading finds all functions there. *)
LEMMA DoesCalls ==
  ASSUME Inv, NEW from \in AfterLoad, NEW to, NEW calls, calls \subseteq Functions, Does(from, calls, to)
  PROVE  step = from /\ step' = to /\ broken = "no" /\ broken' = "no"
  BY DEF Inv, Does, Callable

LEMMA LoadKeeps ==
  ASSUME Inv, Load
  PROVE  Inv'
<1> DEFINE missing == {k \in DOMAIN LoadOrder : LoadOrder[k] \in machine.missing}
<1>1. /\ step = "load" /\ UNCHANGED <<machine, families, memory, images, broken>>
      /\ loaded' = {LoadOrder[k] : k \in {j \in DOMAIN LoadOrder : \A x \in missing : j < x}}
      /\ step' = IF missing = {} THEN "instance" ELSE "failed"
  BY DEF Load
<1>2. CASE missing = {}
  <2>1. loaded' = Functions
    BY <1>1, <1>2 DEF Functions, ToSet
  <2>2. machine.missing = {}
    <3>1. machine.missing \subseteq Functions
      BY MachinesAssumption DEF Inv
    <3> QED
      BY <1>2, <3>1 DEF Functions, ToSet
  <2> QED
    BY <1>1, <1>2, <2>1, <2>2, MachineStays DEF Inv, AfterLoad, AfterFamilies, AfterDevice
<1>3. CASE missing # {}
  <2>1. step' = "failed"
    BY <1>1, <1>3
  <2> QED
    BY <1>1, <2>1, MachineStays DEF Inv, AfterLoad, AfterFamilies, AfterDevice
<1> QED
  BY <1>2, <1>3

LEMMA InitDeviceKeeps ==
  ASSUME Inv, InitDevice
  PROVE  Inv'
<1> USE DEF AfterLoad, AfterFamilies, AfterDevice
<1>1. CASE Load
  BY <1>1, LoadKeeps
<1>2. CASE CreateInstance
  <2>1. /\ UNCHANGED <<machine, loaded, families, memory>>
        /\ step = "instance" /\ step' = "families" /\ broken' = "no"
    BY <1>2, DoesCalls, CallsAreLookedUp DEF CreateInstance
  <2> QED
    BY <2>1, MachineStays DEF Inv
<1>3. CASE ChooseFamilies
  <2>1. /\ UNCHANGED <<machine, loaded, memory>> /\ families' = ChosenFamilies
        /\ step = "families" /\ step' = "device" /\ broken' = "no"
    BY <1>3, DoesCalls, CallsAreLookedUp DEF ChooseFamilies
  <2> QED
    BY <2>1, MachineStays DEF Inv
<1>4. CASE CreateDevice
  <2>1. /\ UNCHANGED <<machine, loaded, families, memory>> /\ families.transfer # -1
        /\ step = "device" /\ step' = "swapchain" /\ broken' = "no"
    BY <1>4, DoesCalls, CallsAreLookedUp DEF CreateDevice, QueuesGranted
  <2> QED
    BY <2>1, MachineStays DEF Inv
<1>5. CASE CreateDeviceFails
  <2>1. /\ UNCHANGED <<machine, loaded, families, memory, step>>
        /\ step = "device" /\ broken' = "queue families"
        /\ ~QueuesGranted(families)
    BY <1>5 DEF CreateDeviceFails, initVars
  <2>2. ~Plain
    BY <2>1, PlainAsksOnce DEF Inv
  <2> QED
    BY <2>1, <2>2, MachineStays DEF Inv
<1>6. CASE CreateSwapchain
  <2>1. /\ UNCHANGED <<machine, loaded, families, memory>>
        /\ step = "swapchain" /\ step' = "buffers" /\ broken' = "no"
    BY <1>6, DoesCalls, CallsAreLookedUp DEF CreateSwapchain
  <2> QED
    BY <2>1, MachineStays DEF Inv
<1>7. CASE CreateBuffers
  <2>1. /\ UNCHANGED <<machine, loaded, families>>
        /\ step = "buffers" /\ step' = "sync" /\ broken' = "no"
        /\ memory' = [uniform |-> GetMemTypeIdx({"visible"}), vertex |-> GetMemTypeIdx({"visible"}),
                      upload |-> GetMemTypeIdx({"visible", "coherent"})]
    BY <1>7, DoesCalls, CallsAreLookedUp DEF CreateBuffers
  <2>2. \A b \in DOMAIN memory' :
          memory'[b] \in {GetMemTypeIdx({"visible"}), GetMemTypeIdx({"visible", "coherent"})}
    BY <2>1
  <2> QED
    BY <2>1, <2>2, MachineStays DEF Inv
<1>9. CASE CreateInstanceFails
  BY <1>9, MachineStays DEF CreateInstanceFails, initVars, Inv
<1>8. CASE CreateSync
  <2>1. /\ UNCHANGED <<machine, loaded, families, memory>>
        /\ step = "sync" /\ step' = "ready" /\ broken' = "no"
    BY <1>8, DoesCalls, CallsAreLookedUp DEF CreateSync
  <2> QED
    BY <2>1, MachineStays DEF Inv
<1> QED
  BY <1>1, <1>2, <1>3, <1>4, <1>5, <1>6, <1>7, <1>8, <1>9 DEF InitDevice

LEMMA SameInv ==
  ASSUME Inv, UNCHANGED deviceVars
  PROVE  Inv'
  BY MachineStays DEF Inv, deviceVars, initVars

(* Only init touches the device. *)
LEMMA NextInv ==
  ASSUME Inv, [Next]_vars
  PROVE  Inv'
<1>1. CASE InitVulkan
  BY <1>1, InitDeviceKeeps DEF InitVulkan
<1>2. CASE InitGpu \/ GpuCopies
  BY <1>2, SameInv DEF InitGpu, GpuCopies
<1>3. CASE CreateStep
  BY <1>3, SameInv DEF CreateStep, DepthStencilStep, RenderPassStep, ResourcesSetStep, UniformStep,
     SamplerStep, ViewStep, BindStep, LayoutStep, VerticesStep, IndicesStep, PipelineStep,
     TextureStep, TextureDone, Creates, Makes
<1>4. CASE FrameStep
  BY <1>4, SameInv DEF FrameStep, BeginStep, BeginPassStep, EndPassStep, SetPipelineStep,
     SetVerticesStep, SetIndicesStep, SetResourceStep, DrawStep, Creates, Makes
<1>5. CASE UNCHANGED vars
  BY <1>5, SameInv DEF vars
<1> QED
  BY <1>1, <1>2, <1>3, <1>4, <1>5 DEF Next

-----------------------------------------------------------------------------
(* The theorems. *)

(* Bringing Vulkan up never leaves what its steps rely on. *)
THEOREM Invariance == Spec => []Inv
<1>1. Init => Inv
  BY InitInv
<1>2. Inv /\ [Next]_vars => Inv'
  BY NextInv
<1> QED
  BY <1>1, <1>2, PTL DEF Spec

(* On every machine: no function is called that was not loaded, and none   *)
(* is missing in the end; a plain machine is asked for each family once    *)
(* and its queues can do what they are for; what is mapped can be mapped   *)
(* (vulkan_loader_init and Vulkan_t::init).                                *)
THEOREM Fits == Spec => []FitsTheMachine
<1>1. Inv => FitsTheMachine
  BY InvFits
<1> QED
  BY <1>1, Invariance, PTL

=============================================================================
