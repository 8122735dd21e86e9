------------------------- MODULE VulkanFrameProofs -------------------------
(***************************************************************************)
(* What holds of VulkanFrame for every number of images, however often the *)
(* window changes, and whatever the driver chooses.                        *)
(*                                                                         *)
(* Two things keep the GPU and the loop apart.  The fences keep a command  *)
(* buffer from being recorded while it executes.  The semaphore, which may *)
(* not be handed to an acquire before the last batch has waited for it,    *)
(* lets one batch at most wait: a batch that has not started is the last,  *)
(* and one that has is the first.  The images to be presented are those of *)
(* the batches in their order, so none of them goes back to the display    *)
(* before its batch is done.                                               *)
(***************************************************************************)
EXTENDS VulkanFrame, SequenceTheorems, TLAPS

-----------------------------------------------------------------------------
(* Sequences. *)

(* What is in a sequence. *)
LEMMA ToSetIs ==
  ASSUME NEW S, NEW s \in Seq(S)
  PROVE  \A x : x \in ToSet(s) <=> \E k \in 1 .. Len(s) : x = s[k]
  BY DEF ToSet

LEMMA ToSetAppend ==
  ASSUME NEW S, NEW s \in Seq(S), NEW e \in S
  PROVE  ToSet(Append(s, e)) = ToSet(s) \cup {e}
<1>1. /\ Append(s, e) \in Seq(S) /\ Len(Append(s, e)) = Len(s) + 1
      /\ \A k \in 1 .. Len(s) : Append(s, e)[k] = s[k]
      /\ Append(s, e)[Len(s) + 1] = e
  BY AppendProperties
<1>2. Len(s) \in Nat
  OBVIOUS
<1> DEFINE t == Append(s, e)
<1>3. \A x : x \in ToSet(t) <=> \E k \in 1 .. Len(t) : x = t[k]
  BY <1>1, ToSetIs
<1>4. \A x : x \in ToSet(s) <=> \E k \in 1 .. Len(s) : x = s[k]
  BY ToSetIs
<1> HIDE DEF t
<1>5. ASSUME NEW x \in ToSet(t)
      PROVE  x \in ToSet(s) \cup {e}
  BY <1>1, <1>2, <1>3, <1>4, <1>5 DEF t
<1>6. ASSUME NEW x \in ToSet(s) \cup {e}
      PROVE  x \in ToSet(t)
  BY <1>1, <1>2, <1>3, <1>4, <1>6 DEF t
<1> QED
  BY <1>5, <1>6 DEF t

LEMMA AppendNumber ==
  ASSUME NEW s \in Seq(Int), NEW e \in Int
  PROVE  /\ Append(s, e) \in Seq(Int) /\ Len(Append(s, e)) = Len(s) + 1
         /\ \A k \in 1 .. Len(s) : Append(s, e)[k] = s[k]
         /\ Append(s, e)[Len(s) + 1] = e
  BY AppendProperties

LEMMA TailIs ==
  ASSUME NEW S, NEW s \in Seq(S), s # <<>>
  PROVE  /\ Tail(s) \in Seq(S) /\ Len(s) \in Nat \ {0} /\ Len(Tail(s)) = Len(s) - 1
         /\ Head(s) = s[1] /\ s[1] \in S
         /\ \A k \in 1 .. Len(s) - 1 : Tail(s)[k] = s[k + 1]
         /\ ToSet(Tail(s)) \subseteq ToSet(s)
<1>1. /\ Tail(s) \in Seq(S) /\ Len(s) \in Nat \ {0} /\ Len(Tail(s)) = Len(s) - 1
      /\ Head(s) = s[1] /\ s[1] \in S
      /\ \A k \in 1 .. Len(s) - 1 : Tail(s)[k] = s[k + 1]
  BY HeadTailProperties
<1>2. ASSUME NEW x \in ToSet(Tail(s))
      PROVE  x \in ToSet(s)
  <2>1. PICK j \in 1 .. Len(Tail(s)) : x = Tail(s)[j]
    <3> DEFINE t == Tail(s)
    <3>1. t \in Seq(S)
      BY <1>1
    <3> HIDE DEF t
    <3>2. \A y : y \in ToSet(t) <=> \E k \in 1 .. Len(t) : y = t[k]
      BY <3>1, ToSetIs
    <3> QED
      BY <1>2, <3>2 DEF t
  <2>2. j + 1 \in 1 .. Len(s) /\ x = s[j + 1]
    BY <1>1, <2>1
  <2> QED
    BY <2>2, ToSetIs
<1> QED
  BY <1>1, <1>2

-----------------------------------------------------------------------------
(* The inductive invariant. *)

Submitted == [image : Int, views : Int, waits : {TRUE}, started : BOOLEAN]

Shapes ==
  /\ queue \in Seq(Submitted)
  /\ presents \in Seq(Int) /\ display \in Seq(Int)
  /\ \E m \in Nat : Created = 0 .. m - 1

(* The fence of an image is reset as long as its command buffer is being   *)
(* recorded or executed, and it is in one batch at most.                   *)
Fenced ==
  /\ \A k \in 1 .. Len(queue) : ~fences[queue[k].image]
  /\ \A k, l \in 1 .. Len(queue) : queue[k].image = queue[l].image => k = l
  /\ pc = "record" => image # NoImage /\ ~fences[image]

AllStarted == \A k \in 1 .. Len(queue) : queue[k].started

(* The semaphore that an image is available is for the last batch, which   *)
(* is the only one that may not have started, or for the one to come.      *)
TakingTurns ==
  /\ \A k \in 1 .. Len(queue) : queue[k].started => k = 1
  /\ \A k \in 1 .. Len(queue) : ~queue[k].started =>
       k = Len(queue) /\ queue[k].image = image /\ available # "unsignaled" /\ pc # "record"
  /\ available # "unsignaled" /\ AllStarted =>
       pc # "frame" /\ image \in held /\ image \notin ToSet(presents)
  /\ available = "signaled" => image \notin ToSet(display)

(* What is to be presented are the images of the batches in their order,   *)
(* after one that is finished and not presented yet.                       *)
Ahead == IF finished THEN 1 ELSE 0
Handed ==
  /\ Len(presents) = Len(queue) + Ahead
  /\ \A k \in 1 .. Len(queue) : presents[k + Ahead] = queue[k].image
  /\ \A k, l \in 1 .. Len(presents) : presents[k] = presents[l] => k = l
  /\ ToSet(presents) \subseteq held

Views ==
  ResizesPasses => framebuffers = swapchain.id /\ \A k \in 1 .. Len(queue) : queue[k].views = swapchain.id

(* While the window keeps its size the loop has an image and a semaphore,  *)
(* and one queue does not start a batch before the last one is presented.  *)
InTime ==
  /\ outOfDate => swapchain.id < MaxResizes
  /\ pc # "frame" /\ ~outOfDate => available # "unsignaled" /\ image # NoImage /\ AllStarted
  /\ oneQueue /\ queue # <<>> /\ queue[1].started => ~finished

Drawn ==
  \A k \in 1 .. Len(queue) : queue[k].started => queue[k].image \in held \ ToSet(display)

Inv ==
  /\ TypeOK /\ Shapes /\ Fenced /\ CommandBufferIdle /\ TakingTurns /\ Handed
  /\ Views /\ InTime /\ Drawn /\ OnlyTheSemaphore

LEMMA Types ==
  ASSUME Inv
  PROVE  /\ Len(queue) \in Nat /\ Len(presents) \in Nat /\ DOMAIN queue = 1 .. Len(queue)
         /\ \A k \in 1 .. Len(queue) : queue[k] \in Submitted
         /\ \A x : x \in ToSet(presents) <=> \E k \in 1 .. Len(presents) : x = presents[k]
         /\ ToSet(display) \subseteq Images /\ Images \subseteq Int
         /\ swapchain.id \in Nat
<1>1. queue \in Seq(Submitted) /\ presents \in Seq(Int)
  BY DEF Inv, Shapes
<1>2. /\ Len(queue) \in Nat /\ DOMAIN queue = 1 .. Len(queue)
      /\ \A k \in 1 .. Len(queue) : queue[k] \in Submitted
  BY <1>1, LenProperties, ElementOfSeq
<1>3. /\ Len(presents) \in Nat
      /\ \A x : x \in ToSet(presents) <=> \E k \in 1 .. Len(presents) : x = presents[k]
  BY <1>1, ToSetIs, LenProperties
<1>4. ToSet(display) \subseteq Images /\ Images \subseteq Int /\ swapchain.id \in Nat
  BY VulkanAssumption DEF Inv, TypeOK, Images
<1> QED
  BY <1>2, <1>3, <1>4

LEMMA InitInv == Init => Inv
<1> SUFFICES ASSUME Init
             PROVE  Inv
  OBVIOUS
<1>1. PICK n \in ImageCounts :
        /\ swapchain = [id |-> 0, count |-> n]
        /\ fences = [k \in 0 .. n - 1 |-> TRUE]
  BY DEF Init
<1>2. n \in Nat
  BY VulkanAssumption
<1>3. /\ queue = <<>> /\ presents = <<>> /\ display = <<>> /\ held = {} /\ image = NoImage
      /\ pc = "frame" /\ framebuffers = 0 /\ available = "unsignaled" /\ finished = FALSE
      /\ oneQueue \in BOOLEAN /\ outOfDate = FALSE /\ broken = "no"
  BY DEF Init
<1>4. ToSet(presents) = {} /\ ToSet(display) = {} /\ Len(queue) = 0 /\ Len(presents) = 0
  BY <1>3 DEF ToSet
<1>5. TypeOK
  <2>1. Images = 0 .. n - 1 /\ Created = 0 .. n - 1
    BY <1>1, <1>2 DEF Images, Created
  <2>2. swapchain.id \in 0 .. MaxResizes /\ swapchain.count \in ImageCounts
        /\ framebuffers \in 0 .. swapchain.id
    BY <1>1, <1>3, VulkanAssumption
  <2>3. fences \in [Created -> BOOLEAN]
    BY <1>1, <2>1
  <2>4. DOMAIN queue = {}
    BY <1>3
  <2> QED
    BY <1>3, <1>4, <2>1, <2>2, <2>3, <2>4 DEF TypeOK
<1>6. Shapes
  BY <1>1, <1>2, <1>3 DEF Shapes, Created
<1> QED
  BY <1>1, <1>3, <1>4, <1>5, <1>6
  DEF Inv, Fenced, CommandBufferIdle, TakingTurns, Handed, Ahead, Views, InTime, Drawn, OnlyTheSemaphore

(* A rule that is broken may be stated if it is the semaphore's, or the    *)
(* window has changed or presenting has a queue of its own.                *)
LEMMA BreaksKeepsInv ==
  ASSUME Inv, NEW why, Breaks(why), oneQueue /\ ~outOfDate => why = "semaphore in use"
  PROVE  Inv'
<1>1. /\ broken' = why
      /\ UNCHANGED <<pc, swapchain, image, fences, framebuffers>>
      /\ UNCHANGED <<available, finished, queue, presents, oneQueue>>
      /\ UNCHANGED <<held, display, outOfDate>>
  BY DEF Breaks, loopVars, gpuVars, displayVars
<1>2. TypeOK' /\ Shapes'
  BY <1>1 DEF Inv, TypeOK, Shapes, Images, Created
<1>3. Fenced' /\ CommandBufferIdle' /\ TakingTurns' /\ Handed'
  BY <1>1 DEF Inv, Fenced, CommandBufferIdle, TakingTurns, Handed, Ahead, AllStarted
<1>4. Views' /\ InTime' /\ Drawn' /\ OnlyTheSemaphore'
  BY <1>1 DEF Inv, Views, InTime, Drawn, OnlyTheSemaphore, AllStarted
<1> QED
  BY <1>2, <1>3, <1>4 DEF Inv

LEMMA AcquireKeepsInv ==
  ASSUME Inv, Acquire
  PROVE  Inv'
<1> USE DEF Inv
<1>1. CASE ~SemaphoreIdle
  <2>1. Breaks("semaphore in use")
    BY <1>1 DEF Acquire
  <2> QED
    BY <2>1, BreaksKeepsInv
<1>2. CASE SemaphoreIdle
  <2>1. PICK n \in Images :
          /\ Acquirable(n)
          /\ image' = n
          /\ held' = held \cup {n}
          /\ available' = "pending"
          /\ pc' = "begin"
          /\ UNCHANGED <<swapchain, fences, framebuffers, finished, queue, presents,
                         oneQueue, display, outOfDate, broken>>
    BY <1>2 DEF Acquire
  <2>2. pc = "frame" /\ broken = "no" /\ AllStarted
    BY <1>2, Types DEF Acquire, SemaphoreIdle, AllStarted
  <2>3. n \notin held /\ n # NoImage
    BY <2>1, Types DEF Acquirable, Images, NoImage
  <2>4. TypeOK' /\ Shapes'
    BY <2>1 DEF TypeOK, Shapes, Images, Created
  <2>5. Fenced' /\ CommandBufferIdle'
    BY <2>1 DEF Fenced, CommandBufferIdle
  <2>6. TakingTurns'
    BY <2>1, <2>2, <2>3 DEF TakingTurns, AllStarted, Handed
  <2>7. Handed' /\ Views' /\ Drawn' /\ OnlyTheSemaphore'
    BY <2>1, <2>2 DEF Handed, Ahead, Views, Drawn, OnlyTheSemaphore
  <2>8. InTime'
    BY <2>1, <2>2, <2>3 DEF InTime, AllStarted
  <2> QED
    BY <2>4, <2>5, <2>6, <2>7, <2>8
<1> QED
  BY <1>1, <1>2

LEMMA AcquireFailsKeepsInv ==
  ASSUME Inv, AcquireFails
  PROVE  Inv'
<1> USE DEF Inv
<1>1. /\ pc = "frame" /\ broken = "no" /\ outOfDate /\ pc' = "begin"
      /\ UNCHANGED <<swapchain, image, fences, framebuffers>>
      /\ UNCHANGED <<available, finished, queue, presents, oneQueue>>
      /\ UNCHANGED <<held, display, outOfDate, broken>>
  BY DEF AcquireFails, gpuVars, displayVars
<1>2. TypeOK' /\ Shapes'
  BY <1>1 DEF TypeOK, Shapes, Images, Created
<1>3. Fenced' /\ CommandBufferIdle' /\ Handed'
  BY <1>1 DEF Fenced, CommandBufferIdle, Handed, Ahead
<1>4. TakingTurns'
  BY <1>1 DEF TakingTurns, AllStarted
<1>5. Views' /\ InTime' /\ Drawn' /\ OnlyTheSemaphore'
  BY <1>1 DEF Views, InTime, Drawn, OnlyTheSemaphore
<1> QED
  BY <1>2, <1>3, <1>4, <1>5

(* No batch has the command buffer of an image whose fence is signaled. *)
LEMMA CmdBeginKeepsInv ==
  ASSUME Inv, CmdBegin
  PROVE  Inv'
<1> USE DEF Inv
<1>1. pc = "begin" /\ broken = "no"
  BY DEF CmdBegin
<1>2. CASE image = NoImage
  <2>1. Breaks("no image")
    BY <1>2 DEF CmdBegin
  <2>2. outOfDate
    BY <1>1, <1>2 DEF InTime
  <2> QED
    BY <2>1, <2>2, BreaksKeepsInv
<1>3. CASE image # NoImage
  <2>1. /\ fences[image] /\ fences' = [fences EXCEPT ![image] = FALSE]
        /\ pc' = "record"
        /\ UNCHANGED <<swapchain, image, framebuffers, broken>>
        /\ UNCHANGED <<available, finished, queue, presents, oneQueue>>
        /\ UNCHANGED <<held, display, outOfDate>>
    BY <1>3 DEF CmdBegin, gpuVars, displayVars
  <2>2. image \in Created /\ Created' = Created /\ Images' = Images
    BY <1>3, <2>1 DEF TypeOK, Created, Images
  <2>3. \A n \in Created : fences'[n] = IF n = image THEN FALSE ELSE fences[n]
    BY <2>1, <2>2 DEF Created
  <2>4. \A k \in 1 .. Len(queue) : queue[k].image # image /\ queue[k].image \in Created
    BY <2>1, Types DEF Fenced, TypeOK
  <2>5. TypeOK'
    <3>1. fences' \in [Created -> BOOLEAN]
      BY <2>1, <2>2 DEF TypeOK, Created
    <3> QED
      BY <2>1, <2>2, <3>1 DEF TypeOK
  <2>6. Shapes' /\ CommandBufferIdle' /\ Handed' /\ Views' /\ Drawn'
    BY <2>1, <2>2, <2>4, Types DEF Shapes, CommandBufferIdle, Handed, Ahead, Views, Drawn
  <2>7. Fenced'
    BY <1>3, <2>1, <2>2, <2>3, <2>4 DEF Fenced
  <2>8. TakingTurns'
    <3>1. AllStarted' <=> AllStarted
      BY <2>1 DEF AllStarted
    <3> QED
      BY <1>1, <2>1, <2>4, <3>1 DEF TakingTurns
  <2>9. InTime' /\ OnlyTheSemaphore'
    BY <1>1, <2>1 DEF InTime, OnlyTheSemaphore, AllStarted
  <2> QED
    BY <2>5, <2>6, <2>7, <2>8, <2>9
<1> QED
  BY <1>2, <1>3

(* The batch is the only one for its image, and waits for the semaphore.   *)
LEMMA CmdEndKeepsInv ==
  ASSUME Inv, CmdEnd
  PROVE  Inv'
<1> USE DEF Inv
<1>1. pc = "record" /\ broken = "no"
  BY DEF CmdEnd
<1>2. CASE available = "unsignaled"
  <2>1. Breaks("nothing to wait for")
    BY <1>2 DEF CmdEnd
  <2>2. outOfDate
    BY <1>1, <1>2 DEF InTime
  <2> QED
    BY <2>1, <2>2, BreaksKeepsInv
<1>3. CASE available # "unsignaled"
  <2>1. /\ queue' = Append(queue, Batch) /\ presents' = Append(presents, image)
        /\ pc' = "frame"
        /\ UNCHANGED <<swapchain, image, fences, framebuffers, available, finished,
                       oneQueue, broken>>
        /\ UNCHANGED <<held, display, outOfDate>>
    BY <1>3 DEF CmdEnd, displayVars
  <2> DEFINE n == Len(queue)
  <2>2. n \in Nat /\ Len(presents) \in Nat /\ AllStarted /\ n <= 1
    <3>1. AllStarted
      BY <1>1 DEF AllStarted, TakingTurns
    <3> QED
      BY <3>1, Types DEF AllStarted, TakingTurns
  <2>3. image \in held /\ image \notin ToSet(presents) /\ image # NoImage
    BY <1>1, <1>3, <2>2 DEF TakingTurns, Fenced
  <2>4. image \in Int /\ image \in Created /\ ~fences[image] /\ image \in Images
    BY <1>1, <2>3, Types DEF Fenced, TypeOK
  <2>5. Batch \in Submitted /\ Batch.image = image /\ Batch.views = framebuffers /\ ~Batch.started
    <3>1. framebuffers \in Int
      BY Types DEF TypeOK
    <3> QED
      BY <2>4, <3>1 DEF Batch, Submitted
  <2>6. /\ queue' \in Seq(Submitted) /\ Len(queue') = n + 1
        /\ \A k \in 1 .. n : queue'[k] = queue[k]
        /\ queue'[n + 1] = Batch
    BY <2>1, <2>5, AppendProperties DEF Shapes
  <2>7. /\ presents' \in Seq(Int) /\ Len(presents') = Len(presents) + 1
        /\ \A k \in 1 .. Len(presents) : presents'[k] = presents[k]
        /\ presents'[Len(presents) + 1] = image
        /\ ToSet(presents') = ToSet(presents) \cup {image}
    <3>1. presents \in Seq(Int) /\ image \in Int /\ presents' = Append(presents, image)
      BY <2>1, <2>4 DEF Shapes
    <3> DEFINE s == presents
               t == presents'
    <3>2. s \in Seq(Int) /\ t = Append(s, image)
      BY <3>1
    <3> HIDE DEF s, t
    <3>3. /\ t \in Seq(Int) /\ Len(t) = Len(s) + 1
          /\ \A k \in 1 .. Len(s) : t[k] = s[k]
          /\ t[Len(s) + 1] = image
      BY <3>1, <3>2, AppendNumber
    <3>4. ToSet(t) = ToSet(s) \cup {image}
      <4>1. image \in Int
        BY <3>1
      <4> QED
        BY <3>2, <4>1, ToSetAppend
    <3> QED
      BY <3>3, <3>4, Zenon DEF s, t
  <2> HIDE DEF n
  <2>8. \A k \in 1 .. Len(queue') : 
          \/ k \in 1 .. n /\ queue'[k] = queue[k]
          \/ k = n + 1 /\ queue'[k] = Batch
    BY <2>2, <2>6
  <2>9. \A k \in 1 .. n : queue[k].image # image
    BY <1>1, Types DEF CommandBufferIdle, n
  <2>10. TypeOK'
    <3>1. \A k \in DOMAIN queue' : queue'[k].image \in Created'
      <4>1. DOMAIN queue' = 1 .. Len(queue')
        BY <2>6
      <4>2. \A k \in 1 .. n : queue[k].image \in Created
        BY Types DEF TypeOK, n
      <4> QED
        BY <2>1, <2>4, <2>5, <2>8, <4>1, <4>2 DEF Created
    <3> QED
      BY <2>1, <2>4, <2>7, <3>1 DEF TypeOK, Images, Created
  <2>11. Shapes' /\ CommandBufferIdle'
    BY <2>1, <2>6, <2>7 DEF Shapes, CommandBufferIdle, Created
  <2>12. Fenced'
    <3>1. \A k \in 1 .. Len(queue') : ~fences[queue'[k].image]
      BY <2>4, <2>5, <2>8 DEF Fenced, n
    <3>2. \A k, l \in 1 .. Len(queue') : queue'[k].image = queue'[l].image => k = l
      BY <2>2, <2>5, <2>8, <2>9 DEF Fenced, n
    <3> QED
      BY <2>1, <3>1, <3>2 DEF Fenced
  <2>13. TakingTurns'
    <3>1. \A k \in 1 .. Len(queue') : queue'[k].started => k = 1
      BY <2>5, <2>8 DEF TakingTurns, n
    <3>2. \A k \in 1 .. Len(queue') : ~queue'[k].started => k = Len(queue') /\ queue'[k].image = image
      BY <2>2, <2>5, <2>6, <2>8 DEF AllStarted, n
    <3>3. ~AllStarted'
      BY <2>2, <2>5, <2>6 DEF AllStarted
    <3>4. available = "signaled" => image \notin ToSet(display)
      BY DEF TakingTurns
    <3> QED
      BY <1>3, <2>1, <3>1, <3>2, <3>3, <3>4 DEF TakingTurns
  <2>14. Handed'
    <3>1. Len(presents) = n + Ahead /\ Ahead' = Ahead /\ Ahead \in Nat
      BY <2>1 DEF Handed, Ahead, n
    <3>2. \A k \in 1 .. Len(queue') : presents'[k + Ahead] = queue'[k].image
      <4> TAKE k \in 1 .. Len(queue')
      <4>1. CASE k \in 1 .. n /\ queue'[k] = queue[k]
        <5>1. k + Ahead \in 1 .. Len(presents)
          BY <2>2, <3>1, <4>1
        <5> QED
          BY <2>7, <4>1, <5>1 DEF Handed, n
      <4>2. CASE k = n + 1 /\ queue'[k] = Batch
        <5>1. k + Ahead = Len(presents) + 1
          BY <2>2, <3>1, <4>2
        <5> QED
          BY <2>5, <2>7, <4>2, <5>1
      <4> QED
        BY <2>8, <4>1, <4>2
    <3>3. \A k \in 1 .. Len(presents) : presents[k] # image
      BY <2>3, Types
    <3>4. \A k, l \in 1 .. Len(presents') : presents'[k] = presents'[l] => k = l
      BY <2>2, <2>7, <3>3 DEF Handed
    <3>5. Len(presents') = Len(queue') + Ahead'
      BY <2>2, <2>6, <2>7, <3>1
    <3>6. ToSet(presents') \subseteq held'
      BY <2>1, <2>3, <2>7 DEF Handed
    <3> QED
      BY <2>1, <3>1, <3>2, <3>4, <3>5, <3>6 DEF Handed
  <2>15. Views' /\ Drawn'
    <3>1. Views'
      BY <2>1, <2>5, <2>8 DEF Views, n
    <3> QED
      BY <2>1, <2>5, <2>8, <3>1 DEF Drawn, n
  <2>16. InTime' /\ OnlyTheSemaphore'
    <3>1. oneQueue /\ queue'[1].started => ~finished
      <4>1. n = 0 => ~queue'[1].started
        BY <2>5, <2>6
      <4>2. n = 1 => queue'[1] = queue[1] /\ queue # <<>>
        <5>1. n = 1 => queue # <<>>
          BY DEF n
        <5> QED
          BY <2>6, <5>1
      <4> QED
        BY <2>2, <4>1, <4>2 DEF InTime
    <3> QED
      BY <1>1, <2>1, <3>1 DEF InTime, OnlyTheSemaphore
  <2> QED
    BY <2>10, <2>11, <2>12, <2>13, <2>14, <2>15, <2>16
<1> QED
  BY <1>2, <1>3

LEMMA OnResizedKeepsInv ==
  ASSUME Inv, OnResized
  PROVE  Inv'
<1> USE DEF Inv
<1>1. pc = "frame" /\ broken = "no" /\ outOfDate /\ queue = <<>> /\ presents = <<>>
  BY DEF OnResized, DeviceIdle
<1>2. PICK n \in ImageCounts :
        IF n - 1 \notin Created THEN Breaks("too many images")
        ELSE IF ResizesPasses /\ Created # Images THEN Breaks("framebuffer destroyed twice")
        ELSE /\ swapchain' = [id |-> swapchain.id + 1, count |-> n]
             /\ framebuffers' = IF ResizesPasses THEN swapchain.id + 1 ELSE framebuffers
             /\ held' = {} /\ display' = <<>> /\ outOfDate' = FALSE
             /\ UNCHANGED <<pc, image, fences, gpuVars, broken>>
  BY DEF OnResized
<1>3. CASE n - 1 \notin Created
  BY <1>1, <1>2, <1>3, BreaksKeepsInv
<1>4. CASE n - 1 \in Created /\ ResizesPasses /\ Created # Images
  <2>1. Breaks("framebuffer destroyed twice")
    BY <1>2, <1>4
  <2> QED
    BY <1>1, <2>1, BreaksKeepsInv
<1>5. CASE n - 1 \in Created /\ ~(ResizesPasses /\ Created # Images)
  <2>1. /\ swapchain' = [id |-> swapchain.id + 1, count |-> n]
        /\ framebuffers' = IF ResizesPasses THEN swapchain.id + 1 ELSE framebuffers
        /\ held' = {} /\ display' = <<>> /\ outOfDate' = FALSE
        /\ UNCHANGED <<pc, image, fences, broken>>
        /\ UNCHANGED <<available, finished, queue, presents, oneQueue>>
    BY <1>2, <1>5 DEF gpuVars
  <2>2. Len(queue) = 0 /\ Len(presents) = 0 /\ ToSet(presents) = {} /\ ToSet(display') = {}
    BY <1>1, <2>1 DEF ToSet
  <2>3. available = "unsignaled" /\ ~finished
    <3>1. AllStarted
      BY <2>2 DEF AllStarted
    <3> QED
      BY <1>1, <2>2, <3>1 DEF TakingTurns, Handed, Ahead
  <2>4. swapchain.id + 1 \in 1 .. MaxResizes
    BY <1>1, Types, VulkanAssumption DEF InTime
  <2>5. TypeOK'
    <3>1. 0 .. n - 1 \subseteq Created
      <4>1. PICK m \in Nat : Created = 0 .. m - 1
        BY DEF Shapes
      <4> QED
        BY <1>5, <4>1, VulkanAssumption
    <3>2. /\ swapchain'.id = swapchain.id + 1 /\ swapchain'.count = n
          /\ Images' = 0 .. n - 1 /\ Created' = Created
      BY <2>1 DEF Images, Created
    <3>3. framebuffers \in 0 .. swapchain.id
      BY DEF TypeOK
    <3>4. framebuffers' \in 0 .. swapchain'.id
      BY <2>1, <2>4, <3>2, <3>3, Types
    <3>5. swapchain'.id \in 0 .. MaxResizes
      BY <2>4, <3>2, VulkanAssumption
    <3>6. held' \subseteq Images' /\ ToSet(display') \subseteq Images' /\ ToSet(presents') \subseteq Images'
      BY <2>1, <2>2
    <3>7. \A k \in DOMAIN queue' : queue'[k].image \in Created'
      BY <2>1, <3>2 DEF TypeOK
    <3> QED
      BY <2>1, <3>1, <3>2, <3>4, <3>5, <3>6, <3>7 DEF TypeOK
  <2>6. Shapes'
    BY <2>1 DEF Shapes, Created
  <2>7. Fenced' /\ CommandBufferIdle'
    BY <1>1, <2>1, <2>2 DEF Fenced, CommandBufferIdle
  <2>8. TakingTurns' /\ Handed'
    BY <1>1, <2>1, <2>2, <2>3 DEF TakingTurns, Handed, Ahead
  <2>9. Views' /\ InTime' /\ Drawn' /\ OnlyTheSemaphore'
    BY <1>1, <2>1, <2>2 DEF Views, InTime, Drawn, OnlyTheSemaphore
  <2> QED
    BY <2>5, <2>6, <2>7, <2>8, <2>9
<1> QED
  BY <1>3, <1>4, <1>5

LEMMA SignalAvailableKeepsInv ==
  ASSUME Inv, SignalAvailable
  PROVE  Inv'
<1> USE DEF Inv
<1>1. /\ available = "pending" /\ broken = "no" /\ image \notin ToSet(display)
      /\ available' = "signaled"
      /\ UNCHANGED <<pc, swapchain, image, fences, framebuffers>>
      /\ UNCHANGED <<finished, queue, presents, oneQueue>>
      /\ UNCHANGED <<held, display, outOfDate, broken>>
  BY DEF SignalAvailable, loopVars, displayVars
<1>2. TypeOK' /\ Shapes'
  BY <1>1 DEF TypeOK, Shapes, Images, Created
<1>3. Fenced' /\ CommandBufferIdle' /\ Handed'
  BY <1>1 DEF Fenced, CommandBufferIdle, Handed, Ahead
<1>4. TakingTurns'
  BY <1>1 DEF TakingTurns, AllStarted
<1>5. Views' /\ InTime' /\ Drawn' /\ OnlyTheSemaphore'
  BY <1>1 DEF Views, InTime, Drawn, OnlyTheSemaphore, AllStarted
<1> QED
  BY <1>2, <1>3, <1>4, <1>5

LEMMA ShowNextKeepsInv ==
  ASSUME Inv, ShowNext
  PROVE  Inv'
<1> USE DEF Inv
<1>1. /\ Len(display) > 1 /\ broken = "no" /\ display' = Tail(display)
      /\ UNCHANGED <<pc, swapchain, image, fences, framebuffers>>
      /\ UNCHANGED <<available, finished, queue, presents, oneQueue>>
      /\ UNCHANGED <<held, outOfDate, broken>>
  BY DEF ShowNext, loopVars, gpuVars
<1>2. display' \in Seq(Int) /\ ToSet(display') \subseteq ToSet(display)
  <2>1. display \in Seq(Int) /\ display # <<>>
    BY <1>1 DEF Shapes
  <2> QED
    BY <1>1, <2>1, TailIs
<1>3. TypeOK' /\ Shapes'
  BY <1>1, <1>2 DEF TypeOK, Shapes, Images, Created
<1>4. Fenced' /\ CommandBufferIdle' /\ Handed'
  BY <1>1 DEF Fenced, CommandBufferIdle, Handed, Ahead
<1>5. TakingTurns'
  BY <1>1, <1>2 DEF TakingTurns, AllStarted
<1>6. Views' /\ InTime' /\ Drawn' /\ OnlyTheSemaphore'
  BY <1>1, <1>2 DEF Views, InTime, Drawn, OnlyTheSemaphore, AllStarted
<1> QED
  BY <1>3, <1>4, <1>5, <1>6

LEMMA WindowChangesKeepsInv ==
  ASSUME Inv, WindowChanges
  PROVE  Inv'
<1> USE DEF Inv
<1>1. /\ swapchain.id < MaxResizes /\ broken = "no" /\ outOfDate' = TRUE
      /\ UNCHANGED <<pc, swapchain, image, fences, framebuffers>>
      /\ UNCHANGED <<available, finished, queue, presents, oneQueue>>
      /\ UNCHANGED <<held, display, broken>>
  BY DEF WindowChanges, loopVars, gpuVars
<1>2. TypeOK' /\ Shapes'
  BY <1>1 DEF TypeOK, Shapes, Images, Created
<1>3. Fenced' /\ CommandBufferIdle' /\ Handed'
  BY <1>1 DEF Fenced, CommandBufferIdle, Handed, Ahead
<1>4. TakingTurns'
  BY <1>1 DEF TakingTurns, AllStarted
<1>5. Views' /\ InTime' /\ Drawn' /\ OnlyTheSemaphore'
  BY <1>1 DEF Views, InTime, Drawn, OnlyTheSemaphore, AllStarted
<1> QED
  BY <1>2, <1>3, <1>4, <1>5

(* A batch that starts takes the signal; its image is held, because it is  *)
(* still to be presented, and off the display, because of the signal.      *)
LEMMA StartKeepsInv ==
  ASSUME Inv, Start
  PROVE  Inv'
<1> USE DEF Inv
<1>1. /\ queue # <<>> /\ ~Head(queue).started /\ broken = "no"
      /\ Head(queue).waits => available = "signaled"
      /\ oneQueue => Len(presents) <= Len(queue)
      /\ queue' = [queue EXCEPT ![1].started = TRUE]
      /\ available' = IF Head(queue).waits THEN "unsignaled" ELSE available
      /\ UNCHANGED <<pc, swapchain, image, fences, framebuffers>>
      /\ UNCHANGED <<finished, presents, oneQueue>>
      /\ UNCHANGED <<held, display, outOfDate, broken>>
  BY DEF Start, loopVars, displayVars
<1>2. Len(queue) \in Nat \ {0} /\ Head(queue) = queue[1] /\ queue[1] \in Submitted
  BY <1>1, TailIs DEF Shapes
<1>3. Len(queue) = 1 /\ queue[1].image = image /\ available # "unsignaled" /\ pc # "record"
  <2>1. 1 \in 1 .. Len(queue) /\ ~queue[1].started
    BY <1>1, <1>2
  <2> QED
    BY <2>1 DEF TakingTurns
<1>4. available = "signaled" /\ available' = "unsignaled" /\ image \notin ToSet(display)
  BY <1>1, <1>2 DEF Submitted, TakingTurns
<1>5. DOMAIN queue = 1 .. 1
  BY <1>3, Types
<1>one. \A k : k \in 1 .. 1 <=> k = 1
  OBVIOUS
<1> DEFINE batch == [queue[1] EXCEPT !.started = TRUE]
<1>6. /\ queue' \in Seq(Submitted) /\ Len(queue') = 1 /\ DOMAIN queue' = 1 .. 1
      /\ queue'[1] = batch
  <2>1. queue' = [k \in 1 .. 1 |-> batch]
    <3>1. queue \in [1 .. 1 -> Submitted]
      BY <1>3, LenProperties DEF Shapes
    <3> QED
      BY <1>1, <1>one, <3>1
  <2>2. batch \in Submitted
    BY <1>2 DEF Submitted
  <2> HIDE DEF batch
  <2> QED
    BY <2>1, <2>2
<1>7. /\ batch.image = image /\ batch.started /\ batch.views = queue[1].views
  BY <1>2, <1>3 DEF Submitted
<1> HIDE DEF batch
<1>8. AllStarted' /\ ~AllStarted
  BY <1>1, <1>2, <1>3, <1>6, <1>7, <1>one DEF AllStarted
<1>9. image \in held
  <2>1. 1 + Ahead \in 1 .. Len(presents) /\ presents[1 + Ahead] = image
    <3>1. Len(presents) = 1 + Ahead /\ Ahead \in {0, 1}
      BY <1>3 DEF Handed, Ahead
    <3> QED
      BY <1>3, <3>1 DEF Handed
  <2> QED
    BY <2>1, Types DEF Handed
<1>10. TypeOK'
  <2>1. image \in Created
    BY <1>3, <1>5 DEF TypeOK
  <2>2. \A k \in DOMAIN queue' : queue'[k].image \in Created
    BY <1>6, <1>7, <2>1
  <2> QED
    BY <1>1, <1>4, <2>2 DEF TypeOK, Images, Created
<1>11. Shapes' /\ CommandBufferIdle'
  BY <1>1, <1>3, <1>6 DEF Shapes, CommandBufferIdle, Created
<1>12. Fenced'
  <2>1. \A k \in 1 .. Len(queue') : queue'[k].image = image
    BY <1>6, <1>7, <1>one
  <2>2. ~fences[image]
    BY <1>3, <1>one DEF Fenced
  <2>3. \A k, l \in 1 .. Len(queue') : k = l
    BY <1>6, <1>one
  <2>4. pc' = "record" => image' # NoImage /\ ~fences'[image']
    BY <1>1 DEF Fenced
  <2>5. fences' = fences
    BY <1>1
  <2> QED
    BY <2>1, <2>2, <2>3, <2>4, <2>5 DEF Fenced
<1>13. TakingTurns'
  BY <1>4, <1>6, <1>7 DEF TakingTurns
<1>14. Handed'
  BY <1>1, <1>3, <1>6, <1>7 DEF Handed, Ahead
<1>15. Views' /\ Drawn'
  <2>1. Views'
    BY <1>1, <1>3, <1>6, <1>7, <1>one DEF Views
  <2>2. Drawn'
    BY <1>1, <1>4, <1>6, <1>7, <1>9, <1>one DEF Drawn
  <2> QED
    BY <2>1, <2>2
<1>16. InTime' /\ OnlyTheSemaphore'
  <2>1. oneQueue => ~finished
    BY <1>1, <1>3 DEF Handed, Ahead
  <2> QED
    BY <1>1, <1>8, <2>1 DEF InTime, OnlyTheSemaphore
<1> QED
  BY <1>10, <1>11, <1>12, <1>13, <1>14, <1>15, <1>16

(* A batch that is finished was the first, and no other has started.       *)
LEMMA FinishKeepsInv ==
  ASSUME Inv, Finish
  PROVE  Inv'
<1> USE DEF Inv
<1> DEFINE n == Len(queue)
<1>1. queue # <<>> /\ Head(queue).started /\ broken = "no"
  BY DEF Finish
<1>2. /\ n \in Nat \ {0} /\ Head(queue) = queue[1] /\ queue[1] \in Submitted
      /\ Tail(queue) \in Seq(Submitted) /\ Len(Tail(queue)) = n - 1
      /\ \A k \in 1 .. n - 1 : Tail(queue)[k] = queue[k + 1]
  BY <1>1, TailIs DEF Shapes
<1>3. CASE finished
  <2>1. Breaks("signaled twice")
    BY <1>3 DEF Finish
  <2>2. ~oneQueue
    BY <1>1, <1>2, <1>3 DEF InTime
  <2> QED
    BY <2>1, <2>2, BreaksKeepsInv
<1>4. CASE ~finished
  <2>1. /\ finished' = TRUE
        /\ fences' = [fences EXCEPT ![queue[1].image] = TRUE]
        /\ queue' = Tail(queue)
        /\ UNCHANGED <<pc, swapchain, image, framebuffers, available, presents, oneQueue, broken>>
        /\ UNCHANGED <<held, display, outOfDate>>
    BY <1>2, <1>4 DEF Finish, displayVars
  <2>2. /\ queue' \in Seq(Submitted) /\ Len(queue') = n - 1 /\ DOMAIN queue' = 1 .. n - 1
        /\ \A k \in 1 .. n - 1 : queue'[k] = queue[k + 1] /\ k + 1 \in 1 .. n
    <3>1. DOMAIN queue' = 1 .. n - 1
      BY <1>2, <2>1, LenProperties
    <3> QED
      BY <1>2, <2>1, <3>1
  <2>3. 1 \in 1 .. n
    BY <1>2
  <2>4. queue[1].image \in Created /\ Created' = Created /\ Images' = Images
    BY <2>1, <2>3, Types DEF TypeOK, Created, Images
  <2>5. \A m \in Created : fences'[m] = IF m = queue[1].image THEN TRUE ELSE fences[m]
    BY <2>1, <2>4 DEF Created
  <2>6. \A k \in 1 .. n - 1 :
          /\ queue'[k].image # queue[1].image /\ ~queue'[k].started
          /\ queue'[k].image \in Created /\ ~fences[queue'[k].image]
    <3> TAKE k \in 1 .. n - 1
    <3>1. k + 1 \in 1 .. n /\ queue'[k] = queue[k + 1] /\ k + 1 # 1
      BY <1>2, <2>2
    <3>2. queue[k + 1].image # queue[1].image /\ ~fences[queue[k + 1].image]
      BY <2>3, <3>1 DEF Fenced
    <3>3. ~queue[k + 1].started
      BY <3>1 DEF TakingTurns
    <3>4. queue[k + 1].image \in Created
      BY <3>1, Types DEF TypeOK
    <3> QED
      BY <3>1, <3>2, <3>3, <3>4
  <2>7. AllStarted => AllStarted' /\ n = 1
    <3>1. ASSUME AllStarted, n # 1
          PROVE  FALSE
      <4>1. 1 \in 1 .. n - 1 /\ 2 \in 1 .. n /\ queue'[1] = queue[2]
        BY <1>2, <2>2, <3>1
      <4> QED
        BY <2>6, <3>1, <4>1 DEF AllStarted
    <3> QED
      BY <2>2, <3>1 DEF AllStarted
  <2>8. AllStarted' => AllStarted
    <3> SUFFICES ASSUME AllStarted'
                 PROVE  AllStarted
      OBVIOUS
    <3>1. n = 1
      <4>1. n # 1 => 1 \in 1 .. n - 1
        BY <1>2
      <4> QED
        BY <2>2, <2>6, <4>1 DEF AllStarted
    <3> QED
      BY <1>1, <1>2, <3>1 DEF AllStarted
  <2>9. TypeOK'
    <3>1. fences' \in [Created -> BOOLEAN]
      BY <2>1, <2>4 DEF TypeOK, Created
    <3> QED
      BY <2>1, <2>2, <2>4, <2>6, <3>1 DEF TypeOK
  <2>10. Shapes'
    BY <2>1, <2>2, <2>4 DEF Shapes
  <2>11. CommandBufferIdle'
    <3>1. ASSUME pc = "record", NEW k \in DOMAIN queue'
          PROVE  queue'[k].image # image
      BY <2>2, <3>1, Types DEF CommandBufferIdle
    <3> QED
      BY <2>1, <3>1 DEF CommandBufferIdle
  <2>12. Fenced'
    <3>1. \A k \in 1 .. Len(queue') : ~fences'[queue'[k].image]
      BY <2>2, <2>5, <2>6
    <3>2. \A k, l \in 1 .. Len(queue') : queue'[k].image = queue'[l].image => k = l
      <4> SUFFICES ASSUME NEW k \in 1 .. n - 1, NEW l \in 1 .. n - 1, queue'[k].image = queue'[l].image
                   PROVE  k = l
        BY <2>2
      <4>1. k + 1 \in 1 .. n /\ l + 1 \in 1 .. n /\ queue[k + 1].image = queue[l + 1].image
        BY <2>2
      <4>2. k + 1 = l + 1
        BY <4>1 DEF Fenced
      <4> QED
        BY <4>2
    <3>3. pc = "record" => image # NoImage /\ ~fences'[image]
      <4> SUFFICES ASSUME pc = "record"
                   PROVE  image # NoImage /\ ~fences'[image]
        OBVIOUS
      <4>1. image # NoImage /\ ~fences[image] /\ image \in Created
        BY DEF Fenced, TypeOK
      <4>2. queue[1].image # image
        BY <2>3, Types DEF CommandBufferIdle
      <4> QED
        BY <2>5, <4>1, <4>2
    <3> QED
      BY <2>1, <3>1, <3>2, <3>3 DEF Fenced
  <2>13. TakingTurns'
    <3>1. \A k \in 1 .. Len(queue') : ~queue'[k].started =>
            k = Len(queue') /\ queue'[k].image = image /\ available # "unsignaled" /\ pc # "record"
      <4> SUFFICES ASSUME NEW k \in 1 .. n - 1
                   PROVE  k = n - 1 /\ queue'[k].image = image /\ available # "unsignaled" /\ pc # "record"
        BY <2>2
      <4>1. k + 1 \in 1 .. n /\ queue'[k] = queue[k + 1] /\ ~queue[k + 1].started
        BY <2>2, <2>6
      <4>2. k + 1 = n /\ queue[k + 1].image = image /\ available # "unsignaled" /\ pc # "record"
        BY <4>1 DEF TakingTurns
      <4> QED
        BY <4>1, <4>2
    <3>2. \A k \in 1 .. Len(queue') : queue'[k].started => k = 1
      BY <2>2, <2>6
    <3> QED
      BY <2>1, <2>8, <3>1, <3>2 DEF TakingTurns
  <2>14. Handed'
    <3>1. Ahead = 0 /\ Ahead' = 1
      BY <1>4, <2>1 DEF Ahead
    <3>2. Len(presents) = n /\ \A k \in 1 .. n : presents[k] = queue[k].image
      BY <3>1, Types DEF Handed
    <3>3. \A k \in 1 .. n - 1 : presents[k + 1] = queue'[k].image
      BY <2>2, <3>2
    <3> QED
      BY <2>1, <2>2, <3>1, <3>2, <3>3, Types DEF Handed
  <2>15. Views' /\ Drawn'
    <3>1. Views'
      BY <2>1, <2>2 DEF Views
    <3>2. Drawn'
      BY <2>2, <2>6 DEF Drawn
    <3> QED
      BY <3>1, <3>2
  <2>16. InTime' /\ OnlyTheSemaphore'
    <3>1. queue' # <<>> => 1 \in 1 .. n - 1
      <4>1. queue' # <<>> => Len(queue') # 0
        BY <2>2, EmptySeq
      <4> QED
        BY <1>2, <2>2, <4>1
    <3>2. ~(queue' # <<>> /\ queue'[1].started)
      BY <2>6, <3>1
    <3> QED
      BY <1>1, <2>1, <2>7, <3>2 DEF InTime, OnlyTheSemaphore
  <2> QED
    BY <2>9, <2>10, <2>11, <2>12, <2>13, <2>14, <2>15, <2>16
<1> QED
  BY <1>3, <1>4

(* The image that is presented is no longer the loop's nor a batch's.      *)
LEMMA PresentKeepsInv ==
  ASSUME Inv, Present
  PROVE  Inv'
<1> USE DEF Inv
<1> DEFINE n == Len(queue)
<1> DEFINE shown == presents[1]
<1>1. presents # <<>> /\ finished /\ broken = "no"
  BY DEF Present
<1>2. /\ Len(presents) \in Nat \ {0} /\ Head(presents) = shown /\ shown \in Int
      /\ Tail(presents) \in Seq(Int) /\ Len(Tail(presents)) = Len(presents) - 1
      /\ \A k \in 1 .. Len(presents) - 1 : Tail(presents)[k] = presents[k + 1]
      /\ ToSet(Tail(presents)) \subseteq ToSet(presents)
  BY <1>1, TailIs DEF Shapes
<1>3. /\ finished' = FALSE /\ presents' = Tail(presents) /\ held' = held \ {shown}
      /\ display' = IF outOfDate THEN display ELSE Append(display, shown)
      /\ UNCHANGED <<pc, swapchain, image, fences, framebuffers>>
      /\ UNCHANGED <<available, queue, oneQueue, outOfDate, broken>>
  BY <1>2 DEF Present, loopVars
<1>4. Ahead = 1 /\ Ahead' = 0
  BY <1>1, <1>3 DEF Ahead
<1>5. n \in Nat /\ Len(presents) = n + 1 /\ DOMAIN queue = 1 .. n
  BY <1>4, Types DEF Handed
<1>6. \A k \in 1 .. n : presents'[k] = queue[k].image /\ presents'[k] = presents[k + 1]
  <2> SUFFICES ASSUME NEW k \in 1 .. n
               PROVE  presents'[k] = queue[k].image /\ presents'[k] = presents[k + 1]
    OBVIOUS
  <2>1. presents'[k] = presents[k + 1]
    BY <1>2, <1>3, <1>5
  <2>2. presents[k + 1] = queue[k].image
    BY <1>4 DEF Handed
  <2> QED
    BY <2>1, <2>2
<1>7. 1 \in 1 .. Len(presents) /\ shown \in ToSet(presents) /\ shown \in held /\ shown \in Images
  <2>1. 1 \in 1 .. Len(presents)
    BY <1>2
  <2>2. shown \in ToSet(presents)
    BY <2>1, Types
  <2> QED
    BY <2>1, <2>2 DEF Handed, TypeOK
<1> HIDE DEF n
<1>8. \A k \in 1 .. n : queue[k].image # shown /\ queue[k].image \in held
  <2> TAKE k \in 1 .. n
  <2>1. k + 1 \in 1 .. Len(presents) /\ k + 1 # 1 /\ presents[k + 1] = queue[k].image
    BY <1>5, <1>6
  <2>2. presents[k + 1] # presents[1]
    BY <1>7, <2>1 DEF Handed
  <2>3. presents[k + 1] \in ToSet(presents)
    BY <2>1, Types
  <2> QED
    BY <2>1, <2>2, <2>3 DEF Handed
<1>9. available # "unsignaled" => image # shown
  <2>1. CASE AllStarted
    BY <1>7, <2>1 DEF TakingTurns
  <2>2. CASE ~AllStarted
    <3>1. PICK k \in 1 .. n : ~queue[k].started
      BY <2>2 DEF AllStarted, n
    <3>2. queue[k].image = image
      BY <3>1 DEF TakingTurns, n
    <3> QED
      BY <1>8, <3>2
  <2> QED
    BY <2>1, <2>2
<1>10. display' \in Seq(Int) /\ ToSet(display') \subseteq ToSet(display) \cup {shown}
  <2>1. display \in Seq(Int)
    BY DEF Shapes
  <2>2. Append(display, shown) \in Seq(Int) /\ ToSet(Append(display, shown)) = ToSet(display) \cup {shown}
    <3> HIDE DEF shown
    <3> QED
      BY <1>2, <2>1, ToSetAppend, AppendProperties
  <2> QED
    BY <1>3, <2>1, <2>2
<1>11. ToSet(presents') \subseteq held \ {shown}
  <2>1. presents' \in Seq(Int) /\ Len(presents') = n
    BY <1>2, <1>3, <1>5
  <2>2. \A x : x \in ToSet(presents') <=> \E k \in 1 .. Len(presents') : x = presents'[k]
    <3> DEFINE t == presents'
    <3>1. t \in Seq(Int)
      BY <2>1
    <3> HIDE DEF t
    <3>2. \A x : x \in ToSet(t) <=> \E k \in 1 .. Len(t) : x = t[k]
      BY <3>1, ToSetIs
    <3> QED
      BY <3>2 DEF t
  <2> SUFFICES ASSUME NEW x \in ToSet(presents')
               PROVE  x \in held \ {shown}
    OBVIOUS
  <2>3. PICK k \in 1 .. n : x = presents'[k]
    BY <2>1, <2>2
  <2> QED
    BY <1>6, <1>8, <2>3
<1>12. TypeOK'
  BY <1>2, <1>3, <1>7, <1>10 DEF TypeOK, Images, Created
<1>13. Shapes' /\ Fenced' /\ CommandBufferIdle'
  BY <1>2, <1>3, <1>10 DEF Shapes, Fenced, CommandBufferIdle, Created
<1>14. TakingTurns'
  BY <1>2, <1>3, <1>9, <1>10 DEF TakingTurns, AllStarted
<1>15. Handed'
  <2>1. \A k, l \in 1 .. n : presents'[k] = presents'[l] => k = l
    <3> SUFFICES ASSUME NEW k \in 1 .. n, NEW l \in 1 .. n, presents'[k] = presents'[l]
                 PROVE  k = l
      OBVIOUS
    <3>1. k + 1 \in 1 .. Len(presents) /\ l + 1 \in 1 .. Len(presents) /\ presents[k + 1] = presents[l + 1]
      BY <1>5, <1>6
    <3>2. k + 1 = l + 1
      BY <3>1 DEF Handed
    <3> QED
      BY <3>2
  <2>2. Len(presents') = n /\ Len(queue') = n
    BY <1>2, <1>3, <1>5 DEF n
  <2>3. \A k \in 1 .. n : presents'[k + 0] = queue'[k].image
    BY <1>3, <1>5, <1>6
  <2>4. Len(presents') = Len(queue') + Ahead'
    BY <1>4, <1>5, <2>2
  <2> QED
    BY <1>3, <1>4, <1>11, <2>1, <2>2, <2>3, <2>4 DEF Handed
<1>16. Views' /\ InTime' /\ OnlyTheSemaphore'
  BY <1>3 DEF Views, InTime, OnlyTheSemaphore, AllStarted
<1>17. Drawn'
  <2> SUFFICES ASSUME NEW k \in 1 .. n, queue[k].started
               PROVE  queue[k].image \in held' \ ToSet(display')
    BY <1>3 DEF Drawn, n
  <2>1. queue[k].image \in held \ ToSet(display)
    BY DEF Drawn, n
  <2> QED
    BY <1>3, <1>8, <1>10, <2>1
<1> QED
  BY <1>12, <1>13, <1>14, <1>15, <1>16, <1>17

-----------------------------------------------------------------------------
(* The theorems. *)

(* The invariant holds in every behaviour of the loop.                     *)
THEOREM Invariance == Spec => []Inv
<1>1. ASSUME Inv, [Next]_vars
      PROVE  Inv'
  <2>1. CASE Acquire
    BY <1>1, <2>1, AcquireKeepsInv
  <2>2. CASE AcquireFails
    BY <1>1, <2>2, AcquireFailsKeepsInv
  <2>3. CASE CmdBegin
    BY <1>1, <2>3, CmdBeginKeepsInv
  <2>4. CASE CmdEnd
    BY <1>1, <2>4, CmdEndKeepsInv
  <2>5. CASE OnResized
    BY <1>1, <2>5, OnResizedKeepsInv
  <2>6. CASE SignalAvailable
    BY <1>1, <2>6, SignalAvailableKeepsInv
  <2>7. CASE Start
    BY <1>1, <2>7, StartKeepsInv
  <2>8. CASE Finish
    BY <1>1, <2>8, FinishKeepsInv
  <2>9. CASE Present
    BY <1>1, <2>9, PresentKeepsInv
  <2>10. CASE ShowNext
    BY <1>1, <2>10, ShowNextKeepsInv
  <2>11. CASE WindowChanges
    BY <1>1, <2>11, WindowChangesKeepsInv
  <2>12. CASE UNCHANGED vars
    <3>1. /\ UNCHANGED <<pc, swapchain, image, fences, framebuffers>>
          /\ UNCHANGED <<available, finished, queue, presents, oneQueue>>
          /\ UNCHANGED <<held, display, outOfDate, broken>>
      BY <2>12 DEF vars, loopVars, gpuVars, displayVars
    <3>2. TypeOK' /\ Shapes'
      BY <1>1, <3>1 DEF Inv, TypeOK, Shapes, Images, Created
    <3>3. Fenced' /\ CommandBufferIdle' /\ TakingTurns' /\ Handed'
      BY <1>1, <3>1 DEF Inv, Fenced, CommandBufferIdle, TakingTurns, AllStarted, Handed, Ahead
    <3>4. Views' /\ InTime' /\ Drawn' /\ OnlyTheSemaphore'
      BY <1>1, <3>1 DEF Inv, Views, InTime, Drawn, OnlyTheSemaphore, AllStarted
    <3> QED
      BY <3>2, <3>3, <3>4 DEF Inv
  <2> QED
    BY <1>1, <2>1, <2>2, <2>3, <2>4, <2>5, <2>6, <2>7, <2>8, <2>9, <2>10, <2>11, <2>12
    DEF Next, Loop, Device
<1> QED
  BY InitInv, <1>1, PTL DEF Spec

(* What the GPU executes is nobody else's: the command buffer is not       *)
(* recorded at the time, the image is the application's and not on the     *)
(* display, and the views are the swapchain's, in an application that      *)
(* resizes its render passes.                                              *)
THEOREM DrawsSafe == ASSUME ResizesPasses PROVE Spec => []DrawsSafely
<1>1. Inv => DrawsSafely
  <2> SUFFICES ASSUME Inv
               PROVE  DrawsSafely
    OBVIOUS
  <2>1. DrawsToOwnImage
    BY Types DEF Inv, Drawn, Views, DrawsToOwnImage
  <2> QED
    BY <2>1 DEF Inv, DrawsSafely
<1> QED
  BY Invariance, <1>1, PTL

(* No other rule than the semaphore's is broken while one queue serves     *)
(* drawing and presenting and the window keeps its size.                   *)
THEOREM OnlyTheSemaphoreBreaks == Spec => []OnlyTheSemaphore
<1>1. Inv => OnlyTheSemaphore
  BY DEF Inv
<1> QED
  BY Invariance, <1>1, PTL
====
