# Verification of the ngen core

TLA+ models, TLC runs and TLAPS proofs for the library `core` of ngen and for
its application `eins`, from the command line to the draw calls of a frame.  Every module is written from the
C++ source; `PROJECT.json` maps each definition to the lines it stands for,
lists the hazards of the code with the properties that guard them, and lists
the mutants (plausible bugs put into mapped definitions) that show each
property can fail.

    tlc -workers 2 -config MCLinearAllocator.cfg MCLinearAllocator   # a run
    tlapm LinearAllocatorProofs.tla                                  # its proofs

## 1. Inventory

ngen is a C++ engine for Linux and Windows.  It is single-threaded: nothing in
the repository calls `Thread_t`, so the actors that run beside the program are
the operating system, the GPU with its queues, the presentation engine and the
window system.  What is hard in this code is therefore mostly *long sequences of
calls on shared storage* (allocators, table, buffer pool), *steps that fail half
way*, *in-place algorithms*, and *the frame loop against an asynchronous device*.

| Component | State it keeps | Operations | What makes it correct |
|---|---|---|---|
| Linear allocator (`linear_allocator.*`, `allocator_internal.*`) | chain of pages, current page, `m_top`, used and total size; a scope holds a snapshot | aligned_alloc, realloc, free, destroy; open and close a scope | blocks are inside a page, disjoint and aligned; a scope never takes back an older block; no page is lost; the counters are exact |
| Free list allocator (`free_list_allocator.*`) | a sorted list of free blocks threaded through the memory it manages | aligned_alloc, realloc (shrink, extend, move, undo), free | the list stays sorted and disjoint from what is held; contents survive realloc; a failed realloc is undone; no operation but `free` loses memory |
| Hash table (`hash_table.*`) | entries and slot states in one buffer, count, bucket count | operator[], find, reserve, in-place rehash | implements a map; probing ends and sees every entry; rehash ends |
| Files (`file.*`, `file_linux.cpp`) | file descriptor, a buffer from a pool that all files share | open, read, write, seek, flush, close | what the user reads and writes is a byte stream, whatever is buffered; no buffer is shared or lost; failures lose nothing |
| Vulkan backend (`gpu/vulkan/*`) | swapchain, fences, command buffers, semaphores, framebuffers; resources | a frame: acquire, begin, record, end; on_resized; creation of resources | CPU, GPU and display use a buffer or an image one at a time; every frame ends |
| Direct3D 12 backend (`gpu/d3d12/*`) | one fence and a value per frame, command allocators, the state of every render target, an upload buffer | a frame: begin, passes, end; on_resized; creation of resources | the same; every barrier names the state its target is in; textures arrive |
| GPU interface, loader of Vulkan | descriptors of resources; a table of functions | choice of a backend; symbol lookup | the same contract for both backends |
| eins (`eins/*`) | scene, camera, uniforms | init, loop, on_resized, camera | uses the contracts above; the camera follows the keys that are down |
| Windows and input (`window/*`) | key and mouse state | OS events to callbacks | a key is down exactly while it is pressed |
| Command line, values (`command_line.*`, `value.*`) | flags by name and short name, their values | register, parse, get | flags before the first error are set, the others are as registered |
| Log (`log.*`) and core initialisation (`core_init.*`, `core_allocators.*`) | level, the log's file | init, log, destroy; the order of initialisation | each step only uses what is initialised; logging a failure of the log ends |
| Containers (`dynamic_array.*`, `fixed_array.*`, `intrusive_list.*`) | length, capacity, storage | append, insert, remove, resize | contents follow the sequence of operations when storage moves |
| Strings, paths (`string*`, `path*`) | characters | find, copy, format, join, base name | agree with their definitions |
| PNG loader and bit stream (`loader/png.cpp`) | bit position and cache, alphabets, output | inflate, unfilter | inverse of the encoding |
| XML, COLLADA, TrueType, OBJ, TGA and DDS loaders (`loader/*`) | tree of nodes, tables, glyph contours | parse | the tree, mesh, glyph or image of the file |
| Reflection, math, threads, time, debugger, dynamic libraries, hash functions, `hash_table2`, samples and tests | little or none | | |

**How they interact.**  Everything allocates through `Allocator_t`:
arrays and tables grow by `realloc` of the allocator they are given, most often
a linear allocator in a scope that takes everything back at once.  The hash
table is behind `string_format`, the XML attributes, the TrueType tables and the
flags of the command line.  The log writes through `File_t`, whose checks log.
`os_loop` delivers window events to callbacks between frames, among them
`on_resized`, which rebuilds the swapchain the frame loop uses.

**Where it is hard.**  The list with its lines is under `hazards` in
`PROJECT.json`.  In short: padding that depends on addresses, `m_top` compared
without its page, scopes over `realloc` and `free` (linear allocator); headers,
links and contents in the same words, frees that are undone (free list);
in-place rehash with swaps, two regions in one buffer (hash table); one buffer
for reading and writing with two positions, system calls that are refused in
the middle of a write (files); one semaphore for all frames, an acquire that
fails and is ignored, fences and arrays that outlive the swapchain, framebuffers that are
destroyed twice (Vulkan); one fence with values from several frames, an index of the back buffer that is not
read again after a resize (Direct3D 12).

## 2. Plan

Done, in the order in which they matter to the rest:

1. `LinearAllocator`, `LinearAllocatorProofs`: memory everything else lives in.
2. `HashTable` against the abstract `HashMap`.
3. `File` against the abstract `ByteStreams`.
4. `FreeListAllocator`, on the words of its memory.
5. `VulkanFrame`: the loop of eins composed with the GPU, the display, and a
   window that changes its size.
6. `D3d12Frame`: the same loop on Direct3D 12, with render passes and uploads.
7. `PngLoader` against `PngFormat`, an encoder written from the two documents the
   loader names.
8. `VulkanInit`, `GpuInterface`, `VulkanResources`, `D3d12Resources`, composed in
   `EinsScene`: the scene of eins on either backend, from the loading of the
   library to the draw calls.
9. `XmlParser`, and `Collada` on top of it.
10. `CommandLine` and `Window`, composed in `EinsMain`: the program from its
    arguments to its last frame, with the camera that reads the input.

11. `HashTableProofs`, `VulkanFrameProofs`, `FileProofs`, `D3d12FrameProofs` and
   `EinsMainProofs`: what the runs check of these modules without fairness, for every
   value of the constants, and the two refinements.
12. `EinsSceneProofs`: that Vulkan is brought up by its rules on every machine.
13. `FreeListAllocatorProofs`: that the words of the memory are in one place each, and stay.

The plan is done.  What stays with TLC, and why, is in section 6.

## 3. The modules

**`LinearAllocator`** models `Linear_allocator_t` and `Scope_allocator_t`.  `pages`
is the chain of pages, `cur` and `top` are `m_current_page` and `m_top` (as an
offset), `used` and `total` the two counters, `scopes` the snapshots of the open
scopes, `objs` what callers hold.  An address is a page and an offset; of the
address of a page only the residue matters, which decides the padding.
`AlignedAlloc` walks the chain (`WalkStops`), uses a page (`UsePage`) or links one
from malloc (`AppendPage`), or fails after having moved the current page
(`AlignedAllocFails`).  `ReallocMoves`, `ReallocInPlace`, `ReallocIgnored` and
`ReallocCrashes` (the result of the inner allocation is not looked at) are the
four ends of `realloc`.  Obligation of the callers (`Reachable`): while a scope is
open, only blocks allocated under it are reallocated or freed.

**`HashTable`** models `Hash_table_t_`; each iteration of the second loop of
`rehash` is a step, so that properties see the table in the middle of it.
`PutNew` and `Reserve` start a call, `Mark`, `Skip`, `Settle`, `MoveToFree`,
`SwapWithMoving`, `EndRehash` and `Insert` carry it on.  `operator[]` calls `rehash`
twice when it grows the table (once in `reserve`), which is why `left` counts the
calls still to finish.  **`HashMap`** is what it promises.  Obligations
(`Careful`): `reserve` is not called on a table with entries if it would grow it
by so little that the new state array overlaps the old one (`CarefulReserve`), and the
allocator leaves the old block as it was when `realloc` moves it, since the states are
then read through a pointer into it (`StatesLeftBehind`).  Without them the states are
anything.  A `resize` that gets no memory ends the program and has no action.

**`File`** models `File_t` with the pool `g_buffers` and the system calls of
`file_linux.cpp`.  `os` is the disk, the open mode and the position of the
descriptor; `mine` is `m_internal_buffer`.  Each public call is one action; a
call the system refuses in the middle is another (`WriteFails`, `DirectWriteFails`,
`FlushFails`, `CloseLosing`).  **`ByteStreams`** promises a user who never hears of buffers that
reading, writing and seeking act on one sequence of bytes at one position.
Obligations: files are written only if they were opened for it, and `CarefulOpen`,
`CarefulRead`, `CarefulWrite`, `CarefulSeek`.  Each clause stands for a call after
which the code does something else (see the comments in the module): it opens an open
file again and forgets its buffer (`file.cpp:68`), moves the offset before the buffer
(`222`), writes one buffer twice.  The last three were found with TLC as the weakest
guards under which the refinement holds.  None of them guards an action of callers who
are not careful (`Careful = FALSE`).

**`FreeListAllocator`** models the memory word by word, because headers, list nodes
and the callers' data take turns in the same words and the order of the
writes decides.  Helpers carry the allocator's record from one source function
to the next and have the functions' names.  In three places the code stores
garbage; two of them depend on whether the compiler reads a word before or after
the write through a pointer of another type, and both outcomes are modelled.
`broken` then stops the model.  `Lost` are the words that are on no list and held by
nobody: `free` stores the size 0 in the block it puts on the list, so all its words
get lost, and `OnlyFreeLoses` says that they are exactly those.

**`VulkanFrame`** models the loop `get_back_buffer`, `cmd_begin`, the passes,
`cmd_end`, and `on_resized` between frames.  The GPU, its queues, the presentation
engine and the window are external actions that do what Vulkan lets them do.  A
call that violates a rule of Vulkan sets `broken` to the rule's name: the
semaphore is still in use, the command buffer is chosen by an uninitialised
index (the first acquire failed and the result was only logged), there is no signal to wait for,
the new swapchain has more images than there are fences, a framebuffer is destroyed
that the last resize has not made again (`vulkan.cpp:1200`: all of the array are destroyed,
and as many made as there are images now), a semaphore is signaled twice.  What presenting
returns changes nothing; `VK_SUBOPTIMAL_KHR` is only logged (`1176`, `log.h:107`).  Obligation (`ResizesPasses`): the application resizes its render passes
when the window changes.  `font_sample.cpp` does, `eins.cpp` does not, and its
framebuffers then keep views of the swapchain that was destroyed.

**`D3d12Frame`** models the loop on Direct3D 12 together with `create_texture`,
`create_texture_cube` and the render passes eins creates (`RenderPass`, also the two
its loop has in comments).  `tracked` is `rt->state`, what the program believes;
`actual` is what the GPU finds when it gets to the list, perhaps frames later.  A
list is the sequence of its commands, each with the state it needs and the one it
leaves.  `WaitForBackFrame` and `WaitForCurrentFrame` are the two waits; the loop stands in
`"wait"` until `WaitEnds`.  `lag` counts the frames since `ResizeBuffers` that were drawn
to another buffer than the one presented: `m_frame_no` is only read again after the
next Present.  Outcomes other than `S_OK` of Present and ResizeBuffers are actions
(`PresentFails`, `ResizeFails`), which may come at any time; after the first the code goes on
without a signal and may reset an allocator in use, after the second it draws to released
buffers, or releases them again with the next resize (`d3d12.cpp:986`), and
`broken` says so.  Obligation (`CarefulTexture`): the rows of a cube need no padding, since
`create_texture_cube` writes none (`d3d12.cpp:449`) and the GPU reads with it, and its faces,
which follow one another, begin at multiples of the 512 bytes at which a texture may be
placed (`463`).  A frame
is any sequence of passes that is complete (`CompleteFrame`): it ends with the buffer to be
presented and draws the shadow map before it samples it, as the loop of eins does
(`eins.cpp:670-728`).

**`PngLoader`** models `Png_loader_t::init`: an action per chunk, block header, code
length, literal, copy and row.  A file is a sequence of chunks; from the first `IEND`
on the bit stream `bs` reads the collected `idat` through its cache of four bytes.
Alphabets are built and looked up as the code does it, with a fast table for short
codes and a walk bit by bit for long ones.  **`PngFormat`** is the other side: prefix codes,
tokens, fixed and dynamic blocks, row filters and the pixels an image is to come out
with.  It owes nothing to the loader.  Two things the loader gets wrong are kept out
of the files: the bits of a distance in a fixed block are read in the wrong order
(`png.cpp:165`), and filter 4 does nothing in the first row (`png.cpp:492`).

**`VulkanInit`** models `Vulkan_t::init` with `vulkan_loader_init`.  The machine is a
constant record: the functions that its library lacks, whether the validation layer is
installed (every build asks for it, `vulkan.cpp:201`), its devices with their queue
families and memory types, and how many images its swapchain wants.  `init` only logs what
a call returns (`M_vk_check`); where a call cannot succeed the model ends, since the handles that
later calls get were never written.  `Load` looks
the functions up in the order of the source and stops at the first that is
missing, with those before it left in place.  Each later step (`CreateInstance`,
`ChooseFamilies`, `CreateDevice`, `CreateSwapchain`, `CreateBuffers`, `CreateSync`)
lists the functions it calls; one that is not loaded breaks the model, and so does a
device that is created with a family named twice or a family that was not found.

**`GpuInterface`** holds what both backends share: sub-buffers of one large buffer, the
kind and count of a set, the attributes of a pipeline.  **`VulkanResources`** and
**`D3d12Resources`** have one operator per virtual function of `Gpu_t`, from the
state of a backend to its next: the two answer the same calls with other means
(descriptor sets that are written by `bind_resource_to_set`, against
descriptors that lie one behind the other in a heap in the order in which they were
made, where binding does nothing).  **`EinsScene`** makes the calls: `Scene` is the
list of those in `Eins_window_t::init`, `Frame` those in `loop`; each kind of call has
a step of its own, with `backend` chosen as `Gpu_t::init` does.  Creating a texture
on Vulkan is two steps around the copy on the transfer queue.  `broken` stops
the model at what an API forbids.  A view is read in `READ_ONLY_OPTIMAL` where the
image was left in `SHADER_READ_ONLY_OPTIMAL`; the two are taken for one layout.
A render pass has an array of four framebuffers.  With more images, or with one, nothing sets the
image of the swapchain (`CreateFramebuffers`), and the model ends (`"framebuffers"`).

**`XmlParser`** models `parse_xml_`: a file is a sequence of tokens (tags that open, close
or do both, text, white space, metadata, a cut-off tag) and the recursion is an explicit
function from a position to the element and the position handed back, with each early
return and each place where the position moves on by one; reading on behind the end of the
buffer is an outcome of its own (`"beyond"`).  **`Collada`** is
`Dae_loader_t` on the tree: sources, the hierarchy of joints, skins, animations, one
step each, and `update_joint_matrices_at` afterwards.  Numbers are already
numbers; a matrix is the path of joints whose matrices were multiplied, so that
which matrices were multiplied, how often and in which order can be compared.  What the
loader takes from a NULL pointer, or writes for the seventeenth joint of a vertex, ends the
model.

**`CommandLine`** models registration (refused or not, letters noted or not) and `parse`
one argument at a time.  Its property says what the arguments mean without going through
them in order: an argument is a value if the one before it mentions a flag that takes one
(`Takes`), and a flag has what its last mention gave it (`HasItsValue`).  The table of letters ends
before `z` (`PastTable`); registering or reading one beyond it ends the model.  **`Window`**
models both window systems: `events` is the queue of the system, `held...` and `cursor` what the user does, `m_...` the fields of
`Window_t`, and `turned`, `orbited`, `moves` what `Cam_t` makes of it.  On X11 motions are
only reported with a button of the event mask held, the wheel is a button that is looked up
behind the table of buttons (`TurnsWheel`), and input goes on while the queue of a closed
window is worked off; on Windows a motion may replace
the one queued last, which is a choice of the system, and setting the cursor back is a
motion.  `unfollowed` and `unorbited` remember what the camera cannot have followed: a release
that was lost, something measured before the cursor was set back and queued behind it
(`Misleads`), a motion that X11 does not report.  **`EinsMain`** composes them: `main`, with a
window or a GPU that may not come to be, a backend whose `init` may fail, a `WM_SIZE` between
`m_gpu` and `m_shared`, and results nobody looks at; the model ends at the last three.

The `MC` modules only give constants their values, and name the symmetry, the view
or the representatives a run uses.

## 4. The runs

| Run | Question and outcome | Bounds, and why they are enough |
|---|---|---|
| `linear_allocator` | Do blocks stay inside, disjoint, aligned, above or below the open scope, and are pages and `m_used_size` accounted for?  Holds. | Page of 9 units, malloc'd pages of 8 or more, header 2, page header 1: two small blocks fill a page and the larger size needs a page of its own.  3 symmetric handles, sizes 1 and 6, alignments 1 and 2 on even and odd pages, 2 malloc'd pages, 1 scope.  The theorems below hold without these bounds. |
| `hash_table` | Does the table implement a map through growth and in-place rehash; do calls return?  Holds. | 4 keys (growth happens at the third), 2 values, codes 0, 6, 13 that collide or wrap in 4, 7 and 9 buckets; every hash function up to renaming of keys; reserve of 0 and 3. |
| `file` | Does the buffered file implement a byte stream, whatever write is refused?  Holds for careful callers. | A buffer of 3 bytes, reads and writes of 1 and 3 (inside, exactly full, across), seeks by 1 from three origins, 4 bytes written, positions up to 4, 1 failure.  `last` only reports the outcome of a call and is left out of the view. |
| `file_pool` | Is a buffer shared or lost?  Holds. | 3 files, 2 buffers: every order of opening and closing (no file twice), with an open that gets none |
| `file_full` | Are all written bytes in the file after close?  No. | 1 file, a buffer of 2 bytes, 3 writes |
| `free_list` | Are list, blocks, contents and counter right; is a failed realloc undone; which words are lost?  Holds; those that are freed. | 19 words from an even address, sizes 1, 5, 6, alignments 1, 2, 3 marks: room for three blocks with two gaps, merges on each side, moves that overlap. |
| `vulkan_frame` | Do CPU, GPU and display take turns; do frames go on; which rules can be broken?  Holds, with the exceptions `broken` names. | Swapchains of 2 or 3 images (fewer, as many and more after a resize, 3, then 2, then 3 again), 2 resizes, one queue or two. |
| `d3d12_frame` | Are allocators, buffers and states right however far the GPU lags behind; do values of the fence grow and waits end; do textures arrive; which frames go to the wrong buffer?  Holds, with the exceptions `RulesKept` and `LagsOnce` name. | The 2 buffers of the code, fence values up to 6 (four frames or textures after the start, each allocator used twice), 2 resizes, calls that fail at any time, 2 of 3 textures (rows that need padding, a second texture that must be placed, a cube). |
| `png` | Are the pixels those of the image, however it was filtered and deflated; are broken files refused; do the bits come in order?  Holds for the files `PngLoader` describes. | 6 images of 1, 3 and 4 components and 8 and 16 bits, among them a pair of rows with long repetitions; 20 choices of filters; 6 ways of deflating (fixed, dynamic with flat and steep codes, two blocks, with and without copies); 6 files with an error each.  A fast table of 3 bits, so that many codes are longer. |
| `gpu_resources` | Is Vulkan brought up by its rules; does what is allocated fit; does every draw find what the scene gave it, on either backend; do attributes and shaders agree; do uploads overtake one another; on which machines is the scene drawn?  Holds; `FitsTheMachine` speaks of plain machines, `SceneIsDrawn` of all. | Eight layouts of queue families on two devices, each function missing once, no validation layer, and swapchains of 1 to 5 images.  The scene is the whole scene of eins, with its sizes in bytes; the loop of frames returns to its own states. |
| `collada` | Does the parser return the tree that was written, and an element for each tag that starts one whatever else it is given; does the loader load exactly what it can, as the scene holds it; do animated joints follow their parents?  Holds, with the exceptions the properties name. | Every file of up to 5 tokens over three names, one the beginning of another, with texts of one letter and of more; all trees of up to 3 elements, written with and without white space; scenes with several geometries, two skins, different offsets and strides, animations of different length; vertices of up to 17 joints; updates at two of four times, among them one past the end. |
| `desktop` | Are flags read as given; is what is held noted; does the camera turn and orbit as dragged; are backend and view those asked for; does closing end the program?  Holds, with the exceptions the properties name. | Six registrations in any order, one of `z`, up to 3 of 7 arguments (for eins, five lists of up to 3); 4 inputs of the user (one drag and its release with a key or a second button in between; 5 were checked once and showed nothing else), 3 places, 2 sizes. |

Deadlock is checked except where the model really stops: the allocators when every
handle is in use or after `destroy`, the free list, the frame loops, the scene
and the program once `broken` or at the end, or at the bound of the fence.

**Fairness.**  `HashTable`: weak fairness of `Step`, the code inside a call, which runs on in the
caller's thread; nothing makes callers call.  `VulkanFrame`: weak fairness of the loop
(`os_loop` runs for ever) and of each step of the device (Vulkan guarantees that
submitted work whose semaphores are signaled completes); a change of the window's
size and its handler are not fair.  `D3d12Frame`: weak fairness of the end of a wait
(the event is set) and of the queue; the loop itself need not go on, the property
is that no wait lasts for ever.  `EinsScene`: weak fairness of the thread that runs
`init` and `loop` and of the transfer queue.  `EinsMain`: weak fairness of `OsLoop`, since
the loop polls as long as it runs; nothing makes the user do anything, and the bound
on inputs stands for a user who is not for ever faster than the loop.

**Finding.**  One run shows the code to differ from a comment: a buffer that is exactly
full is overwritten by the next write (`file_full`; lines and quotation under `findings`).

**Other divergences met while modelling.**  They are kept out of the runs by the obligations
and exceptions above, or are data the models abstract:
- closing a scope leaves `m_used_size` (`linear_allocator.inl:146`), so the counter is only
  exact without scopes; `allocator.h:30` says otherwise;
- `reserve` clears the new slot states over the old ones when the buffer does not move and
  grows by few buckets (`hash_table.inl:108`); `CarefulReserve` keeps callers from it;
- `free_list_allocator.h:18` says that freeing makes a new block and merges it; `free` stores the size 0
  in that block (`free_list_allocator.cpp:103`), and its words are lost for good: nothing fits it and nothing
  touches it (`OnlyFreeLoses`);
- `open` on a file that is open leaks its handle and its buffer (`file.cpp:68`), a seek backwards in a buffer that is
  read leaves it (`222`), and what a refused direct write reports is not initialised (`177`);
- `reserve` reads the states of a buffer that `realloc` has moved where they were before (`hash_table.inl:110`);
- `realloc` copies to what `aligned_alloc` returned even if that is NULL
  (`linear_allocator.inl:104`, the step `ReallocCrashes`);
- writes of which the system takes a part count as whole, and a failing read as -1 bytes
  (`file_linux.cpp:61`);
- a frame's uniforms are written before its fence is waited for (`eins.cpp:661`);
- every build needs the validation layer, and the result of creating the instance is only logged (`vulkan.cpp:211`);
- passes have no framebuffers when the swapchain has more than four images, or one (`vulkan.cpp:83`, `772`), whose
  array is then read beyond its length (`1071`); a resize to fewer images leaves framebuffers that the next one destroys
  a second time (`1200`), and a memory type is taken if it has any of the flags asked for (`vulkan.cpp:1208`);
- a self-closing element hands back a position that is one too far (`xml.cpp:157`), which also skips a
  text of one letter behind it; a closing name may be the beginning of the right one (`xml.cpp:128` and `148`),
  and behind a text any closing tag does, also one of another name that starts the same;
- a tag that is never closed, or that never comes, is read for beyond the buffer (`xml.cpp:45`);
- what a document lacks is followed as NULL (`dae.cpp:321`, `325`, `338`, `377`), a vertex with more than sixteen joints
  overflows (`dae.h:40`), joints without an
  animation are multiplied again with every update (`dae.cpp:228`), a time before the first
  key has no matrix (`dae.cpp:266`), joints and vertices are copied without a look at
  the 300 and the 32 MiB there is room for (`eins.cpp:441`, `448`, `665`);
- X11: a released key is noted as pressed (`window_x11.cpp:123`), the table of keys has six
  entries and is indexed with codes from 8 on (`17`), that of buttons with those of the wheel (`18`), and what the
  other buttons are called is swapped (`45`), so that one orbits with the right one; Windows: the right button is never seen down (`window_win.cpp:66`);
- the unnamed arguments of `g_cl` allocate from a temporary (`command_line.cpp:21`), `&&` binds before `||`
  in the check of a letter (`36`); none of these is reached by what eins registers.  `'z'` is beyond the table of
  letters (`command_line.h:39`), and `eins -z` reads there;
- a `WM_SIZE` that comes while `init` has a GPU and no `m_shared` writes through it (`eins.cpp:202`, `283`, `740`), and
  a backend that does not come up is used (`gpu.cpp:38`, `43`).

## 5. The proofs

Eight modules prove what the runs check on small instances, for every value of the constants.
What they assume of the constants is named in the modules (`...Assumption`) and
evaluated by TLC in the runs.  `tlapm` checks each of them alone; a slow machine may
need `--stretch 2`.

| Module | Theorem | Statement |
|---|---|---|
| `HashTableProofs` | `StaysWellFormed` | `Careful => (Spec => []WellFormed)` |
| | `Refinement` | `Careful => (Spec => ImplementsMap)` |
| | `SecondRehashMovesNothing` | the rehash that `operator[]` adds to that of `reserve` leaves the entries where they are |
| `FileProofs` | `BuffersAreSeparate` | `Spec => []Separate`, whatever callers do |
| | `BuffersAreOwned` | `Careful => (Spec => []BuffersOwned)` |
| | `OffsetsStay` | `Careful => (Spec => []TypeOK)` |
| | `StaysWellFormed` | `Careful => (Spec => []WellFormed)` |
| | `Refinement` | `Careful => (Spec => ImplementsStreams)` |
| `VulkanFrameProofs` | `DrawsSafe` | `ResizesPasses => (Spec => []DrawsSafely)` |
| | `OnlyTheSemaphoreBreaks` | `Spec => []OnlyTheSemaphore` |
| `D3d12FrameProofs` | `StaysWellFormed` | `Spec => []WellFormed` |
| | `KeepsTheRules` | `Spec => []RulesKept` |
| | `LagsNoFurther` | `Spec => []LagsOnce` |
| | `AllArrive` | `Spec => []TexturesArrive` |
| `EinsMainProofs` | `ReadsCorrectly` | `Spec => []ReadsAsGiven` |
| | `StartsCorrectly` | `Spec => []StartsAsAsked` |
| | `RecordsCorrectly` | `Spec => []RecordsWhatIsHeld` |
| | `FollowsTheMouse` | `Spec => []CameraFollows` |
| `EinsSceneProofs` | `Fits` | `Spec => []FitsTheMachine` |
| `FreeListAllocatorProofs` | `StaysWellFormed` | `Spec => []WellFormed` |
| | `ContentsStay` | `Spec => []ContentsKept` |
| | `FailuresAreUndone` | `Spec => FailuresUndone` |

Each of these modules also has `Invariance`, `Spec => []Inv` for its inductive invariant (in
`EinsMainProofs` the conjunction of three; in `HashTableProofs` and `FileProofs` for careful callers).
The hypotheses `Careful` and `ResizesPasses` are the obligations of section 3; they
are constants of the modules and `TRUE` in the runs of these properties.

### Linear allocator

`LinearAllocatorProofs` proves, for every set of sizes and alignments, every
header and page size, every address of a page, any number of handles, pages and
scopes:

    Invariance            Spec => []Inv
    TypeCorrect           Spec => []TypeOK
    BlocksStayInside      Spec => []BlocksInside
    BlocksStayDisjoint    Spec => []BlocksDisjoint
    ScopesAreSafe         Spec => []ScopesProtectOlder
    PointersStayAligned   Spec => []PointersAligned
    PagesAreNotLeaked     Spec => []NoPageLeak
    UsedStaysExact        Spec => []UsedExactWithoutScopes
    StaysWellFormed       Spec => []WellFormed

The inductive invariant is

    Inv == TypeOK /\ PagesLong /\ BlocksInside /\ BlocksDisjoint /\ ScopesProtectOlder

Disjointness alone is not inductive: a new block starts at `m_top`, so it needs
`BlocksInside` (every block ends at or below `m_top` or is on an earlier page).
`CloseScope` lowers `m_top`, so `BlocksInside` needs `ScopesProtectOlder` (what
survives the scope lies below its snapshot); `FreeTop` lowers it under an open
scope, which is harmless because what may be freed then lies above the snapshot.
A page that is walked again starts behind its header, hence `PagesLong`.  The
arithmetic of `align_forward_` is four lemmas (`AlignUpBounds`, `AlignUpMultiple`,
`AlignForwardBounds`, `AlignForwardAligned`), and `CarveShape` says what a block looks
like when it is made; one lemma per action follows.  `PointersAligned`, `NoPageLeak` and
`UsedExactWithoutScopes` are proved from `Inv`, and `WellFormed`, the
conjunction the run checks, from the first five theorems.  The only assumptions are
`SizesAssumption` (sizes are positive, the first page has room for its header) and
`NoBlockAssumption`.

### Hash table

    Inv == TypeOK /\ EveryKeyOnce /\ HalfFree /\ Phases /\ Room

`WellFormed` says in `NothingHidden` that probing for a key never stops at a free bucket
before its entry.  That is not inductive, since rehash frees buckets.  `Phases` says what
it follows from.  In the first pass after growing, probing for an entry that has its place only
passes entries that have theirs (`Reached`), and no later step moves those.  In the second
pass, the one `operator[]` adds, no free bucket lies before any entry (`Crowded`).  There are
by then more buckets behind the old ones than entries (`Room`), and from the two
follows that nothing moves (`SecondRehashMovesNothing`).  Probing is arithmetic modulo
the number of buckets: `Passed` names the buckets it goes through, and the lemmas about it
(`FirstProbedFinds`, `PassedOrder`) are all that the actions need.  For the refinement each step of
rehash is shown to leave `Stored` alone, and each return of a call to do what `HashMap` does.

### Files

    Inv == Types /\ BuffersOwned            CarefulInv == Inv /\ Places /\ ReadAhead

That no two files share a buffer, and that one that is in use is given to nobody else
(`Separate`), needs nothing of the callers.  All else needs `Careful`: a file opened twice leaves a
buffer to nobody, and a seek backwards takes the offset out of one.  `BuffersOwned` is inductive with
the types, and about what the files hold: every byte written is once on a disk or once in the
buffer of one file (`Places`), and what is left in a buffer for reading is what the disk has
just before the position (`ReadAhead`).  The refinement mapping takes a file and its
buffer to the stream: the disk with the unwritten bytes put on it (`After`), and the position
without the bytes read ahead (`Where`).  `SysWriteTwice` (writing one piece after another
writes both together) makes flushing a stutter.  Bytes are numbers, the first ones
negative or 0, so that a byte written is none of those (`FileAssumption`).

### Vulkan

    Inv == /\ TypeOK /\ Shapes /\ Fenced /\ CommandBufferIdle /\ TakingTurns /\ Handed
           /\ Views /\ InTime /\ Drawn /\ OnlyTheSemaphore

`Fenced` keeps the command buffers apart: an image whose batch is queued has its fence
reset, and is in one batch only.  `TakingTurns` is about the one semaphore of all frames: a rule of
Vulkan forbids handing it to an acquire while something is to be signaled or waited for, and
the model stops there; hence only the last batch may not have started, and a batch that has
is the first.  `Handed` says that what is to be presented are the images of the batches, in their
order, which keeps an image off the display until its batch is done (`Drawn`).  `InTime` is what holds
while the window keeps its size, and is what `OnlyTheSemaphore` needs.

### Direct3D 12

    Inv == /\ Types /\ Values /\ Allocators /\ BuffersFree /\ Copying /\ Lag /\ Tracks /\ Foreseen
           /\ RulesKept /\ TexturesArrive

Two facts carry it.  What somebody waits for in the queue is followed by a signal of at most
the value he waits for (`Covered`), and the signals in the queue are above the fence and
grow (`Between`): so when a wait ends, nothing of what was waited for is left.  And there is a way from
the states the GPU has reached, through every command of the queue and of the list being
recorded, to the states the program tracks, on which each command finds what it needs
(`Foreseen`); a step of the GPU goes along it, a barrier makes it longer.  `Tracks` says which
passes are still to come, and rests on `CompleteFrame`.  For the textures, the offsets at
which `create_texture` writes the rows and those at which the GPU reads them are the same
for every pitch and alignment; for a cube this needs `CarefulTexture`.  Any number of calls may fail:
what follows a failed Present or ResizeBuffers is only said to break the rules `RulesKept` names.

### eins

    LineInv == LineTypes /\ LettersLead /\ NothingRead /\ (parse # "before" => Understood /\ Parsed)
    MainInv == Stages /\ OneFlag /\ GpuChosen /\ SizeFollows
    WindowInv == WindowTypes /\ Cursor /\ Foretold

`LineInv`: letters lead to a flag even after refused registrations (`LettersLead`), and the
arguments read so far give the flags their values and the unnamed list its members (`Parsed`);
reading one more argument changes neither which of the earlier ones are values nor what they mean.
`MainInv`: each stage of `main` leaves what the next needs, and the one flag of eins decides the
GPU.  `WindowInv`: what the window has noted lags behind the user by the events in the
queue.  `Leads` is the outcome of handling them all, as a path through the queue from what
is noted now (`IsNow`), and
`Foretold` says that the end of such a path is what the user holds now and what he has dragged
(`Fits`); an event put in the queue makes the path longer, the handler takes its first step.  A
step of the path is one of `States`: what is noted and what the camera has done.  `Losses` says that
a button whose press or release a platform lost is one whose drags are no longer followed.
On Windows the program queues motions itself, by setting the cursor back, and a motion may replace
the last one queued; `Cursor` says where the cursor is when no motion is queued, and that a button
is used where the cursor is.  The path remembers with `met` whether the left and the middle button were
noted as down at the same time, or may have been; on Windows orbiting follows the mouse only where they were
not.

### Bringing Vulkan up

`Fits` holds on every machine that `MachinesAssumption` admits: any number of devices, of
families and of types of memory, any functions missing, as long as some family draws, some presents,
some memory can be mapped, and coherent memory can be mapped as well.  `Inv` says what each
step leaves: behind the loader every function is there, behind `ChooseFamilies`
the choice is that of the machine.  The argument that is easily missed is `PlainAsksOnce`: on a plain
machine the first family that transfers is not behind the first that draws, and the one that
presents is not before it, so the two are only the same if all three are, and the list of
queues (`vulkan.cpp:291`), which compares each with the first only, names none twice.

### Free list allocator

    Laid(s, F, os) == s \in StateSet /\ IsList(s, F) /\ Feet(s, F) /\ Blocks(s, os) /\ Apart(s, F, os)
    Good(s, os)    == (\E F : Laid(s, F, os)) /\ s.used = Cardinality(Taken(s, os))
    Inv            == Good(Allocator, objs) /\ broken \in BOOLEAN

for every region of at least two words that is not at NULL, any sizes, alignments and number of
blocks.  `F` is the set of the free blocks.  That each links to the next of them (`IsList`)
is easier to keep than the chain from `m_first_block`, and `ListIs` gets the chain back:
it is sorted, has the members of `F`, and ends within `MaxFree`, because that many blocks and
one more do not fit.  Sizes alone do not keep free blocks apart, since `free` leaves a block
whose size says 0; each was allocated once, though, with a header of three words and something
behind it, and `Feet` keeps these words (`Least`) for it.  `Blocks` says that headers are
those of what callers hold and the words have the callers' marks; `Apart` that no two
blocks meet.  An operation goes through states that are not `Good`, in which a block is neither
free nor held, so the lemmas are about its parts: a block taken out (`HeldIs`), its words put
on the list with the merges on either side (`Adding`), a free block handed out whole or in part
(`Placing`), the end of a block cut off (`CutGood`), and what `memmove` leaves
(`Vacates`, `Carries`).  For a realloc that fails, `RestoredWords` shows that freeing changed
no words but those that are restored and the two of the block itself, which are its own
again.  `FailuresUndone` then follows from the invariant of the state before.

### Functions by recursion

`IsValue`, which arguments are values, is a function defined by recursion.  That it exists and what
it is at each argument is proved from a least counterexample (`LeastNatural`), since the
induction theorems of the library cannot be instantiated.  `FreeAt` of the free list is another
(`ChainExists`).

## 6. What is only model-checked, and what is not modelled

Only checked by TLC, on the instances of section 4:
- every liveness property (`CallsReturn`, `WaitsEnd`, `FramesGoOn`, `SceneIsDrawn`,
  `StopsInTheEnd`): liveness under fairness and `ENABLED` are beyond the prover;
- `XmlParser` and `Collada`, whose searches are recursive operators, which the prover cannot
  be given, and `PngLoader` against `PngFormat`: that the decoder returns what was encoded, and
  refuses what was not, is for every image an induction over its data;
- what `EinsScene` says of the calls of `Gpu_t` (`ResourcesFit`, `DrawsAreWhole`, `PipelinesFit`,
  `TexturesAreTheirOwn`): the scene is one fixed list of calls, and nothing in it depends on the
  machine but the number of images, of which the run goes through one to five; more than the eight for
  whose views there is room (`vulkan.cpp:1375`) are left out.

Left out of modelled components: `read_whole_file_*` and `delete_*`, reads that fail, writes the
system takes in part, a flush that fails inside `seek` (`File`); erased slots, which no
code produces (`HashTable`); the pixel format, chunks with a wrong size and data that ends early
(`PngLoader`); which adapter Direct3D takes, the shader compiler and the fields of
create-infos no rule here is about (`VulkanResources`, `D3d12Resources`); the second axis of the
mouse, characters and further buttons (`Window`); conversions of numbers (`Collada`).
The frame modules and `EinsScene` share the calls of a frame and not its state: the first are
about time, buffers and fences, the second about what the calls bind.

Components not modelled, with the reason, are listed in `PROJECT.json`.  In short: math and the
sphere of eins are floating-point formulas; strings, paths, TrueType, OBJ, TGA and DDS are
conversions without a state of their own; arrays and lists are sequences in the modules that use
them, and whether a reference outlives a reallocation is a matter of C++ lifetimes; threads, time,
dynamic libraries and the debugger are wrappers of one call (no thread is started); reflection
is a build-time generator; the log is output, and its re-entry by the checks of the file it
writes to (`log.cpp:84`) is named here and not modelled; the Windows twin of `File` has the same
operations over another interface.
