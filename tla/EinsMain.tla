------------------------------ MODULE EinsMain ------------------------------
(***************************************************************************)
(* The program eins from main to its end: core_init, the command line, the *)
(* window and the GPU that --gpu asks for (core/gpu/gpu.cpp), then         *)
(* os_loop.  The test program makes a command line of its own, with more   *)
(* flags, and ends with the parsing.                                       *)
(*                                                                         *)
(* main looks at no result: what fails in between leaves a program that    *)
(* uses what is not there, and is broken.  g_cl is a copy whose array of   *)
(* unnamed arguments allocates from the temporary that it was copied from  *)
(* (command_line.cpp:21): it may work, or not.                             *)
(***************************************************************************)
EXTENDS CommandLine, Window

CONSTANTS
  Start, Width,    \* where the cursor is, and how wide the window is made
  EinsArguments    \* the lists of arguments that eins may be given

Dx12 == [kind |-> "plain", name |-> "dx12"]

ASSUME EinsAssumption == Start \in Int /\ None # "gpu" /\ None # Dx12

VARIABLES
  program,   \* "eins" or "test"
  stage,     \* "core_init", "parse", "window", "gpu", "view", "os_loop"
  gpu,       \* the Gpu_t, or None
  broken     \* "no", or what there is not

mainVars == <<program, stage, gpu, broken>>
vars == <<lineVars, windowAll, mainVars>>

Init ==
  /\ InitLine /\ InitWindow(Start, Width)
  /\ program \in {"eins", "test"} /\ stage = "core_init" /\ gpu = None /\ broken = "no"

(* Command_line_t::init. *)
CoreInit ==
  /\ program = "eins" /\ stage = "core_init" /\ stage' = "parse"
  /\ Register(None, "gpu", "string", TRUE)
  /\ UNCHANGED <<windowAll, program, gpu, broken>>

(* command_line_test registers in any order, and parses. *)
RegisterAny ==
  /\ program = "test" /\ stage = "core_init" /\ parse = "before"
  /\ \E r \in Registrations : Register(r.short, r.long, r.type, r.wellFormed)
  /\ UNCHANGED <<windowAll, mainVars>>

ParseArguments ==
  /\ program = "test" \/ stage = "parse"
  /\ broken = "no" /\ Parse
  /\ program = "eins" => args' \in EinsArguments
  /\ broken' \in IF parse' = "beyond" THEN {"no letter"}
                 ELSE IF program = "eins" /\ unnamed' # unnamed THEN {"no", "no allocator"} ELSE {"no"}
  /\ stage' = IF program = "eins" /\ parse' \in {"true", "false"} THEN "window" ELSE stage
  /\ UNCHANGED <<windowAll, program, gpu>>

(* Window_t::init, which may fail; its result is not looked at. *)
OpenWindow ==
  /\ stage = "window" /\ broken = "no"
  /\ broken' \in {"no", "no window"} /\ stage' = "gpu"
  /\ UNCHANGED <<lineVars, windowAll, program, gpu>>

(* Gpu_t::init.  Where there is no Direct3D the pointer that eins goes on  *)
(* with is NULL; where init of the backend fails it goes on with what      *)
(* there is of it.                                                         *)
GpuInit ==
  /\ stage = "gpu" /\ broken = "no"
  /\ gpu' = IF GetFlagValue("gpu") = Dx12
            THEN (IF platform = "win" THEN "d3d12" ELSE None) ELSE "vulkan"
  /\ broken' \in IF gpu' = None THEN {"no GPU"} ELSE {"no", "no device"}
  /\ stage' = "view"
  /\ UNCHANGED <<lineVars, windowAll, program>>

(* The rest of Eins_window_t::init, and the call of os_loop. *)
StartLoop ==
  /\ stage = "view" /\ broken = "no" /\ stage' = "os_loop"
  /\ InitView /\ os_loop' = "runs"
  /\ UNCHANGED <<lineVars, program, gpu, broken>>

Elsewhere == UNCHANGED <<lineVars, mainVars>>

(* As soon as there is a GPU on_resized writes through m_shared, which     *)
(* init sets later (eins.cpp:283).                                         *)
ResizeEarly ==
  /\ stage \in {"gpu", "view"} /\ broken = "no"
  /\ \E width \in Sizes, plain \in BOOLEAN :
       /\ IsResized(width, plain)
       /\ broken' = IF stage = "view" /\ plain /\ platform = "win" THEN "no view" ELSE "no"
  /\ UNCHANGED <<lineVars, program, stage, gpu>>

Next ==
  \/ CoreInit \/ RegisterAny \/ ParseArguments \/ OpenWindow \/ GpuInit \/ StartLoop \/ ResizeEarly
  \/ Input /\ stage = "os_loop" /\ Elsewhere
  \/ OsLoop /\ Elsewhere

(* The loop polls as long as it runs; nothing makes the user do anything.  *)
Spec == Init /\ [][Next]_vars /\ WF_vars(OsLoop /\ Elsewhere)

-----------------------------------------------------------------------------
(* The loop only runs with a GPU, and with the one that was asked for: by  *)
(* the last --gpu that has a value, before the first argument that is      *)
(* refused; otherwise Vulkan.                                              *)
BackendAsAsked ==
  os_loop # "before" =>
    LET asked == {i \in 2 .. read : ~IsValue[i - 1] /\ args[i - 1] = [kind |-> "long", name |-> "gpu"]}
    IN  gpu = IF asked # {} /\ args[Max(asked)] = Dx12 THEN "d3d12" ELSE "vulkan"

(* What the loop starts with, and goes on with: the GPU that was asked     *)
(* for, and a view of the window's size.                                   *)
StartsAsAsked == BackendAsAsked /\ SizeFollows

=============================================================================
