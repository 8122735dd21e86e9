--------------------------- MODULE MCVulkanFrame ---------------------------
(***************************************************************************)
(* Swapchains of two or three images, and a window that changes its size   *)
(* twice.                                                                  *)
(***************************************************************************)
EXTENDS VulkanFrame
=============================================================================
