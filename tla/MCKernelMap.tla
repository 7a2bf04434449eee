--------------------------- MODULE MCKernelMap ---------------------------
(* The instance of KernelMap and PageAllocator for TLC.                    *)
EXTENDS KernelMap
=============================================================================
