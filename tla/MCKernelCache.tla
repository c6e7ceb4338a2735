--------------------------- MODULE MCKernelCache ---------------------------
(***************************************************************************)
(* Small instances of KernelCache: one process whose copy may be harmed in *)
(* any way, and two that share a copy whose structure may break.           *)
(***************************************************************************)
EXTENDS KernelCache

CONSTANTS a, b

One == [procs |-> {a}, maxFaults |-> 4,
        faultKinds |-> {"flip", "short", "garble", "io", "crash", "reissue"}]
Two == [procs |-> {a, b}, maxFaults |-> 2,
        faultKinds |-> {"short", "garble", "io", "undeletable", "crash", "reissue"}]
OneOrTwo == {One, Two}
=============================================================================
