------------------------- MODULE MCKernelProvider -------------------------
(***************************************************************************)
(* A small instance of KernelProvider: a kernel whose two segments of one  *)
(* body leave a gap, one that overlaps it, and one in another frame.       *)
(***************************************************************************)
EXTENDS KernelProvider, TLC

CONSTANTS a, b, gap, over, bad

Span(t, from, to, frame) == [target |-> t, from |-> from, to |-> to, frame |-> frame]

Three ==
    (gap :> <<Span(1, 1, 1, "J2000"), Span(1, 3, 3, "J2000")>>) @@
    (over :> <<Span(1, 1, 2, "J2000"), Span(2, 2, 2, "J2000")>>) @@
    (bad :> <<Span(2, 1, 3, "J2000"), Span(1, 1, 3, "other")>>)
=============================================================================
