---------------------------- MODULE MCFileCache ----------------------------
(***************************************************************************)
(* Small instances of FileCache: one caller alone with a cache that may be *)
(* damaged, and two callers in two processes, without and with reads that  *)
(* fail.                                                                   *)
(***************************************************************************)
EXTENDS FileCache, TLC

CONSTANTS a, b, pa, pb

TwoClients == (a :> pa) @@ (b :> pb)

\* The third version has the size of the first, which a copy may still be.
Sizes == <<2, 3, 2>>

One == [callers |-> {a}, validated |-> FALSE,
        faultKinds |-> {"io", "read", "crash", "damage"},
        maxFaults |-> 3, maxCalls |-> 4]
Two == [callers |-> {a, b}, validated |-> TRUE,
        faultKinds |-> {"io", "crash"}, maxFaults |-> 1, maxCalls |-> 2]
TwoReadFaults == [callers |-> {a, b}, validated |-> TRUE,
        faultKinds |-> {"read", "io"}, maxFaults |-> 2, maxCalls |-> 1]
OneOrTwo == {One, Two, TwoReadFaults}
=============================================================================
