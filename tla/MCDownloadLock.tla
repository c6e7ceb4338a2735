--------------------------- MODULE MCDownloadLock ---------------------------
(***************************************************************************)
(* Two processes sharing one cache directory; the first runs two callers,  *)
(* so that they meet at the semaphore as well as at the lock object.  One  *)
(* unit of time is the default download timeout, ten minutes.              *)
(***************************************************************************)
EXTENDS DownloadLock, TLC

CONSTANTS a1, a2, b1, pa, pb

TwoProcesses == (a1 :> pa) @@ (a2 :> pa) @@ (b1 :> pb)

\* Both processes use the default timeout: 10 minutes, stale after 20.
DefaultTimeouts == [c \in Callers |-> 1]

\* One caller of each process calls again.
Calls == [c \in Callers |-> IF c = a2 THEN 1 ELSE 2]

\* An endpoint with 30 minutes, stale after 30, and a caller that asked for
\* the default instead (WithDownloadTimeout).
LongTimeouts == [c \in Callers |-> IF c = a1 THEN 1 ELSE 3]
=============================================================================
