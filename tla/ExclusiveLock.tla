--------------------------- MODULE ExclusiveLock ---------------------------
(***************************************************************************)
(* What remote/file.AcquireLock promises its callers, with nothing of how  *)
(* it keeps the promise: "AcquireLock blocks until it holds an exclusive   *)
(* lock on cacheKey" (remote/file/lock_resume.go:108).  One key.           *)
(***************************************************************************)
CONSTANT Callers              \* goroutines that may call AcquireLock

VARIABLE holders              \* the callers between AcquireLock's return and
                              \* their call of release

Init == holders = {}

Acquire(c) == holders = {} /\ holders' = {c}

Release(c) == c \in holders /\ holders' = holders \ {c}

\* A process that dies takes its callers with it.
Crash(S) == holders' = holders \ S

Next == \/ \E c \in Callers : Acquire(c) \/ Release(c)
        \/ \E S \in SUBSET Callers : Crash(S)

Spec == Init /\ [][Next]_holders

TypeOK == holders \subseteq Callers
=============================================================================
