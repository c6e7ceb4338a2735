---------------------------- MODULE DownloadLock ----------------------------
(***************************************************************************)
(* The download lock of remote/file/lock_resume.go, for one cache key: the *)
(* in-process semaphore (keyedSemaphore), and behind it the lock object    *)
(* that processes sharing a cache directory create exclusively, poll, and  *)
(* steal when it is old.                                                   *)
(*                                                                         *)
(* A caller is one goroutine.  Each step is one file-system operation or   *)
(* one channel operation of AcquireLock, so that callers of several        *)
(* processes interleave between the Stat that finds a lock old and the     *)
(* Remove that steals it.  Time passes in Tick; a crash ends a process     *)
(* between any two steps and it comes back with empty memory.              *)
(***************************************************************************)
EXTENDS Integers

CONSTANTS
    Callers,       \* goroutines that call AcquireLock
    Procs,         \* operating-system processes sharing the cache directory
    ProcOf,        \* the process each caller runs in
    Timeout,       \* the download timeout each caller works under
    StaleLockAge,  \* staleLockAge, the age no lock outlives
    Overhead,      \* how long a holder works outside the timed download
    None,          \* no caller
    MaxFaults,     \* bound on crashes and failing file operations
    MaxCalls       \* bound on the calls each caller makes

ASSUME CallersAssumption == ProcOf \in [Callers -> Procs] /\ None \notin Callers
ASSUME TimeAssumption == /\ Timeout \in [Callers -> Nat]
                         /\ StaleLockAge \in Nat
                         /\ Overhead \in Nat
ASSUME BoundsAssumption == MaxFaults \in Nat /\ MaxCalls \in [Callers -> Nat]

\* Faulty variant of StaleAfter: the timeout itself, not twice the timeout.
StaleAfterOneTimeout(c) == IF Timeout[c] > 0 /\ Timeout[c] < StaleLockAge
                           THEN Timeout[c] ELSE StaleLockAge

\* The age past which c takes a lock for abandoned: its caller asks for twice
\* the download timeout, and AcquireLock accepts that only to lower its own.
StaleAfter(c) == IF 2 * Timeout[c] > 0 /\ 2 * Timeout[c] < StaleLockAge
                 THEN 2 * Timeout[c] ELSE StaleLockAge

\* The longest c keeps a lock object before it is done with it: the timed
\* download, and what runs under the lock but outside that timeout.
Hold(c) == Timeout[c] + Overhead

VARIABLES
    pc,         \* where each caller is in AcquireLock
    slot,       \* who has the in-process semaphore of the key, per process
    lock,       \* who created the lock object that exists, or None; the
                \* code cannot read it: the object has no owner recorded
    age,        \* time since that object was created
    heldFor,    \* time since each caller created its own lock object
    cancelled,  \* callers whose context is done
    outstayed,  \* an owner has worked longer than some caller allows (history)
    calls,      \* calls each caller has made (bound)
    faults      \* crashes and failures so far (bound)

vars == <<pc, slot, lock, age, heldFor, cancelled, outstayed, calls, faults>>

Idle == "idle"

\* Positions at which a caller owns the in-process semaphore.
Inside == {"loop", "made", "stat", "steal", "wait", "held", "unlocked"}

\* Positions at which a caller has created a lock object and is not done.
Owning == {"made", "held"}

holders == {c \in Callers : pc[c] = "held"}

Init ==
    /\ pc = [c \in Callers |-> Idle]
    /\ slot = [p \in Procs |-> None]
    /\ lock = None
    /\ age = 0
    /\ heldFor = [c \in Callers |-> 0]
    /\ cancelled = {}
    /\ outstayed = FALSE
    /\ calls = [c \in Callers |-> 0]
    /\ faults = 0
----------------------------------------------------------------------------
Goto(c, l) == pc' = [pc EXCEPT ![c] = l]

\* AcquireLock's deferred release on an error, and the end of release.
FreeSlot(c) == slot' = [slot EXCEPT ![ProcOf[c]] = None]

Fault == faults < MaxFaults /\ faults' = faults + 1

\* A call that returns without the lock: the deferred release gives the
\* semaphore back, and the call's context goes with it.
ReturnError(c) ==
    /\ Goto(c, Idle)
    /\ FreeSlot(c)
    /\ cancelled' = cancelled \ {c}

Call(c) ==
    /\ pc[c] = Idle
    /\ calls[c] < MaxCalls[c]
    /\ calls' = [calls EXCEPT ![c] = @ + 1]
    /\ Goto(c, "queued")
    /\ UNCHANGED <<slot, lock, age, heldFor, cancelled, outstayed, faults>>

\* The two arms of keyedSemaphore.acquire's select; either may be chosen
\* when both are ready.
TakeSlot(c) ==
    /\ pc[c] = "queued"
    /\ slot[ProcOf[c]] = None
    /\ slot' = [slot EXCEPT ![ProcOf[c]] = c]
    /\ Goto(c, "loop")
    /\ UNCHANGED <<lock, age, heldFor, cancelled, outstayed, calls, faults>>

\* Faulty variant of GiveUpSlot: a plain mutex, deaf to the context.
GiveUpSlotNever(c) == FALSE /\ UNCHANGED vars

GiveUpSlot(c) ==
    /\ pc[c] = "queued"
    /\ c \in cancelled
    /\ Goto(c, Idle)
    /\ cancelled' = cancelled \ {c}
    /\ UNCHANGED <<slot, lock, age, heldFor, outstayed, calls, faults>>

\* The context is checked before every attempt, by the loop and again by the
\* backend.
StopLoop(c) ==
    /\ pc[c] = "loop"
    /\ c \in cancelled
    /\ ReturnError(c)
    /\ UNCHANGED <<lock, age, heldFor, outstayed, calls, faults>>

\* CreateExcl creates the object in one step, or says that it exists.
CreateExcl(c) ==
    /\ pc[c] = "loop"
    /\ c \notin cancelled
    /\ lock = None
    /\ lock' = c
    /\ age' = 0
    /\ heldFor' = [heldFor EXCEPT ![c] = 0]
    /\ Goto(c, "made")
    /\ UNCHANGED <<slot, cancelled, outstayed, calls, faults>>

CreateExists(c) ==
    /\ pc[c] = "loop"
    /\ c \notin cancelled
    /\ lock # None
    /\ Goto(c, "stat")
    /\ UNCHANGED <<slot, lock, age, heldFor, cancelled, outstayed, calls, faults>>

\* Any other error of CreateExcl.
CreateFails(c) ==
    /\ pc[c] = "loop"
    /\ Fault
    /\ ReturnError(c)
    /\ UNCHANGED <<lock, age, heldFor, outstayed, calls>>

CloseLock(c) ==
    /\ pc[c] = "made"
    /\ Goto(c, "held")
    /\ UNCHANGED <<slot, lock, age, heldFor, cancelled, outstayed, calls, faults>>

\* Faulty variant of CloseFails: the semaphore is not given back.
CloseFailsKeepsSlot(c) ==
    /\ pc[c] = "made"
    /\ Fault
    /\ Goto(c, Idle)
    /\ cancelled' = cancelled \ {c}
    /\ UNCHANGED <<slot, lock, age, heldFor, outstayed, calls>>

\* The object was created and closing it failed: the call returns the error
\* and leaves the object behind.
CloseFails(c) ==
    /\ pc[c] = "made"
    /\ Fault
    /\ ReturnError(c)
    /\ UNCHANGED <<lock, age, heldFor, outstayed, calls>>

\* Faulty variant of StatStale: any existing lock is judged abandoned.
StatStaleAtAnyAge(c) ==
    /\ pc[c] = "stat"
    /\ c \notin cancelled
    /\ lock # None
    /\ Goto(c, "steal")
    /\ UNCHANGED <<slot, lock, age, heldFor, cancelled, outstayed, calls, faults>>

\* Stat under the caller's context: no object, a young one or a done context
\* all lead to the wait, as does any other error of Stat.
StatStale(c) ==
    /\ pc[c] = "stat"
    /\ c \notin cancelled
    /\ lock # None
    /\ age > StaleAfter(c)
    /\ Goto(c, "steal")
    /\ UNCHANGED <<slot, lock, age, heldFor, cancelled, outstayed, calls, faults>>

StatOther(c) ==
    /\ pc[c] = "stat"
    /\ \/ c \in cancelled
       \/ lock = None
       \/ age <= StaleAfter(c)
    /\ Goto(c, "wait")
    /\ UNCHANGED <<slot, lock, age, heldFor, cancelled, outstayed, calls, faults>>

StatFails(c) ==
    /\ pc[c] = "stat"
    /\ Fault
    /\ Goto(c, "wait")
    /\ UNCHANGED <<slot, lock, age, heldFor, cancelled, outstayed, calls>>

\* Faulty variant of Steal: the object is never removed.
StealNothing(c) ==
    /\ pc[c] = "steal"
    /\ Goto(c, "wait")
    /\ UNCHANGED <<slot, lock, age, heldFor, cancelled, outstayed, calls, faults>>

\* Remove, by name: whatever object is there now goes.  A done context makes
\* it do nothing; its error is ignored.
Steal(c) ==
    /\ pc[c] = "steal"
    /\ lock' = IF c \in cancelled THEN lock ELSE None
    /\ age' = IF c \in cancelled THEN age ELSE 0
    /\ Goto(c, "wait")
    /\ UNCHANGED <<slot, heldFor, cancelled, outstayed, calls, faults>>

StealFails(c) ==
    /\ pc[c] = "steal"
    /\ Fault
    /\ Goto(c, "wait")
    /\ UNCHANGED <<slot, lock, age, heldFor, cancelled, outstayed, calls>>

\* The select between the context and the retry delay.
Retry(c) ==
    /\ pc[c] = "wait"
    /\ Goto(c, "loop")
    /\ UNCHANGED <<slot, lock, age, heldFor, cancelled, outstayed, calls, faults>>

StopWaiting(c) ==
    /\ pc[c] = "wait"
    /\ c \in cancelled
    /\ ReturnError(c)
    /\ UNCHANGED <<lock, age, heldFor, outstayed, calls, faults>>

\* release: Remove by name under a context that cannot be done, its error
\* ignored, and only then the semaphore.
RemoveLock(c) ==
    /\ pc[c] = "held"
    /\ lock' = None
    /\ age' = 0
    /\ Goto(c, "unlocked")
    /\ UNCHANGED <<slot, heldFor, cancelled, outstayed, calls, faults>>

RemoveFails(c) ==
    /\ pc[c] = "held"
    /\ Fault
    /\ Goto(c, "unlocked")
    /\ UNCHANGED <<slot, lock, age, heldFor, cancelled, outstayed, calls>>

LeaveSlot(c) ==
    /\ pc[c] = "unlocked"
    /\ ReturnError(c)
    /\ UNCHANGED <<lock, age, heldFor, outstayed, calls, faults>>
----------------------------------------------------------------------------
\* The environment: a context ends, a process dies, time passes.
Cancel(c) ==
    /\ pc[c] # Idle
    /\ c \notin cancelled
    /\ cancelled' = cancelled \union {c}
    /\ UNCHANGED <<pc, slot, lock, age, heldFor, outstayed, calls, faults>>

Crash(p) ==
    /\ Fault
    /\ \E c \in Callers : ProcOf[c] = p /\ pc[c] # Idle
    /\ pc' = [c \in Callers |-> IF ProcOf[c] = p THEN Idle ELSE pc[c]]
    /\ slot' = [slot EXCEPT ![p] = None]
    /\ cancelled' = {c \in cancelled : ProcOf[c] # p}
    /\ UNCHANGED <<lock, age, heldFor, outstayed, calls>>

\* Time passes for the lock object and for its owners.  An owner is done when
\* its time is up; no age past StaleLockAge is told from another.
Tick ==
    /\ \A c \in Callers : pc[c] \in Owning => heldFor[c] < Hold(c)
    /\ \/ lock # None /\ age <= StaleLockAge
       \/ \E c \in Callers : pc[c] \in Owning
    /\ age' = IF lock # None /\ age <= StaleLockAge THEN age + 1 ELSE age
    /\ heldFor' = [c \in Callers |->
                     IF pc[c] \in Owning THEN heldFor[c] + 1 ELSE 0]
    /\ outstayed' = (outstayed \/ \E c, d \in Callers : heldFor'[c] > StaleAfter(d))
    /\ UNCHANGED <<pc, slot, lock, cancelled, calls, faults>>

\* What the caller's goroutine does by itself once it has called.
Step(c) ==
    \/ TakeSlot(c) \/ GiveUpSlot(c)
    \/ StopLoop(c) \/ CreateExcl(c) \/ CreateExists(c)
    \/ CloseLock(c)
    \/ StatStale(c) \/ StatOther(c) \/ Steal(c)
    \/ Retry(c) \/ StopWaiting(c)
    \/ RemoveLock(c) \/ LeaveSlot(c)

Failure(c) == CreateFails(c) \/ CloseFails(c) \/ StatFails(c) \/ StealFails(c) \/ RemoveFails(c)

Next ==
    \/ \E c \in Callers : Call(c) \/ Step(c) \/ Failure(c) \/ Cancel(c)
    \/ \E p \in Procs : Crash(p)
    \/ Tick

Spec == Init /\ [][Next]_vars

\* Goroutines that wait are scheduled, and clocks run.  A holder need not
\* finish: that is its download's affair, and what depends on it says so.
Waits(c) == Step(c) /\ pc[c] # "held"
FairSpec == Spec /\ WF_vars(Tick) /\ \A c \in Callers : WF_vars(Waits(c))
----------------------------------------------------------------------------
TypeOK ==
    /\ pc \in [Callers -> Inside \union {Idle, "queued"}]
    /\ slot \in [Procs -> Callers \union {None}]
    /\ lock \in Callers \union {None}
    /\ age \in 0 .. StaleLockAge + 1
    /\ heldFor \in [Callers -> Nat]
    /\ cancelled \subseteq Callers
    /\ outstayed \in BOOLEAN
    /\ calls \in [Callers -> Nat] /\ \A c \in Callers : calls[c] <= MaxCalls[c]
    /\ faults \in 0 .. MaxFaults

\* The semaphore of a process belongs to exactly the caller that is past it:
\* no error path, no release and no crash leaves it taken by a caller that is
\* gone ("the next caller for this key waits on a holder that no longer
\* exists", lock_resume.go:167), and no two callers of a process are past it.
SlotMatches ==
    \A c \in Callers : slot[ProcOf[c]] = c <=> pc[c] \in Inside

\* Whatever is stolen from whom, goroutines of one process never hold the
\* lock together: the guarantee inProcess adds to the lock object.
OneHolderPerProcess ==
    \A c, d \in holders : ProcOf[c] = ProcOf[d] => c = d

\* AcquireLock "blocks until it holds an exclusive lock"
\* (lock_resume.go:108): two callers are never both past it.
MutualExclusion == \A c, d \in holders : c = d

\* As long as nothing failed and no owner worked longer than the others allow,
\* the lock is exclusive between processes too.
Orderly == faults = 0 /\ ~outstayed
ExclusiveWhileOrderly == Orderly => MutualExclusion

\* A holder that is still at work is taken for a crashed one only when it has
\* held for more than twice the timeout of the caller that judges it, or for
\* more than staleLockAge: time measured on the object is never charged to a
\* later holder.  "One older than twice it is not downloading: it crashed"
\* (remote/fetch.go:301-302) promises more, and does not hold where twice the
\* timeout is longer than staleLockAge or callers differ in their timeouts.
AbandonedMeansOverdue ==
    [][\A c \in Callers : StatStale(c) /\ lock \in holders =>
         \/ heldFor[lock] > 2 * Timeout[c]
         \/ heldFor[lock] > StaleLockAge]_vars

\* Whatever crashed and left its lock object behind, callers do not wait for
\* a lock that is in nobody's hands: a call ends, or somebody gets the lock.
\* (More is not promised: a caller that polls may lose every race.)
NobodyWaitsInVain ==
    \A c \in Callers : pc[c] # Idle ~> pc[c] = Idle \/ holders # {}

\* A caller whose context is done stops waiting, be it for the semaphore or
\* for the lock object, even while the holder never finishes.
CancelledStopsWaiting ==
    \A c \in Callers : c \in cancelled ~> pc[c] \in {Idle, "held"}

\* The lock implements its specification until something fails or an owner
\* overstays.  From then on an object without an owner, or of a holder that is
\* still at work, may be stolen, and exclusion between processes is no longer
\* promised: to the abstract lock all holders crashed.
trusted == IF Orderly THEN holders ELSE {}
Abstract == INSTANCE ExclusiveLock WITH holders <- trusted
Implements == Abstract!Spec
=============================================================================
