------------------------- MODULE DownloadLock_proofs -------------------------
(***************************************************************************)
(* Theorems about the download lock, for any number of processes, callers, *)
(* faults and calls and for any timeouts, the ones longer than             *)
(* staleLockAge included.                                                  *)
(***************************************************************************)
EXTENDS DownloadLock, TLAPS

USE CallersAssumption, TimeAssumption, BoundsAssumption

\* The type invariant: every variable keeps its type, the age and the two
\* counters their bounds.
THEOREM TypeCorrect == Spec => []TypeOK
<1> USE DEF TypeOK, Inside, Owning, Idle
<1>1. Init => TypeOK
  <2> SUFFICES ASSUME Init PROVE TypeOK
    OBVIOUS
  <2>1. \A c \in Callers : calls[c] <= MaxCalls[c]
    <3> SUFFICES ASSUME NEW c \in Callers PROVE calls[c] <= MaxCalls[c]
      OBVIOUS
    <3>1. calls[c] = 0 /\ MaxCalls[c] \in Nat
      BY DEF Init
    <3>2. \A n \in Nat : 0 <= n
      OBVIOUS
    <3>3. 0 <= MaxCalls[c]
      BY <3>1, <3>2
    <3>4. QED BY <3>1, <3>3
  <2>2. age \in 0 .. StaleLockAge + 1 /\ faults \in 0 .. MaxFaults
    BY DEF Init
  <2>3. QED BY <2>1, <2>2 DEF Init
<1>2. TypeOK /\ [Next]_vars => TypeOK'
  <2> SUFFICES ASSUME TypeOK, [Next]_vars PROVE TypeOK'
    OBVIOUS
  <2> USE DEF Goto, FreeSlot, ReturnError, Fault
  <2>1. ASSUME NEW c \in Callers, Call(c) PROVE TypeOK'
    BY <2>1 DEF Call
  <2>2. ASSUME NEW c \in Callers, Step(c) PROVE TypeOK'
    <3>1. CASE TakeSlot(c) \/ GiveUpSlot(c)
      BY <3>1 DEF TakeSlot, GiveUpSlot
    <3>2. CASE StopLoop(c) \/ StopWaiting(c) \/ LeaveSlot(c)
      BY <3>2 DEF StopLoop, StopWaiting, LeaveSlot
    <3>3. CASE CreateExcl(c)
      BY <3>3 DEF CreateExcl
    <3>4. CASE CreateExists(c) \/ CloseLock(c) \/ Retry(c)
      BY <3>4 DEF CreateExists, CloseLock, Retry
    <3>5. CASE StatStale(c) \/ StatOther(c)
      BY <3>5 DEF StatStale, StatOther
    <3>6. CASE Steal(c) \/ RemoveLock(c)
      BY <3>6 DEF Steal, RemoveLock
    <3>7. QED BY <2>2, <3>1, <3>2, <3>3, <3>4, <3>5, <3>6 DEF Step
  <2>3. ASSUME NEW c \in Callers, Failure(c) PROVE TypeOK'
    BY <2>3 DEF Failure, CreateFails, CloseFails, StatFails, StealFails, RemoveFails
  <2>4. ASSUME NEW c \in Callers, Cancel(c) PROVE TypeOK'
    BY <2>4 DEF Cancel
  <2>5. ASSUME NEW p \in Procs, Crash(p) PROVE TypeOK'
    BY <2>5 DEF Crash
  <2>6. CASE Tick
    BY <2>6 DEF Tick
  <2>7. CASE UNCHANGED vars
    BY <2>7 DEF vars
  <2>8. QED BY <2>1, <2>2, <2>3, <2>4, <2>5, <2>6, <2>7 DEF Next
<1>3. QED BY <1>1, <1>2, PTL DEF Spec

\* The semaphore of a process is owned by exactly the caller that is past it:
\* keyedSemaphore, and the deferred release of every error path.
THEOREM SlotCorrect == Spec => []SlotMatches
<1> USE DEF SlotMatches, Inside, Idle
<1>1. Init => SlotMatches
  BY DEF Init
<1>2. TypeOK /\ SlotMatches /\ [Next]_vars => SlotMatches'
  <2> SUFFICES ASSUME TypeOK, SlotMatches, [Next]_vars PROVE SlotMatches'
    OBVIOUS
  <2> USE DEF TypeOK, Goto, FreeSlot, ReturnError
  <2>1. ASSUME NEW c \in Callers, Call(c) PROVE SlotMatches'
    BY <2>1 DEF Call
  <2>2. ASSUME NEW c \in Callers, Step(c) PROVE SlotMatches'
    <3>1. CASE TakeSlot(c)
      BY <3>1 DEF TakeSlot
    <3>2. CASE GiveUpSlot(c)
      BY <3>2 DEF GiveUpSlot
    <3>3. CASE StopLoop(c) \/ StopWaiting(c) \/ LeaveSlot(c)
      BY <3>3 DEF StopLoop, StopWaiting, LeaveSlot
    <3>4. CASE CreateExcl(c) \/ CreateExists(c) \/ CloseLock(c) \/ Retry(c)
      BY <3>4 DEF CreateExcl, CreateExists, CloseLock, Retry
    <3>5. CASE StatStale(c) \/ StatOther(c) \/ Steal(c) \/ RemoveLock(c)
      BY <3>5 DEF StatStale, StatOther, Steal, RemoveLock
    <3>6. QED BY <2>2, <3>1, <3>2, <3>3, <3>4, <3>5 DEF Step
  <2>3. ASSUME NEW c \in Callers, Failure(c) PROVE SlotMatches'
    BY <2>3 DEF Failure, CreateFails, CloseFails, StatFails, StealFails, RemoveFails
  <2>4. ASSUME NEW c \in Callers, Cancel(c) PROVE SlotMatches'
    BY <2>4 DEF Cancel
  <2>5. ASSUME NEW p \in Procs, Crash(p) PROVE SlotMatches'
    BY <2>5 DEF Crash
  <2>6. CASE Tick
    BY <2>6 DEF Tick
  <2>7. CASE UNCHANGED vars
    BY <2>7 DEF vars
  <2>8. QED BY <2>1, <2>2, <2>3, <2>4, <2>5, <2>6, <2>7 DEF Next
<1>3. QED BY <1>1, <1>2, TypeCorrect, PTL DEF Spec

\* Two callers of one process never hold the lock together, whatever any
\* process crashed in or stole.
THEOREM ProcessExclusion == Spec => []OneHolderPerProcess
<1>1. SlotMatches => OneHolderPerProcess
  BY DEF SlotMatches, OneHolderPerProcess, holders, Inside
<1>2. QED BY <1>1, SlotCorrect, PTL
----------------------------------------------------------------------------
\* An object in its creator's hands is no older than the creator's work on it.
WorkTracked ==
    \A c \in Callers : pc[c] \in Owning /\ lock = c => age <= heldFor[c]

\* Until somebody overstays, no work is longer than any caller allows.
InTime ==
    ~outstayed => \A c, d \in Callers :
        pc[c] \in Owning => heldFor[c] <= StaleAfter(d)

\* While all goes well, the object exists exactly while its creator owns it,
\* and nobody is about to steal it.
LockedWhileOwned ==
    Orderly => \A c \in Callers : /\ lock = c <=> pc[c] \in Owning
                                  /\ pc[c] # "steal"

LockInv == WorkTracked /\ InTime /\ LockedWhileOwned

LEMMA StaleAfterType == \A c \in Callers : StaleAfter(c) \in Nat
BY DEF StaleAfter

\* While nobody has overstayed, an object in its owner's hands is too young to
\* steal.
LEMMA OwnedIsYoung ==
  ASSUME TypeOK, WorkTracked, InTime, ~outstayed,
         NEW c \in Callers, NEW d \in Callers, lock = d, pc[d] \in Owning
  PROVE  ~ (age > StaleAfter(c))
<1>1. StaleAfter(c) \in Nat /\ age \in Nat /\ heldFor[d] \in Nat
  BY StaleAfterType DEF TypeOK
<1>2. age <= heldFor[d] /\ heldFor[d] <= StaleAfter(c)
  BY DEF WorkTracked, InTime
<1>3. QED BY <1>1, <1>2

\* LockInv is inductive.
LEMMA LockInvariant == Spec => []LockInv
<1>1. Init => LockInv
  BY DEF Init, LockInv, WorkTracked, InTime, LockedWhileOwned, Owning, Idle
<1>2. TypeOK /\ LockInv /\ [Next]_vars => LockInv'
  <2> SUFFICES ASSUME TypeOK, LockInv, [Next]_vars PROVE LockInv'
    OBVIOUS
  <2> USE DEF TypeOK, Owning, Idle, Inside, Goto, FreeSlot, ReturnError, Fault, Orderly
  <2>h. \A c \in Callers : StaleAfter(c) \in Nat /\ StaleAfter(c)' = StaleAfter(c)
    BY StaleAfterType DEF StaleAfter
  <2>1. ASSUME NEW c \in Callers, Call(c) PROVE LockInv'
    BY <2>1, <2>h DEF Call, LockInv, WorkTracked, InTime, LockedWhileOwned
  <2>2. ASSUME NEW c \in Callers, Step(c) PROVE LockInv'
    <3>1. CASE TakeSlot(c) \/ GiveUpSlot(c)
      BY <3>1, <2>h DEF TakeSlot, GiveUpSlot, LockInv, WorkTracked, InTime, LockedWhileOwned
    <3>2. CASE StopLoop(c) \/ StopWaiting(c) \/ LeaveSlot(c)
      BY <3>2, <2>h DEF StopLoop, StopWaiting, LeaveSlot, LockInv, WorkTracked, InTime,
                        LockedWhileOwned
    <3>3. CASE CreateExcl(c)
      <4>1. WorkTracked'
        BY <3>3 DEF CreateExcl, LockInv, WorkTracked
      <4>2. InTime'
        BY <3>3, <2>h DEF CreateExcl, LockInv, InTime
      <4>3. LockedWhileOwned'
        BY <3>3 DEF CreateExcl, LockInv, LockedWhileOwned
      <4>4. QED BY <4>1, <4>2, <4>3 DEF LockInv
    <3>4. CASE CreateExists(c) \/ CloseLock(c) \/ Retry(c)
      BY <3>4, <2>h DEF CreateExists, CloseLock, Retry, LockInv, WorkTracked, InTime,
                        LockedWhileOwned
    <3>5. CASE StatStale(c)
      <4>1. WorkTracked' /\ InTime'
        BY <3>5, <2>h DEF StatStale, LockInv, WorkTracked, InTime
      <4>2. ~Orderly
        <5>1. ASSUME Orderly PROVE FALSE
          <6>1. lock \in Callers /\ pc[lock] \in Owning
            BY <3>5, <5>1 DEF StatStale, LockInv, LockedWhileOwned
          <6>2. QED BY <3>5, <5>1, <6>1, OwnedIsYoung DEF StatStale, LockInv
        <5>2. QED BY <5>1
      <4>3. LockedWhileOwned'
        BY <3>5, <4>2 DEF StatStale, LockedWhileOwned
      <4>4. QED BY <4>1, <4>3 DEF LockInv
    <3>6. CASE StatOther(c)
      BY <3>6, <2>h DEF StatOther, LockInv, WorkTracked, InTime, LockedWhileOwned
    <3>7. CASE Steal(c)
      BY <3>7, <2>h DEF Steal, LockInv, WorkTracked, InTime, LockedWhileOwned
    <3>8. CASE RemoveLock(c)
      BY <3>8, <2>h DEF RemoveLock, LockInv, WorkTracked, InTime, LockedWhileOwned
    <3>9. QED BY <2>2, <3>1, <3>2, <3>3, <3>4, <3>5, <3>6, <3>7, <3>8 DEF Step
  <2>3. ASSUME NEW c \in Callers, Failure(c) PROVE LockInv'
    BY <2>3, <2>h DEF Failure, CreateFails, CloseFails, StatFails, StealFails, RemoveFails,
                      LockInv, WorkTracked, InTime, LockedWhileOwned
  <2>4. ASSUME NEW c \in Callers, Cancel(c) PROVE LockInv'
    BY <2>4, <2>h DEF Cancel, LockInv, WorkTracked, InTime, LockedWhileOwned
  <2>5. ASSUME NEW p \in Procs, Crash(p) PROVE LockInv'
    BY <2>5, <2>h DEF Crash, LockInv, WorkTracked, InTime, LockedWhileOwned
  <2>6. CASE Tick
    <3>1. WorkTracked'
      <4> SUFFICES ASSUME NEW c \in Callers, pc'[c] \in Owning, lock' = c
                   PROVE  age' <= heldFor'[c]
        BY DEF WorkTracked
      <4>1. age \in Nat /\ heldFor[c] \in Nat
        OBVIOUS
      <4>2. age <= heldFor[c] /\ heldFor'[c] = heldFor[c] + 1 /\ age' \in {age, age + 1}
        BY <2>6 DEF Tick, LockInv, WorkTracked
      <4>3. QED BY <4>1, <4>2
    <3>2. InTime'
      <4> SUFFICES ASSUME ~outstayed', NEW c \in Callers, NEW d \in Callers
                   PROVE  heldFor'[c] <= StaleAfter(d)
        BY <2>h DEF InTime
      <4>1. heldFor'[c] \in Nat /\ StaleAfter(d) \in Nat
        BY <2>6, <2>h DEF Tick
      <4>2. ~ (heldFor'[c] > StaleAfter(d))
        BY <2>6 DEF Tick
      <4>3. QED BY <4>1, <4>2
    <3>3. LockedWhileOwned'
      BY <2>6 DEF Tick, LockInv, LockedWhileOwned
    <3>4. QED BY <3>1, <3>2, <3>3 DEF LockInv
  <2>7. CASE UNCHANGED vars
    BY <2>7, <2>h DEF vars, LockInv, WorkTracked, InTime, LockedWhileOwned
  <2>8. QED BY <2>1, <2>2, <2>3, <2>4, <2>5, <2>6, <2>7 DEF Next
<1>3. QED BY <1>1, <1>2, TypeCorrect, PTL DEF Spec

\* Between processes the lock is exclusive for as long as nothing has failed
\* and no owner has worked for longer than the others allow.
THEOREM Exclusive == Spec => []ExclusiveWhileOrderly
<1>1. LockInv => ExclusiveWhileOrderly
  BY DEF LockInv, LockedWhileOwned, ExclusiveWhileOrderly, MutualExclusion, holders, Owning
<1>2. QED BY <1>1, LockInvariant, PTL

\* A holder at work is never taken for a crashed one earlier than twice the
\* timeout of the caller that judges it, or staleLockAge, after its own
\* CreateExcl, however many processes crash and whatever is stolen.
THEOREM OverdueOnly == Spec => AbandonedMeansOverdue
<1>1. TypeOK /\ LockInv =>
        [\A c \in Callers : StatStale(c) /\ lock \in holders =>
            \/ heldFor[lock] > 2 * Timeout[c]
            \/ heldFor[lock] > StaleLockAge]_vars
  <2> SUFFICES ASSUME TypeOK, LockInv, NEW c \in Callers, StatStale(c), lock \in holders
               PROVE \/ heldFor[lock] > 2 * Timeout[c]
                     \/ heldFor[lock] > StaleLockAge
    OBVIOUS
  <2>1. age \in Nat /\ heldFor[lock] \in Nat /\ Timeout[c] \in Nat
    BY DEF TypeOK, holders
  <2>2. age <= heldFor[lock]
    BY DEF LockInv, WorkTracked, holders, Owning
  <2>3. age > StaleAfter(c)
    BY DEF StatStale
  <2>4. QED BY <2>1, <2>2, <2>3 DEF StaleAfter
<1>2. QED BY <1>1, TypeCorrect, LockInvariant, PTL DEF AbandonedMeansOverdue

\* Until the first fault or the first overstay the lock implements
\* ExclusiveLock, AcquireLock returning only while nobody holds it; the fault
\* and the overstay are a crash there.
THEOREM Refinement == Spec => Implements
<1>1. Init => Abstract!Init
  BY DEF Init, Abstract!Init, trusted, holders, Idle
<1>2. TypeOK /\ LockInv /\ [Next]_vars => [Abstract!Next]_trusted
  <2> SUFFICES ASSUME TypeOK, LockInv, [Next]_vars
               PROVE [Abstract!Next]_trusted
    OBVIOUS
  <2> USE DEF TypeOK, Owning, Idle, Inside, Goto, FreeSlot, ReturnError
  <2>1. ASSUME NEW c \in Callers, CloseLock(c)
        PROVE  Abstract!Acquire(c) \/ UNCHANGED trusted
    <3>1. CASE Orderly
      <4>1. lock = c /\ \A d \in Callers : pc[d] \in Owning => d = c
        BY <2>1, <3>1 DEF CloseLock, LockInv, LockedWhileOwned
      <4>2. holders = {} /\ holders' = {c}
        BY <2>1, <4>1 DEF CloseLock, holders
      <4>3. Orderly'
        BY <2>1, <3>1 DEF CloseLock, Orderly
      <4>4. QED BY <3>1, <4>2, <4>3 DEF trusted, Abstract!Acquire
    <3>2. CASE ~Orderly
      BY <2>1, <3>2 DEF CloseLock, Orderly, trusted
    <3>3. QED BY <3>1, <3>2
  <2>2. ASSUME NEW c \in Callers, RemoveLock(c)
        PROVE  Abstract!Release(c) \/ UNCHANGED trusted
    <3>1. c \in holders /\ holders' = holders \ {c} /\ Orderly' = Orderly
      BY <2>2 DEF RemoveLock, holders, Orderly
    <3>2. QED BY <3>1 DEF trusted, Abstract!Release
  <2>3. ASSUME NEW c \in Callers, Call(c) \/ Cancel(c) PROVE UNCHANGED trusted
    <3>1. UNCHANGED <<holders, Orderly>>
      BY <2>3 DEF Call, Cancel, holders, Orderly
    <3>2. QED BY <3>1 DEF trusted
  <2>4. ASSUME NEW c \in Callers,
               \/ TakeSlot(c) \/ GiveUpSlot(c) \/ StopLoop(c)
               \/ CreateExcl(c) \/ CreateExists(c) \/ StatStale(c) \/ StatOther(c)
               \/ Steal(c) \/ Retry(c) \/ StopWaiting(c) \/ LeaveSlot(c)
        PROVE UNCHANGED trusted
    <3>1. UNCHANGED <<holders, Orderly>>
      BY <2>4 DEF TakeSlot, GiveUpSlot, StopLoop, CreateExcl, CreateExists, StatStale,
                  StatOther, Steal, Retry, StopWaiting, LeaveSlot, holders, Orderly
    <3>2. QED BY <3>1 DEF trusted
  <2>5. ASSUME Fault PROVE \E S \in SUBSET Callers : Abstract!Crash(S)
    <3>1. ~Orderly'
      BY <2>5 DEF Fault, Orderly
    <3>2. trusted \in SUBSET Callers /\ trusted' = trusted \ trusted
      BY <3>1 DEF trusted, holders
    <3>3. QED BY <3>2 DEF Abstract!Crash
  <2>6. ASSUME Tick \/ UNCHANGED vars
        PROVE  (\E S \in SUBSET Callers : Abstract!Crash(S)) \/ UNCHANGED trusted
    <3>1. UNCHANGED <<holders, faults>> /\ (outstayed => outstayed')
      BY <2>6 DEF Tick, vars, holders
    <3>2. CASE Orderly' = Orderly
      BY <3>1, <3>2 DEF trusted
    <3>3. CASE Orderly' # Orderly
      <4>1. ~Orderly'
        BY <3>1, <3>3 DEF Orderly
      <4>2. trusted \in SUBSET Callers /\ trusted' = trusted \ trusted
        BY <4>1 DEF trusted, holders
      <4>3. QED BY <4>2 DEF Abstract!Crash
    <3>4. QED BY <3>2, <3>3
  <2>7. ASSUME NEW c \in Callers, Failure(c) PROVE Fault
    BY <2>7 DEF Failure, CreateFails, CloseFails, StatFails, StealFails, RemoveFails
  <2>8. ASSUME NEW p \in Procs, Crash(p) PROVE Fault
    BY <2>8 DEF Crash
  <2>9. QED
    BY <2>1, <2>2, <2>3, <2>4, <2>5, <2>6, <2>7, <2>8 DEF Next, Step, Abstract!Next
<1>3. QED BY <1>1, <1>2, TypeCorrect, LockInvariant, PTL DEF Spec, Abstract!Spec, Implements
=============================================================================
