---------------------------- MODULE EopModel_proofs ----------------------------
(***************************************************************************)
(* Theorems about the Earth orientation model, for any number of lookups,  *)
(* any cooldowns and any bound on the clock.                               *)
(***************************************************************************)
EXTENDS EopModel, TLAPS

USE DEF Times, Models, State, Pristine

\* Where a lookup is while it holds fetchMu.
Holding == {"recheck", "cache", "cacheRead", "cacheCovers", "throttle", "fetch",
            "settle"}

\* fetchMu is held by the one lookup that is past taking it.
MutexInv == \A g \in Lookers : fetchMu = g <=> pc[g] \in Holding

\* A lookup about to load something has seen under the lock that no loaded
\* table covers the epoch, and only a caller's choice can have changed that.
LoadInv ==
    \A g \in Lookers :
        pc[g] \in {"cache", "cacheRead", "throttle", "fetch"} /\ Covers(current)
            => Explicit(current)

\* A settled answer stands for no longer than both windows stay closed, and
\* the fetch window never forgets a fetch.
WindowInv ==
    /\ lastCacheRead # Never => lastCacheRead <= now
    /\ lastAttempt # Never => lastAttempt <= now
    /\ fetchedAt # Never => lastAttempt = fetchedAt
    /\ settled # Never => /\ lastCacheRead # Never /\ lastAttempt # Never
                          /\ settled <= lastCacheRead + cooldown
                          /\ settled <= lastAttempt + cooldown

IInv == TypeOK /\ MutexInv /\ LoadInv /\ WindowInv

LEMMA InitIInv == Init => IInv
  BY EopAssumption
  DEF Init, IInv, TypeOK, MutexInv, LoadInv, WindowInv, Holding, Covers

\* settle's result is a time, and the earlier of the two reopenings.
LEMMA SettleBound ==
  ASSUME TypeOK, Settle
  PROVE  /\ settled' \in Nat \union {Never}
         /\ settled' # Never => /\ lastCacheRead # Never /\ lastAttempt # Never
                                /\ settled' <= lastCacheRead + cooldown
                                /\ settled' <= lastAttempt + cooldown
<1>1. cooldown \in Nat
  BY EopAssumption DEF TypeOK
<1>2. CASE cooldown <= 0 \/ lastCacheRead = Never \/ lastAttempt = Never
  BY <1>2 DEF Settle
<1>3. CASE ~ (cooldown <= 0 \/ lastCacheRead = Never \/ lastAttempt = Never)
  <2>1. lastCacheRead \in Nat /\ lastAttempt \in Nat
    BY <1>3, EopAssumption DEF TypeOK
  <2>2. settled' = Earlier(lastCacheRead, lastAttempt) + cooldown
    BY <1>3 DEF Settle
  <2>3. QED BY <1>1, <1>3, <2>1, <2>2 DEF Earlier
<1>4. QED BY <1>2, <1>3

\* The steps that look and change nothing but where a lookup is.
Looks(g) ==
    \/ Lookup(g) \/ CheckExplicit(g) \/ CheckCovered(g) \/ CheckSettled(g)
    \/ CheckLoader(g) \/ ReadModel(g) \/ Answer(g, TRUE) \/ Answer(g, FALSE)

LEMMA TypeStep ==
  ASSUME TypeOK, [Next]_vars
  PROVE  TypeOK'
<1> USE EopAssumption DEF TypeOK
<1>1. ASSUME NEW g \in Lookers, Looks(g) PROVE TypeOK'
  BY <1>1 DEF Looks, Lookup, CheckExplicit, CheckCovered, CheckSettled, CheckLoader,
              Ensure, ReadModel, Answer, Goto, windows
<1>2. ASSUME NEW g \in Lookers, Lock(g) \/ Recheck(g) \/ CacheClosed(g) \/ CacheCovers(g)
      PROVE  TypeOK'
  BY <1>2 DEF Lock, Recheck, CacheClosed, CacheCovers, Unlock, Goto, windows
<1>3. ASSUME NEW g \in Lookers, CacheBegin(g) \/ FetchBegin(g) \/ FetchFails(g)
      PROVE  TypeOK'
  BY <1>3 DEF CacheBegin, FetchBegin, FetchFails, Goto
<1>4. ASSUME NEW g \in Lookers, CacheFound(g) \/ CacheUseless(g) \/ FetchOk(g) PROVE TypeOK'
  BY <1>4 DEF CacheFound, CacheUseless, SeedAttempt, FetchOk, Register, Goto
<1>5. ASSUME NEW g \in Lookers, Throttled(g) \/ SettleFetch(g) PROVE TypeOK'
  <2>1. settled' \in Nat \union {Never}
    BY <1>5, SettleBound DEF Throttled, SettleFetch
  <2>2. QED BY <1>5, <2>1 DEF Throttled, SettleFetch, Unlock, Goto
<1>6. ASSUME ForgetCacheRead \/ Reset PROVE TypeOK'
  BY <1>6 DEF ForgetCacheRead, Reset, Goto, windows
<1>7. ASSUME RegisterModel \/ SetRetryCooldown \/ RegisterLoader \/ Tick PROVE TypeOK'
  <2>1. CASE RegisterModel
    BY <2>1 DEF RegisterModel, windows
  <2>2. CASE SetRetryCooldown
    BY <2>2 DEF SetRetryCooldown
  <2>3. CASE RegisterLoader
    <3>1. loader' \in BOOLEAN
      BY <2>3 DEF RegisterLoader
    <3>2. QED BY <2>3, <3>1, Zenon DEF RegisterLoader, windows
  <2>4. CASE Tick
    <3>1. now' \in 0 .. MaxTime
      BY <2>4 DEF Tick
    <3>2. QED BY <2>4, <3>1, Zenon DEF Tick, windows
  <2>5. QED BY <1>7, <2>1, <2>2, <2>3, <2>4
<1>8. ASSUME UNCHANGED vars PROVE TypeOK'
  BY <1>8 DEF vars, windows
<1>9. QED
  BY <1>1, <1>2, <1>3, <1>4, <1>5, <1>6, <1>7, <1>8 DEF Next, Work, Looks

LEMMA MutexStep ==
  ASSUME TypeOK, MutexInv, [Next]_vars
  PROVE  MutexInv'
<1> USE EopAssumption DEF TypeOK, MutexInv, Holding
<1>1. ASSUME NEW g \in Lookers, Looks(g) PROVE MutexInv'
  BY <1>1 DEF Looks, Lookup, CheckExplicit, CheckCovered, CheckSettled, CheckLoader,
              Ensure, ReadModel, Answer, Goto
<1>2. ASSUME NEW g \in Lookers,
             \/ Lock(g) \/ Recheck(g) \/ CacheClosed(g)
             \/ CacheUseless(g) \/ CacheCovers(g)
      PROVE  MutexInv'
  BY <1>2 DEF Lock, Recheck, CacheClosed, CacheUseless, CacheCovers, Unlock, Goto
<1>3. ASSUME NEW g \in Lookers,
             CacheBegin(g) \/ FetchBegin(g) \/ FetchFails(g) \/ CacheFound(g) \/ FetchOk(g)
      PROVE  MutexInv'
  BY <1>3 DEF CacheBegin, FetchBegin, FetchFails, CacheFound, FetchOk, Goto
<1>4. ASSUME NEW g \in Lookers, Throttled(g) \/ SettleFetch(g) PROVE MutexInv'
  BY <1>4 DEF Throttled, SettleFetch, Unlock, Goto
<1>5. ASSUME ForgetCacheRead \/ Reset PROVE MutexInv'
  BY <1>5 DEF ForgetCacheRead, Reset, Goto
<1>6. ASSUME \/ RegisterModel \/ SetRetryCooldown \/ RegisterLoader \/ Tick
             \/ UNCHANGED vars
      PROVE  MutexInv'
  BY <1>6 DEF RegisterModel, SetRetryCooldown, RegisterLoader, Tick, vars
<1>7. QED BY <1>1, <1>2, <1>3, <1>4, <1>5, <1>6 DEF Next, Work, Looks

LEMMA LoadStep ==
  ASSUME TypeOK, MutexInv, LoadInv, [Next]_vars
  PROVE  LoadInv'
<1> USE EopAssumption DEF TypeOK, LoadInv, Covers, Explicit
<1>1. ASSUME NEW g \in Lookers, Looks(g) PROVE LoadInv'
  BY <1>1 DEF Looks, Lookup, CheckExplicit, CheckCovered, CheckSettled, CheckLoader,
              Ensure, ReadModel, Answer, Goto
<1>2. ASSUME NEW g \in Lookers,
             \/ Lock(g) \/ Recheck(g) \/ CacheClosed(g)
             \/ CacheUseless(g) \/ CacheCovers(g)
      PROVE  LoadInv'
  BY <1>2 DEF Lock, Recheck, CacheClosed, CacheUseless, CacheCovers, Unlock, Goto
<1>3. ASSUME NEW g \in Lookers, CacheBegin(g) \/ FetchBegin(g) \/ FetchFails(g)
      PROVE  LoadInv'
  BY <1>3 DEF CacheBegin, FetchBegin, FetchFails, Goto
<1>4. ASSUME NEW g \in Lookers, CacheFound(g) \/ FetchOk(g) PROVE LoadInv'
  <2>1. \A h \in Lookers : pc[h] \in Holding => h = g
    BY <1>4 DEF CacheFound, FetchOk, MutexInv, Holding
  <2>2. \A h \in Lookers : h # g => pc'[h] = pc[h]
    BY <1>4 DEF CacheFound, FetchOk, Goto
  <2>3. pc'[g] \in {"cacheCovers", "settle"}
    BY <1>4 DEF CacheFound, FetchOk, Goto
  <2>4. QED BY <2>1, <2>2, <2>3 DEF Holding
<1>5. ASSUME NEW g \in Lookers, Throttled(g) \/ SettleFetch(g) PROVE LoadInv'
  BY <1>5 DEF Throttled, SettleFetch, Unlock, Goto
<1>6. ASSUME ForgetCacheRead \/ Reset PROVE LoadInv'
  BY <1>6 DEF ForgetCacheRead, Reset, Goto
<1>7. ASSUME \/ RegisterModel \/ SetRetryCooldown \/ RegisterLoader \/ Tick
             \/ UNCHANGED vars
      PROVE  LoadInv'
  BY <1>7 DEF RegisterModel, SetRetryCooldown, RegisterLoader, Tick, vars
<1>8. QED BY <1>1, <1>2, <1>3, <1>4, <1>5, <1>6, <1>7 DEF Next, Work, Looks

LEMMA WindowStep ==
  ASSUME TypeOK, WindowInv, [Next]_vars
  PROVE  WindowInv'
<1> USE EopAssumption DEF TypeOK, WindowInv
<1>1. ASSUME UNCHANGED <<windows, now, fetchedAt>> PROVE WindowInv'
  BY <1>1 DEF windows
<1>2. ASSUME NEW g \in Lookers,
             \/ Looks(g) \/ Lock(g) \/ Recheck(g) \/ CacheClosed(g)
             \/ CacheCovers(g) \/ FetchOk(g) \/ FetchFails(g)
      PROVE  UNCHANGED <<windows, now, fetchedAt>>
  BY <1>2 DEF Looks, Lookup, CheckExplicit, CheckCovered, CheckSettled, CheckLoader,
              Ensure, ReadModel, Answer, Lock, Recheck, CacheClosed,
              CacheCovers, FetchOk, FetchFails, windows
<1>3. ASSUME NEW g \in Lookers, CacheBegin(g) PROVE WindowInv'
  BY <1>3 DEF CacheBegin
<1>4. ASSUME NEW g \in Lookers, FetchBegin(g) PROVE WindowInv'
  BY <1>4 DEF FetchBegin
<1>5. ASSUME NEW g \in Lookers, CacheFound(g) \/ CacheUseless(g) PROVE WindowInv'
  BY <1>5 DEF CacheFound, CacheUseless, SeedAttempt
<1>6. ASSUME NEW g \in Lookers, Throttled(g) \/ SettleFetch(g) PROVE WindowInv'
  BY <1>6, SettleBound DEF Throttled, SettleFetch
<1>7. ASSUME ForgetCacheRead \/ SetRetryCooldown \/ Tick PROVE WindowInv'
  BY <1>7 DEF ForgetCacheRead, SetRetryCooldown, Tick, windows
<1>8. ASSUME Reset \/ RegisterModel \/ RegisterLoader \/ UNCHANGED vars
      PROVE  UNCHANGED <<windows, now, fetchedAt>>
  BY <1>8 DEF Reset, RegisterModel, RegisterLoader, vars
<1>9. QED
  BY <1>1, <1>2, <1>3, <1>4, <1>5, <1>6, <1>7, <1>8 DEF Next, Work, Looks

\* The inductive invariant holds in every reachable state.
THEOREM Invariant == Spec => []IInv
<1>1. IInv /\ [Next]_vars => IInv'
  BY TypeStep, MutexStep, LoadStep, WindowStep DEF IInv
<1>2. QED BY <1>1, InitIInv, PTL DEF Spec
--------------------------------------------------------------------------------
(* What follows from it.                                                        *)

\* Only a load replaces the model without being asked to, and it asks whether
\* the model was chosen.
LEMMA Replacing ==
  ASSUME TypeOK, [Next]_vars, current' # current, ~RegisterModel, ~Reset
  PROVE  /\ ~Explicit(current)
         /\ \E g \in Lookers : pc[g] \in {"cacheRead", "fetch"}
<1>1. ASSUME NEW g \in Lookers, CacheFound(g) \/ FetchOk(g)
      PROVE  ~Explicit(current) /\ pc[g] \in {"cacheRead", "fetch"}
  BY <1>1 DEF CacheFound, FetchOk, Register
<1>2. ASSUME NEW g \in Lookers,
             \/ Looks(g) \/ Lock(g) \/ Recheck(g) \/ CacheBegin(g) \/ CacheClosed(g)
             \/ CacheUseless(g) \/ CacheCovers(g) \/ Throttled(g) \/ FetchBegin(g)
             \/ FetchFails(g) \/ SettleFetch(g)
      PROVE  current' = current
  BY <1>2 DEF Looks, Lookup, CheckExplicit, CheckCovered, CheckSettled, CheckLoader,
              Ensure, ReadModel, Answer, Lock, Recheck, CacheBegin, CacheClosed,
              CacheUseless, CacheCovers, Throttled, FetchBegin, FetchFails, SettleFetch
<1>3. ASSUME \/ ForgetCacheRead \/ SetRetryCooldown \/ RegisterLoader \/ Tick
             \/ UNCHANGED vars
      PROVE  current' = current
  BY <1>3 DEF ForgetCacheRead, SetRetryCooldown, RegisterLoader, Tick, vars
<1>4. QED BY <1>1, <1>2, <1>3 DEF Next, Work, Looks

\* A model a caller registered is never replaced by a lazy load.
THEOREM ChosenStays == Spec => ChoiceStands
<1>1. IInv /\ [Next]_vars =>
        [Explicit(current) /\ current' # current => RegisterModel \/ Reset]_vars
  BY Replacing DEF IInv
<1>2. QED BY <1>1, Invariant, PTL DEF Spec, ChoiceStands

\* Nor is a table that covers the epoch, whoever loaded it.
THEOREM CoveringStays == Spec => CoverageKept
<1>1. IInv /\ [Next]_vars =>
        [Covers(current) /\ ~Covers(current') => RegisterModel \/ Reset]_vars
  <2> SUFFICES ASSUME IInv, [Next]_vars, Covers(current), ~Covers(current'),
                      ~RegisterModel, ~Reset
               PROVE  FALSE
    OBVIOUS
  <2>1. current' # current
    OBVIOUS
  <2>2. QED BY <2>1, Replacing DEF IInv, LoadInv
<1>2. QED BY <1>1, Invariant, PTL DEF Spec, CoverageKept

\* Two fetches are a cooldown apart, whatever is reset or read in between.
THEOREM FetchesSpaced == Spec => FetchesApart
<1>1. IInv /\ [Next]_vars =>
        [\A g \in Lookers : FetchBegin(g) =>
            fetchedAt = Never \/ now - fetchedAt >= cooldown]_vars
  BY DEF IInv, WindowInv, FetchBegin, Open
<1>2. QED BY <1>1, Invariant, PTL DEF Spec, FetchesApart

\* While an answer is settled, no window is open.
THEOREM SettledStands == Spec => []SettledIsFinal
<1>1. IInv => SettledIsFinal
  BY EopAssumption DEF IInv, TypeOK, WindowInv, SettledIsFinal, Open
<1>2. QED BY <1>1, Invariant, PTL
================================================================================
