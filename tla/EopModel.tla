------------------------------ MODULE EopModel ------------------------------
(***************************************************************************)
(* The process-wide Earth orientation model of astrogo/time and its lazy   *)
(* load (time/internal/iers/fetch.go, eop.go, loader.go; lookupEOP in      *)
(* time/eop.go): a model state that lookups read without a lock, a loader  *)
(* serialised by fetchMu and throttled by two cooldown windows, and the    *)
(* answer it settles on until the first of them reopens.                   *)
(*                                                                         *)
(* All lookups ask for one epoch: what a load for one epoch does to the    *)
(* coverage of another is not looked at.  A model is "zero" (it answers    *)
(* every epoch with zeros), "full" (a bulletin that covers the epoch) or   *)
(* "short" (one that does not).  Each atomic load or store and each        *)
(* section under a mutex is a step; the loader's reads and fetches take    *)
(* time.                                                                   *)
(***************************************************************************)
EXTENDS Integers

CONSTANTS
    Lookers,     \* goroutines that look up Earth orientation
    Resetter,    \* the goroutine that calls Reset
    Cooldowns,   \* values SetRetryCooldown is given
    Bulletins,   \* what the cache and the network may hold
    MaxTime,     \* bound on the clock
    Never        \* the zero time.Time

ASSUME EopAssumption ==
    /\ Resetter \notin Lookers /\ Never \notin Lookers
    /\ Cooldowns \subseteq Nat /\ Cooldowns # {}
    /\ Bulletins \subseteq {"full", "short"}
    /\ MaxTime \in Nat
    /\ Never \notin Int

Times == 0 .. MaxTime

VARIABLES
    current,        \* the model state: model and source, in one pointer
    fetchMu,        \* who holds fetchMu, or Never
    lastCacheRead,  \* when the loader last read the cache
    lastAttempt,    \* when it last fetched (or when the cache was written)
    settled,        \* until when the settled answer stands, or Never
    cooldown,       \* retryCooldown
    loader,         \* a Loader is registered
    pc,             \* where each goroutine is
    read,           \* the model state each lookup computed its answer from
    now,            \* the clock
    fetchedAt       \* when a fetch last began (history)

windows == <<lastCacheRead, lastAttempt, settled, cooldown>>
vars == <<current, fetchMu, windows, loader, pc, read, now, fetchedAt>>

State(m, s) == [model |-> m, source |-> s]
Pristine == State("zero", "zero")

Explicit(s) == s.source = "explicit"

\* covered: a table that answers the epoch, whoever registered it.
Covers(s) == s.model = "full"

\* iers.Lookup: a chosen model or a loaded table that answers.
Answers(s) == IF Explicit(s) THEN s.model # "short" ELSE Covers(s)

Open(last) == last # Never => now - last >= cooldown

Init ==
    /\ current = Pristine
    /\ fetchMu = Never
    /\ lastCacheRead = Never /\ lastAttempt = Never
    /\ settled = Never
    /\ cooldown \in Cooldowns
    /\ loader \in BOOLEAN
    /\ pc = [g \in Lookers \union {Resetter} |-> "idle"]
    /\ read = [g \in Lookers |-> Pristine]
    /\ now = 0
    /\ fetchedAt = Never
----------------------------------------------------------------------------
Goto(g, l) == pc' = [pc EXCEPT ![g] = l]

\* lookupEOP: answered from one read of the state, or on to EnsureLoaded.
Lookup(g) ==
    /\ pc[g] = "idle"
    /\ ~Answers(current)
    /\ Goto(g, "explicit")
    /\ UNCHANGED <<current, fetchMu, windows, loader, read, now, fetchedAt>>

\* EnsureLoaded before the lock: a read of the state for the choice, another
\* for the coverage, the settled answer, and the loader.
Ensure(g, here, enough, onward) ==
    /\ pc[g] = here
    /\ Goto(g, IF enough THEN "model" ELSE onward)
    /\ UNCHANGED <<current, fetchMu, windows, loader, read, now, fetchedAt>>

CheckExplicit(g) == Ensure(g, "explicit", Explicit(current), "covered")
CheckCovered(g) == Ensure(g, "covered", Covers(current), "settled")
CheckSettled(g) == Ensure(g, "settled", settled # Never /\ now < settled, "loader")
CheckLoader(g) == Ensure(g, "loader", ~loader, "lock")

Lock(g) ==
    /\ pc[g] = "lock" /\ fetchMu = Never
    /\ fetchMu' = g
    /\ Goto(g, "recheck")
    /\ UNCHANGED <<current, windows, loader, read, now, fetchedAt>>

\* Every return from EnsureLoaded once it holds the lock.
Unlock(g) == fetchMu' = Never /\ Goto(g, "model")

\* Faulty variant of Recheck: the lock is taken and nothing looked at again.
RecheckNothing(g) ==
    /\ pc[g] = "recheck"
    /\ Goto(g, "cache")
    /\ UNCHANGED <<current, fetchMu, windows, loader, read, now, fetchedAt>>

\* The checks repeated under the lock.
Recheck(g) ==
    /\ pc[g] = "recheck"
    /\ IF Explicit(current) \/ Covers(current) \/ ~loader
       THEN Unlock(g)
       ELSE Goto(g, "cache") /\ UNCHANGED fetchMu
    /\ UNCHANGED <<current, windows, loader, read, now, fetchedAt>>

\* The cached bulletin is read once per window.
CacheBegin(g) ==
    /\ pc[g] = "cache" /\ Open(lastCacheRead)
    /\ lastCacheRead' = now
    /\ Goto(g, "cacheRead")
    /\ UNCHANGED <<current, fetchMu, lastAttempt, settled, cooldown,
                   loader, read, now, fetchedAt>>

CacheClosed(g) ==
    /\ pc[g] = "cache" /\ ~Open(lastCacheRead)
    /\ Goto(g, "throttle")
    /\ UNCHANGED <<current, fetchMu, windows, loader, read, now, fetchedAt>>

\* Faulty variant of Register: RegisterModel without the mark of a choice.
RegisterAnyway(model, source) == current' = State(model, source)

\* registerModelInternal, under modelMu: a chosen model stays.
Register(model, source) ==
    current' = IF Explicit(current) THEN current ELSE State(model, source)

\* The age of a cached bulletin, where it has one, opens the fetch window.
SeedAttempt ==
    \/ lastAttempt = Never /\ lastAttempt' \in {Never} \union 0 .. now
    \/ lastAttempt # Never /\ UNCHANGED lastAttempt

\* A bulletin was cached: its age seeds the fetch window, its table is
\* registered even if it does not cover the epoch, and a second read of the
\* state says whether it does.
CacheFound(g) ==
    /\ pc[g] = "cacheRead"
    /\ \E b \in Bulletins : Register(b, "cache")
    /\ SeedAttempt
    /\ Goto(g, "cacheCovers")
    /\ UNCHANGED <<fetchMu, lastCacheRead, settled, cooldown, loader,
                   read, now, fetchedAt>>

\* Nothing cached, or nothing that can be read; or a bulletin that does not
\* parse, whose age is noted all the same.
CacheUseless(g) ==
    /\ pc[g] = "cacheRead"
    /\ SeedAttempt
    /\ Goto(g, "throttle")
    /\ UNCHANGED <<current, fetchMu, lastCacheRead, settled, cooldown,
                   loader, read, now, fetchedAt>>

\* Faulty variant of CacheCovers: a return that leaves fetchMu held.
CacheCoversLocked(g) ==
    /\ pc[g] = "cacheCovers"
    /\ Goto(g, IF Covers(current) THEN "model" ELSE "throttle")
    /\ UNCHANGED <<current, fetchMu, windows, loader, read, now, fetchedAt>>

CacheCovers(g) ==
    /\ pc[g] = "cacheCovers"
    /\ IF Covers(current) THEN Unlock(g)
                          ELSE Goto(g, "throttle") /\ UNCHANGED fetchMu
    /\ UNCHANGED <<current, windows, loader, read, now, fetchedAt>>

\* Faulty variant of Earlier: the second of the two windows to reopen.
Later(s, t) == IF t < s THEN s ELSE t

\* settle: the answer stands until the first of the two windows reopens.
Earlier(s, t) == IF t < s THEN t ELSE s

Settle ==
    settled' = IF cooldown <= 0 \/ lastCacheRead = Never \/ lastAttempt = Never
               THEN Never
               ELSE Earlier(lastCacheRead, lastAttempt) + cooldown

Throttled(g) ==
    /\ pc[g] = "throttle"
    /\ lastAttempt # Never /\ ~Open(lastAttempt)
    /\ Settle
    /\ Unlock(g)
    /\ UNCHANGED <<current, lastCacheRead, lastAttempt, cooldown,
                   loader, read, now, fetchedAt>>

FetchBegin(g) ==
    /\ pc[g] = "throttle" /\ Open(lastAttempt)
    /\ lastAttempt' = now
    /\ fetchedAt' = now
    /\ Goto(g, "fetch")
    /\ UNCHANGED <<current, fetchMu, lastCacheRead, settled, cooldown,
                   loader, read, now>>

FetchOk(g) ==
    /\ pc[g] = "fetch"
    /\ \E b \in Bulletins : Register(b, "network")
    /\ Goto(g, "settle")
    /\ UNCHANGED <<fetchMu, lastCacheRead, lastAttempt, settled, cooldown,
                   loader, read, now, fetchedAt>>

\* No consent, no network, or a bulletin that does not parse.
FetchFails(g) ==
    /\ pc[g] = "fetch"
    /\ Goto(g, "settle")
    /\ UNCHANGED <<current, fetchMu, lastCacheRead, lastAttempt, settled,
                   cooldown, loader, read, now, fetchedAt>>

SettleFetch(g) ==
    /\ pc[g] = "settle"
    /\ Settle
    /\ Unlock(g)
    /\ UNCHANGED <<current, lastCacheRead, lastAttempt, cooldown,
                   loader, read, now, fetchedAt>>

\* Back in lookupEOP: the model is read and answers, and then its source is
\* read to tell a default from an answer.  A table that ends before the epoch
\* answers with an error, or with its last value held.
ReadModel(g) ==
    /\ pc[g] = "model"
    /\ IF current.model = "short"
       THEN Goto(g, "idle") /\ UNCHANGED read
       ELSE Goto(g, "source") /\ read' = [read EXCEPT ![g] = current]
    /\ UNCHANGED <<current, fetchMu, windows, loader, now, fetchedAt>>

Answer(g, defaulted) ==
    /\ pc[g] = "source"
    /\ defaulted <=> current.source = "zero"
    /\ read' = [read EXCEPT ![g] = Pristine]
    /\ Goto(g, "idle")
    /\ UNCHANGED <<current, fetchMu, windows, loader, now, fetchedAt>>
----------------------------------------------------------------------------
\* Faulty variant of ForgetCacheRead: the fetch window is opened as well.
ForgetBoth ==
    /\ pc[Resetter] = "idle" /\ fetchMu = Never
    /\ lastCacheRead' = Never /\ lastAttempt' = Never
    /\ settled' = Never
    /\ Goto(Resetter, "reset")
    /\ UNCHANGED <<current, fetchMu, cooldown, loader, read, now, fetchedAt>>

\* Reset: the cache window under fetchMu, then the state under modelMu.
ForgetCacheRead ==
    /\ pc[Resetter] = "idle" /\ fetchMu = Never
    /\ lastCacheRead' = Never
    /\ settled' = Never
    /\ Goto(Resetter, "reset")
    /\ UNCHANGED <<current, fetchMu, lastAttempt, cooldown, loader,
                   read, now, fetchedAt>>

Reset ==
    /\ pc[Resetter] = "reset"
    /\ current' = Pristine
    /\ Goto(Resetter, "idle")
    /\ UNCHANGED <<fetchMu, windows, loader, read, now, fetchedAt>>

RegisterModel ==
    /\ \E m \in {"zero"} \union Bulletins : current' = State(m, "explicit")
    /\ UNCHANGED <<fetchMu, windows, loader, pc, read, now, fetchedAt>>

SetRetryCooldown ==
    /\ fetchMu = Never
    /\ cooldown' \in Cooldowns
    /\ settled' = Never
    /\ UNCHANGED <<current, fetchMu, lastCacheRead, lastAttempt, loader,
                   pc, read, now, fetchedAt>>

\* A loader is registered, or removed: RegisterLoader(nil).
RegisterLoader ==
    /\ loader' \in BOOLEAN
    /\ UNCHANGED <<current, fetchMu, windows, pc, read, now, fetchedAt>>

Tick ==
    /\ now < MaxTime
    /\ now' = now + 1
    /\ UNCHANGED <<current, fetchMu, windows, loader, pc, read, fetchedAt>>

\* What a lookup does, once begun, apart from waiting for fetchMu.
Work(g) ==
    \/ CheckExplicit(g) \/ CheckCovered(g) \/ CheckSettled(g) \/ CheckLoader(g)
    \/ Recheck(g) \/ CacheBegin(g) \/ CacheClosed(g) \/ CacheFound(g)
    \/ CacheUseless(g) \/ CacheCovers(g) \/ Throttled(g) \/ FetchBegin(g)
    \/ FetchOk(g) \/ FetchFails(g) \/ SettleFetch(g) \/ ReadModel(g)
    \/ Answer(g, TRUE) \/ Answer(g, FALSE)

Next ==
    \/ \E g \in Lookers : Lookup(g) \/ Lock(g) \/ Work(g)
    \/ ForgetCacheRead \/ Reset
    \/ RegisterModel \/ SetRetryCooldown \/ RegisterLoader \/ Tick

Spec == Init /\ [][Next]_vars

\* Goroutines are scheduled, reads and fetches end (a Loader's are bounded by
\* a timeout), and sync.Mutex starves nobody.
FairSpec == Spec /\ \A g \in Lookers : WF_vars(Work(g)) /\ SF_vars(Lock(g))
----------------------------------------------------------------------------
Models == [model : {"zero", "full", "short"},
           source : {"zero", "cache", "network", "explicit"}]

TypeOK ==
    /\ current \in Models
    /\ fetchMu \in Lookers \union {Never}
    /\ lastCacheRead \in Times \union {Never}
    /\ lastAttempt \in Times \union {Never}
    /\ settled \in Nat \union {Never}
    /\ cooldown \in Cooldowns
    /\ loader \in BOOLEAN
    /\ pc \in [Lookers \union {Resetter} ->
                 {"idle", "explicit", "covered", "settled", "loader", "lock",
                  "recheck", "cache", "cacheRead", "cacheCovers", "throttle",
                  "fetch", "settle", "model", "source", "reset"}]
    /\ read \in [Lookers -> Models]
    /\ now \in Times
    /\ fetchedAt \in Times \union {Never}

\* What a caller registered stays until a caller registers something else or
\* calls Reset: a lazy load that was already past its checks never replaces
\* it (eop.go:77-82).
ChoiceStands ==
    [][Explicit(current) /\ current' # current => RegisterModel \/ Reset]_vars

\* The lazy load never replaces a table that covers the epoch: of two lookups
\* that both found none, the second respects what the first loaded.  Said of
\* lookups of that epoch: one of an epoch that is not covered registers what
\* is cached whatever else that drops (fetch.go:52-55).
CoverageKept ==
    [][Covers(current) /\ ~Covers(current') => RegisterModel \/ Reset]_vars

\* "at-most-one-attempt-per-cooldown-window": two fetches are a cooldown
\* apart, whoever called Reset in between (fetch.go:206-208).
FetchesApart ==
    [][\A g \in Lookers : FetchBegin(g) =>
         fetchedAt = Never \/ now - fetchedAt >= cooldown]_vars

\* While a settled answer stands, both windows are closed: "Until then no
\* attempt can change anything" (fetch.go:25).
SettledIsFinal ==
    settled # Never /\ now < settled => ~Open(lastCacheRead) /\ ~Open(lastAttempt)

\* Every lookup returns, though it may queue behind another's fetch.
LookupsReturn == \A g \in Lookers : pc[g] # "idle" ~> pc[g] = "idle"
=============================================================================
