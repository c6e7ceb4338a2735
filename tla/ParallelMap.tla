---------------------------- MODULE ParallelMap ----------------------------
(***************************************************************************)
(* The three ways astrogo spreads independent work over goroutines:        *)
(*   Map         internal/parallel: workers take one index after another   *)
(*   MapChunked  internal/parallel: each goroutine owns a run of indexes   *)
(*   askAll      catalog: one goroutine per provider                       *)
(* One behaviour is one call.  What the call is given (which operation,    *)
(* how many items, which limit) is chosen by Init, and so is the set of    *)
(* items whose call never returns: a provider that hangs.  What f computes *)
(* is abstracted to the item it was asked about and whether it failed.     *)
(***************************************************************************)
EXTENDS Integers, FiniteSets

CONSTANTS
    MaxItems,   \* bound on len(in), n and len(providers)
    Limits,     \* the limits and worker counts a caller passes, <= 0 included
    Procs,      \* runtime.GOMAXPROCS(0)
    MaxHung,    \* bound on the calls that never return
    None        \* no error recorded, no result written

ASSUME SizeAssumption == MaxItems \in Nat \ {0}
ASSUME LimitAssumption == Limits \subseteq Int
ASSUME ProcsAssumption == Procs \in Nat \ {0}
ASSUME NoneAssumption == None \notin Nat

VARIABLES
    op,         \* the operation called
    n,          \* the number of items
    limit,      \* limit or workers, as passed
    hung,       \* the items whose call never returns
    main,       \* the calling goroutine: spawning, waiting or returned
    spawned,    \* goroutines started
    start,      \* MapChunked: the next chunk's first index
    next,       \* Map: the shared counter
    pc, idx,    \* per goroutine: where it is, and its index
    lo, hi,     \* per goroutine: the chunk it owns
    made,       \* newWorker calls
    calls,      \* calls of f made for each item
    out,        \* the slots of the results
    failed,     \* the items whose call returned an error
    first       \* Map: the item whose error is returned

given == <<op, n, limit, hung>>
results == <<out, failed, first>>
vars == <<given, main, spawned, start, next, pc, idx, lo, hi, made, calls, results>>

Items == 0 .. MaxItems - 1
Goroutines == 1 .. MaxItems
Reply == [item : Items, err : BOOLEAN]

Lesser(a, b) == IF a < b THEN a ELSE b

\* limit <= 0 means runtime.GOMAXPROCS(0).
Bound == IF limit <= 0 THEN Procs ELSE limit

\* How many goroutines Map and askAll start.
Wanted == IF op = "Map" THEN Lesser(Bound, n) ELSE n

ChunkSize == (n + Bound - 1) \div Bound
TooSmall == n < Bound * 2

Init ==
    /\ op \in {"Map", "MapChunked", "askAll"}
    /\ n \in 0 .. MaxItems
    /\ limit \in Limits
    /\ hung \in SUBSET (0 .. n - 1) /\ Cardinality(hung) <= MaxHung
    /\ main = "spawning"
    /\ spawned = 0 /\ start = 0 /\ next = 0 /\ made = 0
    /\ pc = [w \in Goroutines |-> "idle"]
    /\ idx = [w \in Goroutines |-> 0]
    /\ lo = [w \in Goroutines |-> 0]
    /\ hi = [w \in Goroutines |-> 0]
    /\ calls = [i \in Items |-> 0]
    /\ out = [i \in Items |-> None]
    /\ failed = {} /\ first = None
-----------------------------------------------------------------------------
(* The calling goroutine.                                                  *)

Started(w, at, from, end) ==
    /\ spawned' = w
    /\ pc' = [pc EXCEPT ![w] = at]
    /\ idx' = [idx EXCEPT ![w] = from]
    /\ lo' = [lo EXCEPT ![w] = from]
    /\ hi' = [hi EXCEPT ![w] = end]

\* for range min(limit, len(in)) { wg.Go(...) }
SpawnTaker ==
    /\ op = "Map" /\ main = "spawning" /\ spawned < Wanted
    /\ Started(spawned + 1, "ready", 0, 0)
    /\ UNCHANGED <<given, main, start, next, made, calls, results>>

\* for i, p := range providers { wg.Go(...) }
SpawnAsker ==
    /\ op = "askAll" /\ main = "spawning" /\ spawned < Wanted
    /\ Started(spawned + 1, "ready", spawned, 0)
    /\ UNCHANGED <<given, main, start, next, made, calls, results>>

\* One round of MapChunked's loop over the chunks.
SpawnChunk ==
    /\ op = "MapChunked" /\ main = "spawning" /\ ~TooSmall /\ start < n
    /\ Started(spawned + 1, "setup", start, Lesser(start + ChunkSize, n))
    /\ start' = start + ChunkSize
    /\ UNCHANGED <<given, main, next, made, calls, results>>

\* MapChunked on a small batch: the caller itself does the work, as if it
\* were a goroutine with the whole batch for its chunk.
RunHere ==
    /\ op = "MapChunked" /\ main = "spawning" /\ TooSmall
    /\ Started(1, "setup", 0, n)
    /\ main' = "waiting"
    /\ UNCHANGED <<given, start, next, made, calls, results>>

\* Faulty variant of AllStarted: the loop over the chunks ends only at n itself.
AllStartedExactly == IF op = "MapChunked" THEN ~TooSmall /\ start = n ELSE spawned = Wanted

AllStarted == IF op = "MapChunked" THEN ~TooSmall /\ start >= n ELSE spawned = Wanted

EndSpawning ==
    /\ main = "spawning" /\ AllStarted
    /\ main' = "waiting"
    /\ UNCHANGED <<given, spawned, start, next, pc, idx, lo, hi, made, calls, results>>

\* wg.Wait, and what the caller is given: error(first) or out.
Return ==
    /\ main = "waiting" /\ \A w \in 1 .. spawned : pc[w] = "done"
    /\ main' = "returned"
    /\ UNCHANGED <<given, spawned, start, next, pc, idx, lo, hi, made, calls, results>>
-----------------------------------------------------------------------------
(* The goroutines.                                                         *)

Calling(w, i) ==
    /\ pc' = [pc EXCEPT ![w] = "calling"]
    /\ idx' = [idx EXCEPT ![w] = i]
    /\ calls' = [calls EXCEPT ![i] = @ + 1]

\* w := newWorker()
NewWorker(w) ==
    /\ pc[w] = "setup"
    /\ pc' = [pc EXCEPT ![w] = "ready"]
    /\ made' = made + 1
    /\ UNCHANGED <<given, main, spawned, start, next, idx, lo, hi, calls, results>>

\* i := int(next.Add(1) - 1), and f(i, in[i]) when there is such an item.
Take(w) ==
    /\ op = "Map" /\ pc[w] = "ready" /\ next < n
    /\ next' = next + 1
    /\ Calling(w, next)
    /\ UNCHANGED <<given, main, spawned, start, lo, hi, made, results>>

TakeNone(w) ==
    /\ op = "Map" /\ pc[w] = "ready" /\ next >= n
    /\ next' = next + 1
    /\ pc' = [pc EXCEPT ![w] = "done"]
    /\ UNCHANGED <<given, main, spawned, start, idx, lo, hi, made, calls, results>>

\* val, err := ask(ctx, p), by the goroutine of provider p.
Ask(w) ==
    /\ op = "askAll" /\ pc[w] = "ready"
    /\ Calling(w, idx[w])
    /\ UNCHANGED <<given, main, spawned, start, next, lo, hi, made, results>>

\* Faulty variant of Step: the chunk's end is taken for its last index.
StepThroughEnd(w) ==
    /\ op = "MapChunked" /\ pc[w] = "ready" /\ idx[w] <= hi[w] /\ idx[w] < n
    /\ Calling(w, idx[w])
    /\ UNCHANGED <<given, main, spawned, start, next, lo, hi, made, results>>

\* for i := lo; i < hi; i++ { f(w, i) }
Step(w) ==
    /\ op = "MapChunked" /\ pc[w] = "ready" /\ idx[w] < hi[w]
    /\ Calling(w, idx[w])
    /\ UNCHANGED <<given, main, spawned, start, next, lo, hi, made, results>>

ChunkDone(w) ==
    /\ op = "MapChunked" /\ pc[w] = "ready" /\ idx[w] >= hi[w]
    /\ pc' = [pc EXCEPT ![w] = "done"]
    /\ UNCHANGED <<given, main, spawned, start, next, idx, lo, hi, made, calls, results>>

Answers(w, fails) ==
    /\ pc[w] = "calling" /\ idx[w] \notin hung
    /\ failed' = IF fails THEN failed \union {idx[w]} ELSE failed
    /\ UNCHANGED <<given, main, spawned, start, next, lo, hi, made, calls>>

\* f returned a result: out[i] = r, then the next item.
MapSucceeds(w) ==
    /\ op = "Map" /\ Answers(w, FALSE)
    /\ out' = [out EXCEPT ![idx[w]] = [item |-> idx[w], err |-> FALSE]]
    /\ pc' = [pc EXCEPT ![w] = "ready"]
    /\ UNCHANGED <<idx, first>>

\* f returned an error, which once.Do is still to record.
MapFails(w) ==
    /\ op = "Map" /\ Answers(w, TRUE)
    /\ pc' = [pc EXCEPT ![w] = "failed"]
    /\ UNCHANGED <<idx, out, first>>

\* Faulty variant of RecordFirst: the goroutine that saw the error leaves.
RecordFirstAndLeave(w) ==
    /\ pc[w] = "failed"
    /\ first' = IF first = None THEN idx[w] ELSE first
    /\ pc' = [pc EXCEPT ![w] = "done"]
    /\ UNCHANGED <<given, main, spawned, start, next, idx, lo, hi, made, calls, out, failed>>

\* once.Do(func() { first = err }); continue
RecordFirst(w) ==
    /\ pc[w] = "failed"
    /\ first' = IF first = None THEN idx[w] ELSE first
    /\ pc' = [pc EXCEPT ![w] = "ready"]
    /\ UNCHANGED <<given, main, spawned, start, next, idx, lo, hi, made, calls, out, failed>>

\* f(w, i) wrote its own slot and returned.
ChunkCallEnds(w) ==
    /\ op = "MapChunked" /\ Answers(w, FALSE)
    /\ out' = [out EXCEPT ![idx[w]] = [item |-> idx[w], err |-> FALSE]]
    /\ pc' = [pc EXCEPT ![w] = "ready"]
    /\ idx' = [idx EXCEPT ![w] = @ + 1]
    /\ UNCHANGED first

\* Faulty variant of AskEnds: replies are kept in the order they arrive.
AskEndsInArrivalOrder(w, fails) ==
    /\ op = "askAll" /\ Answers(w, fails)
    /\ LET arrived == Cardinality({i \in Items : out[i] # None}) IN
       out' = [out EXCEPT ![arrived] = [item |-> idx[w], err |-> fails]]
    /\ pc' = [pc EXCEPT ![w] = "done"]
    /\ UNCHANGED <<idx, first>>

\* answers[i] = answer[R]{...}, whether the provider answered or failed.  Its
\* name, asked for in between, says which item the slot is of.
AskEnds(w, fails) ==
    /\ op = "askAll" /\ Answers(w, fails)
    /\ out' = [out EXCEPT ![idx[w]] = [item |-> idx[w], err |-> fails]]
    /\ pc' = [pc EXCEPT ![w] = "done"]
    /\ UNCHANGED <<idx, first>>

Caller == SpawnTaker \/ SpawnAsker \/ SpawnChunk \/ RunHere \/ EndSpawning \/ Return

Goroutine(w) ==
    \/ NewWorker(w) \/ Take(w) \/ TakeNone(w) \/ Ask(w) \/ Step(w) \/ ChunkDone(w)
    \/ MapSucceeds(w) \/ MapFails(w) \/ RecordFirst(w) \/ ChunkCallEnds(w)
    \/ \E fails \in BOOLEAN : AskEnds(w, fails)

Next == Caller \/ \E w \in Goroutines : Goroutine(w)

Spec == Init /\ [][Next]_vars

\* The scheduler runs every goroutine that can go on.
FairSpec == Spec /\ WF_vars(Caller) /\ \A w \in Goroutines : WF_vars(Goroutine(w))
-----------------------------------------------------------------------------
(* Properties.                                                             *)

TypeOK ==
    /\ op \in {"Map", "MapChunked", "askAll"}
    /\ n \in 0 .. MaxItems /\ limit \in Limits /\ hung \subseteq Items
    /\ main \in {"spawning", "waiting", "returned"}
    /\ spawned \in 0 .. MaxItems
    /\ start \in Nat /\ next \in Nat /\ made \in Nat
    /\ pc \in [Goroutines -> {"idle", "setup", "ready", "calling", "failed", "done"}]
    /\ idx \in [Goroutines -> 0 .. MaxItems]
    /\ lo \in [Goroutines -> 0 .. MaxItems]
    /\ hi \in [Goroutines -> 0 .. MaxItems]
    /\ calls \in [Items -> Nat]
    /\ out \in [Items -> Reply \union {None}]
    /\ failed \subseteq Items
    /\ first \in Items \union {None}

\* However the goroutines share them out, no item is given to f twice, and
\* once the call has returned every item has been given to it: the counter
\* hands an index to one goroutine, chunks neither overlap nor leave a gap,
\* and an error does not make the goroutine that saw it drop the rest
\* (parallel.go: "Nothing is canceled: every item is still called").  The
\* comment of askAll says the opposite of the same Map, "the first error wins
\* and the remaining work is canceled" (catalog/askall.go:35-36); the code
\* does what parallel.go says, and so does this property.
EachOnce ==
    /\ \A i \in Items : calls[i] <= 1
    /\ main = "returned" => \A i \in 0 .. n - 1 : calls[i] = 1

\* What the caller is handed: Map an error exactly when some call failed, and
\* one that a call did return; otherwise, like MapChunked, each item's own
\* result in the item's own slot.  askAll: each provider's own reply in its
\* own slot, failures beside the answers.
ReturnsWhatCallsDid ==
    main = "returned" =>
        /\ op = "Map" => (first # None <=> failed # {}) /\ first \in failed \union {None}
        /\ (op = "Map" => first = None) =>
              \A i \in 0 .. n - 1 : out[i] = [item |-> i, err |-> i \in failed]

\* No more goroutines than the limit work for Map or MapChunked at one time,
\* nor is per-goroutine state built more often: chunks rounded the wrong way
\* would make one more of them than there are workers.
WithinLimit ==
    op # "askAll" => spawned <= Bound /\ made <= Bound

\* A call that never returns keeps its own goroutine and no other: while one
\* is left, Map reaches every other item, and askAll asks every provider.
OthersReached ==
    (op = "askAll" \/ (op = "Map" /\ Cardinality(hung) < Wanted))
        => <>(\A i \in 0 .. n - 1 : calls[i] = 1)

\* When every call returns, so does the operation.
CallReturns == hung = {} => <>(main = "returned")
=============================================================================
