----------------------------- MODULE ChunkCache -----------------------------
(***************************************************************************)
(* The chunk cache of remote/file.ReaderAt (remote/file/readerat.go): a    *)
(* map of chunks read without a lock, a ring of their indexes swept by     *)
(* CLOCK under the mutex mu, one backend read per missing chunk that other *)
(* readers wait for, and a Close that waits for the reads in flight.       *)
(*                                                                         *)
(* A reader is a goroutine inside ReadAt, for one chunk: a longer ReadAt   *)
(* is several such reads in a row.  Every atomic operation on shared state *)
(* is a step; code that holds mu is one step where nothing outside can see *)
(* its middle, and one step per turn of the hand where a reader can set a  *)
(* referenced bit between two turns.                                       *)
(***************************************************************************)
EXTENDS Integers, Sequences, FiniteSets

CONSTANTS
    Readers,     \* goroutines calling ReadAt
    Chunks,      \* chunk indexes of the object
    Objs,        \* identities for *chunk values
    MaxChunks,   \* maxChunks: how many chunks stay resident
    MaxFails,    \* bound on failing backend reads
    None,        \* no chunk, nobody
    Closer       \* the goroutine that calls Close

ASSUME CacheAssumption ==
    /\ IsFiniteSet(Readers)
    /\ MaxChunks \in Nat \ {0}
    /\ MaxFails \in Nat
    /\ None \notin Objs \union Chunks \union Readers
    /\ Closer \notin Readers /\ Closer # None

VARIABLES
    chunks,    \* sync.Map: the *chunk held for each index, or None
    ring,      \* the indexes in chunks, in CLOCK order
    hand,      \* position of the CLOCK hand in ring, counted from 0
    done,      \* the *chunks whose read is over
    failed,    \* the *chunks holding an error
    ref,       \* the *chunks with the referenced bit set
    mu,        \* who holds the mutex across steps
    closed,    \* set by Close
    loads,     \* WaitGroup: chunk reads in flight
    pc,        \* where each reader and Close are
    want,      \* the index each reader is after
    mine,      \* the *chunk each reader has in its hands
    tries,     \* turns of the hand the sweep under mu has left
    srcOpen,   \* the underlying file is open
    fails      \* failed backend reads so far (bound)

cache == <<chunks, ring, hand>>
bits == <<done, failed, ref>>
held == <<want, mine>>
state == <<closed, srcOpen>>
vars == <<cache, bits, held, tries, state, mu, loads, pc, fails>>

Resident == {k \in Chunks : chunks[k] # None}

\* Readers that have claimed a chunk and whose backend read is not finished
\* ("load"), and all that loads counts: those whose result is not published.
Loading == {r \in Readers : pc[r] = "load"}
InFlight == {r \in Readers : pc[r] \in {"load", "forget", "publish"}}

\* A *chunk nothing points to any more, or never did.
Unused(o) == /\ \A k \in Chunks : chunks[k] # o
             /\ \A r \in Readers : mine[r] # o

Init ==
    /\ chunks = [k \in Chunks |-> None]
    /\ ring = <<>> /\ hand = 0
    /\ done = {} /\ failed = {} /\ ref = {}
    /\ mu = None
    /\ closed = FALSE
    /\ loads = 0
    /\ pc = [t \in Readers \union {Closer} |-> "idle"]
    /\ want = [r \in Readers |-> None]
    /\ mine = [r \in Readers |-> None]
    /\ tries = 0
    /\ srcOpen = TRUE
    /\ fails = 0
----------------------------------------------------------------------------
Goto(t, l) == pc' = [pc EXCEPT ![t] = l]

\* chunk returns, with bytes or an error, and lets go of its *chunk.
Return(r) ==
    /\ Goto(r, "idle")
    /\ want' = [want EXCEPT ![r] = None]
    /\ mine' = [mine EXCEPT ![r] = None]

\* slices.Insert and slices.Delete at a position counted from 0, and the hand
\* brought back onto a ring of n.
InsertAt0(s, i, e) == SubSeq(s, 1, i) \o <<e>> \o SubSeq(s, i + 1, Len(s))
DeleteAt0(s, i) == SubSeq(s, 1, i) \o SubSeq(s, i + 2, Len(s))
Wrap(h, n) == IF n > 0 THEN h % n ELSE 0

ReadAt(r, k) ==
    /\ pc[r] = "idle"
    /\ Goto(r, "lookup")
    /\ want' = [want EXCEPT ![r] = k]
    /\ UNCHANGED <<cache, bits, mine, tries, state, mu, loads, fails>>

\* The lock-free lookup of chunk.
Lookup(r) ==
    /\ pc[r] = "lookup"
    /\ mine' = [mine EXCEPT ![r] = chunks[want[r]]]
    /\ Goto(r, IF chunks[want[r]] = None THEN "claim" ELSE "wait")
    /\ UNCHANGED <<cache, bits, want, tries, state, mu, loads, fails>>

\* claim, under mu: refused once closed, another reader's chunk when one has
\* appeared since the lookup, or a sweep to make room for a new one.
ClaimRefused(r) ==
    /\ pc[r] = "claim" /\ mu = None
    /\ closed
    /\ Return(r)
    /\ UNCHANGED <<cache, bits, tries, state, mu, loads, fails>>

ClaimFound(r) ==
    /\ pc[r] = "claim" /\ mu = None
    /\ ~closed
    /\ chunks[want[r]] # None
    /\ mine' = [mine EXCEPT ![r] = chunks[want[r]]]
    /\ Goto(r, "wait")
    /\ UNCHANGED <<cache, bits, want, tries, state, mu, loads, fails>>

ClaimMissing(r) ==
    /\ pc[r] = "claim" /\ mu = None
    /\ ~closed
    /\ chunks[want[r]] = None
    /\ mu' = r
    /\ tries' = 2 * Len(ring)
    /\ Goto(r, "sweep")
    /\ UNCHANGED <<cache, bits, held, state, loads, fails>>

\* One turn of evictLocked's loop: pass over a chunk being read, give a
\* referenced one its second chance, evict the first that is neither.
Sweeping(r) == pc[r] = "sweep" /\ tries > 0 /\ Len(ring) >= MaxChunks

PassOver(r) ==
    LET o == chunks[ring[hand + 1]] IN
    /\ Sweeping(r)
    /\ o \in done => o \in ref
    /\ ref' = IF o \in done THEN ref \ {o} ELSE ref
    /\ hand' = Wrap(hand + 1, Len(ring))
    /\ tries' = tries - 1
    /\ UNCHANGED <<chunks, ring, done, failed, held, state, mu, loads, pc, fails>>

\* Faulty variants of Evict: one evicts a chunk whose read is not over, the
\* other leaves the hand past the end of a ring it has shortened.
EvictUnread(r) ==
    LET k == ring[hand + 1] IN
    /\ Sweeping(r)
    /\ chunks[k] \notin ref
    /\ chunks' = [chunks EXCEPT ![k] = None]
    /\ ring' = DeleteAt0(ring, hand)
    /\ hand' = Wrap(hand, Len(ring) - 1)
    /\ tries' = tries - 1
    /\ UNCHANGED <<bits, held, state, mu, loads, pc, fails>>

EvictHandStays(r) ==
    LET k == ring[hand + 1] IN
    /\ Sweeping(r)
    /\ chunks[k] \in done \ ref
    /\ chunks' = [chunks EXCEPT ![k] = None]
    /\ ring' = DeleteAt0(ring, hand)
    /\ tries' = tries - 1
    /\ UNCHANGED <<hand, bits, held, state, mu, loads, pc, fails>>

Evict(r) ==
    LET k == ring[hand + 1] IN
    /\ Sweeping(r)
    /\ chunks[k] \in done \ ref
    /\ chunks' = [chunks EXCEPT ![k] = None]
    /\ ring' = DeleteAt0(ring, hand)
    /\ hand' = Wrap(hand, Len(ring) - 1)
    /\ tries' = tries - 1
    /\ UNCHANGED <<bits, held, state, mu, loads, pc, fails>>

\* The end of claim: a new *chunk goes into the map and just behind the hand,
\* its read is counted, and mu is given up.
Insert(r) ==
    /\ pc[r] = "sweep"
    /\ tries = 0 \/ Len(ring) < MaxChunks
    /\ \E o \in Objs : Unused(o)
    /\ LET o == CHOOSE o \in Objs : Unused(o) IN
         /\ done' = done \ {o} /\ failed' = failed \ {o} /\ ref' = ref \ {o}
         /\ chunks' = [chunks EXCEPT ![want[r]] = o]
         /\ mine' = [mine EXCEPT ![r] = o]
    /\ ring' = InsertAt0(ring, hand, want[r])
    /\ hand' = Wrap(hand + 1, Len(ring) + 1)
    /\ loads' = loads + 1
    /\ mu' = None
    /\ tries' = 0
    /\ Goto(r, "load")
    /\ UNCHANGED <<want, state, fails>>

\* load: the backend read, with no lock held.
LoadOk(r) ==
    /\ pc[r] = "load"
    /\ Goto(r, "publish")
    /\ UNCHANGED <<cache, bits, held, tries, state, mu, loads, fails>>

\* Faulty variant of LoadFails: the failed chunk is published as it is.
LoadFailsKept(r) ==
    /\ pc[r] = "load"
    /\ fails < MaxFails
    /\ fails' = fails + 1
    /\ failed' = failed \union {mine[r]}
    /\ Goto(r, "publish")
    /\ UNCHANGED <<cache, done, ref, held, tries, state, mu, loads>>

LoadFails(r) ==
    /\ pc[r] = "load"
    /\ fails < MaxFails
    /\ fails' = fails + 1
    /\ failed' = failed \union {mine[r]}
    /\ Goto(r, "forget")
    /\ UNCHANGED <<cache, done, ref, held, tries, state, mu, loads>>

\* forget: a failed chunk leaves the map and the ring, if it is still the one
\* there; the hand stays on the index it was on.
Forget(r) ==
    LET i == CHOOSE j \in 0 .. Len(ring) - 1 : ring[j + 1] = want[r] IN
    /\ pc[r] = "forget" /\ mu = None
    /\ IF chunks[want[r]] = mine[r]
       THEN /\ chunks' = [chunks EXCEPT ![want[r]] = None]
            /\ ring' = DeleteAt0(ring, i)
            /\ hand' = IF i < hand THEN hand - 1 ELSE Wrap(hand, Len(ring) - 1)
       ELSE UNCHANGED cache
    /\ Goto(r, "publish")
    /\ UNCHANGED <<bits, held, tries, state, mu, loads, fails>>

\* Faulty variant of Publish: Close is never told.
PublishUncounted(r) ==
    /\ pc[r] = "publish"
    /\ done' = done \union {mine[r]}
    /\ Return(r)
    /\ UNCHANGED <<cache, failed, ref, tries, state, mu, loads, fails>>

\* done and reading.Done, and on the way out loads.Done.
Publish(r) ==
    /\ pc[r] = "publish"
    /\ done' = done \union {mine[r]}
    /\ loads' = loads - 1
    /\ Return(r)
    /\ UNCHANGED <<cache, failed, ref, tries, state, mu, fails>>

\* wait: once the chunk is done, an error or an already set referenced bit
\* ends the read; otherwise the bit is set in a second step.
WaitDone(r) ==
    /\ pc[r] = "wait"
    /\ mine[r] \in done
    /\ IF mine[r] \in failed \union ref
       THEN Return(r)
       ELSE Goto(r, "mark") /\ UNCHANGED held
    /\ UNCHANGED <<cache, bits, tries, state, mu, loads, fails>>

Mark(r) ==
    /\ pc[r] = "mark"
    /\ ref' = ref \union {mine[r]}
    /\ Return(r)
    /\ UNCHANGED <<cache, done, failed, tries, state, mu, loads, fails>>

\* Close: refuse new claims, wait for the reads in flight, drop the chunks,
\* close the file.
CloseBegin ==
    /\ pc[Closer] = "idle" /\ mu = None
    /\ closed' = TRUE
    /\ Goto(Closer, "drain")
    /\ UNCHANGED <<cache, bits, held, tries, srcOpen, mu, loads, fails>>

\* Faulty variant of CloseDrained: Close does not wait for the reads.
CloseUndrained ==
    /\ pc[Closer] = "drain"
    /\ Goto(Closer, "clear")
    /\ UNCHANGED <<cache, bits, held, tries, state, mu, loads, fails>>

CloseDrained ==
    /\ pc[Closer] = "drain"
    /\ loads = 0
    /\ Goto(Closer, "clear")
    /\ UNCHANGED <<cache, bits, held, tries, state, mu, loads, fails>>

CloseClear ==
    /\ pc[Closer] = "clear" /\ mu = None
    /\ chunks' = [k \in Chunks |-> None]
    /\ ring' = <<>> /\ hand' = 0
    /\ Goto(Closer, "shut")
    /\ UNCHANGED <<bits, held, tries, state, mu, loads, fails>>

CloseSource ==
    /\ pc[Closer] = "shut"
    /\ srcOpen' = FALSE
    /\ Goto(Closer, "closed")
    /\ UNCHANGED <<cache, bits, held, tries, closed, mu, loads, fails>>
----------------------------------------------------------------------------
\* Steps that need mu, and steps that do not.
Locked(r) == ClaimRefused(r) \/ ClaimFound(r) \/ ClaimMissing(r) \/ Forget(r)
Free(r) == \/ Lookup(r) \/ PassOver(r) \/ Evict(r) \/ Insert(r) \/ LoadOk(r)
           \/ Publish(r) \/ WaitDone(r) \/ Mark(r)
Closing == CloseDrained \/ CloseClear \/ CloseSource

Next ==
    \/ \E r \in Readers : Locked(r) \/ Free(r) \/ LoadFails(r)
    \/ \E r \in Readers, k \in Chunks : ReadAt(r, k)
    \/ CloseBegin \/ Closing

Spec == Init /\ [][Next]_vars
----------------------------------------------------------------------------
Flags == closed \in BOOLEAN /\ srcOpen \in BOOLEAN

TypeOK ==
    /\ chunks \in [Chunks -> Objs \union {None}]
    /\ ring \in Seq(Chunks)
    /\ hand \in Nat
    /\ done \subseteq Objs /\ failed \subseteq Objs /\ ref \subseteq Objs
    /\ mu \in Readers \union {None}
    /\ loads \in Int
    /\ pc \in [Readers \union {Closer} ->
                 {"idle", "lookup", "claim", "sweep", "load", "forget", "publish",
                  "wait", "mark", "drain", "clear", "shut", "closed"}]
    /\ want \in [Readers -> Chunks \union {None}]
    /\ mine \in [Readers -> Objs \union {None}]
    /\ tries \in Nat
    /\ fails \in 0 .. MaxFails
    /\ Flags

\* ring and chunks name the same chunks, each once, and the hand is on one of
\* them: every index slips into and out of both together, through claim,
\* eviction, a failed read and Close.
RingMatchesChunks ==
    /\ \A i, j \in 1 .. Len(ring) : ring[i] = ring[j] => i = j
    /\ {ring[i] : i \in 1 .. Len(ring)} = Resident
    /\ IF ring = <<>> THEN hand = 0 ELSE hand < Len(ring)

\* A chunk being read stays in the map until its read is over, so that every
\* other reader of it finds it: one backend read per missing chunk, at most.
ReadOnce ==
    /\ \A r \in Loading : chunks[want[r]] = mine[r]
    /\ \A r, s \in Loading : want[r] = want[s] => r = s

\* "A failed read is not kept" (readerat.go, load): no reader can find a
\* chunk that is done and holds an error.
ErrorsNotKept ==
    \A k \in Resident : chunks[k] \notin done \intersect failed

\* No backend read runs against a closed file, however Close and the claims
\* interleave.
ReadsWhileOpen == Loading # {} => srcOpen

\* Nobody waits for something that will never come: a reader waiting for a
\* chunk has its bytes, or another is still reading them for it; Close waits
\* for as many reads as are in flight; and mu is only held by a sweep.
Served(o) == o \in done \/ \E r \in InFlight : mine[r] = o

NobodyWaitsInVain ==
    /\ \A r \in Readers : pc[r] = "wait" => Served(mine[r])
    /\ loads = Cardinality(InFlight)
    /\ mu # None => pc[mu] = "sweep"

\* A closed reader holds no chunk: none is claimed after Close cleared them.
NothingAfterClose == ~srcOpen => Resident = {} /\ ring = <<>>

=============================================================================
