# astrogo: a TLA+ verification project

astrogo is a Go library for astronomical computation. Most of its code is
floating-point mathematics without state. What can go wrong in ways a unit test
hardly reaches lies underneath it: the file cache every dataset comes from, the
lock between processes that download into it, the chunk cache large kernels are
read through, the policy and the paced transports every access passes, the
kernels that are loaded, queried and removed by several goroutines, the
process-wide tables (Earth orientation, leap seconds) that are loaded or
registered under whoever is computing, and the goroutines that share out
independent work. One algorithm of the numerical side is discrete enough to
join them: the observation scheduler, whose passes rearrange a night under
constraints that each pass must keep. This project models those parts in TLA+,
checks them with TLC on small instances, and proves what matters most of nine of
them for every instance with TLAPS.

All source paths below are relative to `src/`.

- [The system](#the-system)
- [Modules](#modules)
- [Runs](#runs)
- [Fairness](#fairness)
- [What is proved](#what-is-proved)
- [Where code and documentation disagree](#where-code-and-documentation-disagree)
- [What is not modelled](#what-is-not-modelled)
- [Plan](#plan)

## The system

### How the parts interact

```
 plan, catalog, ephemeris, skybrightness, time        (callers)
        |                |                |
        | GetFile        | ReadAt         | ΔAT, EOP lookups
        v                v                v
 remote: client      remote/file:     time: leap-second registry
 policy and gates     chunk cache     time/internal/iers: EOP model
 (registry.go)       (readerat.go)         |
   |        |             ^                | Cached / Fetch
   |        v             | kernels        | (through the file cache)
   |  file cache <--------|----------------+
   |  (fetch.go) <--- ephemeris/jpl: spk.CacheDownload, Provider
   |        |
   |        +--- staging and promotion     internal/parallel, catalog.askAll
   |        |    (lock_resume.go)            (used by plan, coord, catalog)
   |        +--- download lock             plan: scheduling strategies
   |             (lock_resume.go)
   +--- paced transports (remote/api)
        |
        v
 remote/file: local, HTTP and memory file systems
```

Every access passes the gate of the client's policy first, and a fetch asks it
again for the size the source reports. The file cache holds the download lock
while it checks freshness under it, stages, validates, promotes and records; it
reads the object after the lock is back. Its state is a directory that several
processes share, so the interesting steps are single file operations. The Earth
orientation model calls the file cache from inside its own mutex, and opening a
kernel checks the cached copy against its recorded checksum and deletes it when
it is proven corrupt. Everything else that is shared is in memory: mutexes,
atomics and channels of one process.

### Components

| component | state | operations | what is hard | what makes it correct |
|---|---|---|---|---|
| download lock (`remote/file/lock_resume.go`) | per process a semaphore per key; one lock object on disk and its age | `AcquireLock`, release, steal by age | processes interleave between Stat and Remove; crashes leave the object; cancellation in two layers | exclusion; the semaphore is never lost on an error path; only a crashed or overdue holder is stolen from; nobody waits for a lock in nobody's hands |
| staging and promotion (same file) | `.part`, `.resume`, the object, ETag sidecars | `ResumePoint`, `StageAndPromote`, `WriteETag` | a crash between any two file operations; the source changing between Stat and body | a tag vouches for the content beside it; a partial is continued only with its own version; promotion never loses the copy |
| file cache (`remote/fetch.go`, `reject.go`) | the cached object, and what each client remembers as rejected | `GetFile` with `WithRead`, `WithValidate` | freshness read before the lock and under it; the copy is read, and perhaps discarded, outside the lock; a rejection outlives the copy it was about | a current answer; a damaged cache heals; a rejected version stays rejected until the source moves on; calls return |
| chunk cache (`remote/file/readerat.go`) | a lock-free map of chunks, a CLOCK ring, a WaitGroup | `ReadAt`, `Close` | readers share one read of a chunk; eviction, insertion and failure move entries under the hand; Close during reads | one read per chunk; ring and map agree; errors reach the waiters and are not kept; the file outlives its reads |
| Earth orientation (`time/eop.go`, `time/internal/iers`) | current model, two throttle windows, settled verdict, loader | lookup, lazy load, `RegisterModel`, `Reset`, `SetRetryCooldown`, `RegisterLoader` | double-checked locking; a slow fetch racing a registration or Reset; cooldowns | a caller's choice stands; a covering table is not lost; attempts keep their distance; lookups return |
| leap seconds (`time/leapsecond.go`, `utcday.go`) | one atomic pointer to a table | `RegisterLeapSeconds`, `ResetLeapSeconds`, `deltaAT`, conversions | a table that is valid entry by entry but not as a record; conversions that read the registry several times | no registration changes the past |
| parallel work (`internal/parallel`, `catalog/askall.go`) | one counter, result slots, first error | `Map`, `MapChunked`, `askAll` | uneven chunks, failing calls, hanging calls, the caller reading unlocked results | each item once; results in their slots; an error iff one occurred; a hanging call holds up no other |
| client policy (`remote/registry.go`, `scope.go`, gates in `fetch.go`) | URL, Enabled, consent, installed Policy, offline mode, a captured scope | setters, `Reset`, `Capture`/`Restore`, the gates of `GetFile`, `Exists` and API calls | a fetch reads the policy at several instants, and each may change in between | no access and no download without a policy of the call's own time that allowed it; a cached copy is served where it is promised |
| paced client (`remote/api`, `remote/frontdoor.go`) | the transport kept for an endpoint, its mutex, the time of its last request | an API call with its retries, `SetAPIOptions`, `Close` | the mutex is held over wait and request; the transport is replaced under requests | one request at a time, spaced, slot always given back |
| kernels on disk (`ephemeris/jpl/spk/reader.go`) | the cached kernel and its checksum sidecar | `CacheDownload`, `verifyOrBootstrapChecksum`, `discardIfCorrupt` | processes that share the cache and look at it by name; damage, failed reads, crashes | only a corrupt kernel is deleted; a flipped coefficient is not served; the cache heals |
| kernels loaded (`ephemeris/jpl/provider.go`) | loaded readers, segment index, hulls, record cache | `Open`, `NewProvider`, `AddKernel`, `AddKernelFrom`, `RemoveKernel`, `UnloadAll`, `Close`, `Locate` | removal shifts indices and closes files under queries; errors half-way through opening | last match wins; no use after close; nothing leaks |
| scheduler (`plan/schedule.go`, `strategy.go`) | the schedule, what is unscheduled, tabu list | greedy and priority placement, swap and insert passes | each move changes slews, scores and gaps of its neighbours | the schedule can be carried out; its score falls only by a block of negative score; no block is lost |
| MPC register (`plan/mpc.go`), resolver cache (`catalog/resolve`) | per-process caches | load once, get, set | failure must not be remembered | a failed load is tried again |
| file system backends (`remote/file/httpfile.go`, `memfs.go`, `localfs.go`) | handles, staged writes | Open, Create, CreateExcl, Rename | partial reads, atomic replace | what the cache assumes of them |
| numerical packages | none between calls | | floating point | out of scope |

`PROJECT.json` lists all of them with their sources, and the hazards line by
line.

## Modules

| module | models | extends / uses |
|---|---|---|
| `ExclusiveLock` | what the download lock promises: acquire when free, release, crash | |
| `DownloadLock` | `AcquireLock` and release: semaphore, lock object, stealing, cancellation | refines `ExclusiveLock` |
| `FileCache` | `GetFile` of one mutable object, staging and promotion included | INSTANCE `ExclusiveLock` for its lock |
| `RemoteClient` | one endpoint's policy, the gates of file calls, the paced transports of API calls | |
| `KernelCache` | `spk.CacheDownload` and the checksum sidecar, by processes that share a cache | |
| `KernelProvider` | `jpl.Provider`: kernels loaded, indexed, queried and closed | |
| `Scheduler` | greedy, priority and swap-optimized scheduling | |
| `ChunkCache` | `ReaderAt`: claim, load, forget, CLOCK eviction, wait, Close | |
| `EopModel` | the lazy Earth orientation model and its lookups | |
| `LeapSeconds` | the leap-second registry and `deltaAT` | |
| `ParallelMap` | `Map`, `MapChunked`, `askAll` | |
| `Sorting` | `sort.Slice`, and a loop that meets a set in order, by counting places | used by `Scheduler` and `KernelProvider` |
| `MC...` | definitions of the constants of a run, symmetry | each extends its module |
| `..._proofs` | theorems | each extends its module; `KernelCache_proofs` extends `KernelProvider` as well |

**How state and actions correspond to the code.** Each module has one action per
atomic operation of the code: a file-system call, a channel operation, an
atomic load or store, a section under a mutex that nothing outside can observe
half done. `pc` says where a goroutine is, named after what it does next. What a
function does in a single step (all assignments and calls of it that change
state) is in its action. Faults are actions: a failing file operation, a failing
read, damage to a file, a crash. A crash empties the memory of a process and
leaves the disk as it is. Bounds on faults, calls and time are CONSTANTS that
appear in guards, marked "(bound)" where their counters are declared; variables
marked "(history)" exist for properties only. Definitions called a *faulty
variant* are mutants: plausible mistakes against which each property is tested.
They are not part of any specification.

**DownloadLock.** Locks have an age in units of one download timeout; `Tick`
advances it and cannot outrun a holder (`Hold`: a download ends by its timeout,
plus `Overhead` for the work under the lock outside the timed transfer). That
timeout is the caller's own and may be longer than the age at which another
caller takes the lock for stale (`StaleAfter`): endpoints of 30 and 60 minutes
are shipped, and `AcquireLock` caps the age at 30. `outstayed` remembers (for
properties only) that an owner has worked for longer than that. The object
carries no owner in the code; the variable `lock` names its creator so that
properties can. `Stat` and `Remove` are separate steps, and each may fail.

**FileCache.** Contents are sequences of blocks that carry the number of the
source version they were read from; a version's number is also its ETag. A crash
or failure can fall between any two operations, a transfer can stop after any
block, and the source can publish a version at any moment. The lock is the
abstract one: `DownloadLock` is shown to implement it (until a first fault or
overdue holder, see below), and composing the two state machines step by step
would multiply the state space without a new question. Reader and validator have
their own notions of a good version (`Readable`, `Valid`), each may refuse what
the other takes, and each may fail on a good copy: then a reader's copy is
discarded, and a version this call downloaded, or a validator was reading, is
put on record as rejected. `phase` tells the three freshness checks apart:
before the lock, under it, and after a failed transfer. `Workloads` says who
calls, what may fail and how often, so that one run asks about a lone caller in
bad weather and about two callers in a calmer one. Offline mode, consent and
immutable endpoints are in RemoteClient.

**RemoteClient.** Every section under the client's mutex is a step, so a setter
can fall between a call's lookup, its gate, each of its consents and its
transfer. A size is a number around `Approx`; an installed Policy is the largest
size it lets through. A source that reports no size passes every cap but not a
missing consent, as the smallest size does, which stands for it. The freshness
checks of `getFile` appear as questions to the source with either answer; what
they decide is FileCache's subject. An API call takes a transport, waits for its
mutex and for the interval, and keeps the mutex over all attempts. Each caller's
record has history fields: what the policy allowed since the call began.

**KernelCache.** A file is a version of the kernel, whole or harmed in one of
three ways, and an open file outlives its name. Each look at a name or at an
open file is a step. `discardIfCorrupt` removes whatever has the name by then,
and then the sidecar even if the removal failed; both are in the model.

**KernelProvider.** The RWMutex appears as `Reading`: a writer runs in one step,
while no query is between finding its segment and evaluating it. Readers are
numbers that are used again once nobody refers to them; a closed reader that is
still listed stays distinct. A kernel is refused for a foreign frame; one whose
summaries cannot be read is refused in the same way. `Open`'s failure closes
what it had opened; `NewProvider`'s only the kernel `addKernelPath` refused, and
on its way through `loadSmallBodyKernels` none.

**Scheduler.** The window is 0..Horizon in whole steps. What sky, site and user
decide is a problem chosen at the start: when each block can be observed, what
it scores at each start (possibly less than nothing), and which transition model
applies: the cost of a slew depends on both blocks, on when the first is left
and on about when the telescope arrives, the latter guessed as each call of
`transitionOverhead` guesses it. The greedy search, each tried swap and each
tried insertion are actions. The code keys its tabu list and the merged
constraints by `Block.ID` and does not check that IDs differ; here they do. An
error of a constraint or a transition model ends the call with no schedule and
is left out.

**ChunkCache.** A `*chunk` is an identity from `Objs`, so that a chunk that was
evicted and loaded again is a different object. Code under `mu` is one step
except for the sweep, which is one step per turn of the hand because a reader
may set a referenced bit between two turns. Bytes are left out: a read is for
one chunk.

**EopModel.** All lookups ask for one epoch; a bulletin covers it or does not. A
load for one epoch may replace a table that covered another's, as the code says
(`time/internal/iers/fetch.go:52-55`), so what is said of coverage is said of an
epoch whose lookups have the model to themselves. Registering a nil loader
removes it. Each load of an atomic and each critical section is a step. The
cached read and the fetch start and end in separate steps, so anything can
happen during them.

**LeapSeconds.** Dates are day numbers; gofa's `Dat` is external and given by
`Record`. The three checks of a registration are the code's.

**ParallelMap.** One behaviour is one call; operation, number of items and limit
are chosen by Init, and so is the set of items whose call never returns. What f
computes is the item it was asked about and whether it failed. The synchronous
path of `MapChunked` is the caller acting as the only goroutine.

## Runs

| run | module | expected | question |
|---|---|---|---|
| `lock_acquire` | DownloadLock | holds | Do semaphore and lock object together implement an exclusive lock until a fault or an overdue holder, lose nothing on errors, and let everyone on after a crash? |
| `chunk_safety` | ChunkCache | holds | One read per chunk, ring and map in step, no error kept, no use after Close, nobody waiting in vain? |
| `cache` | FileCache | holds | Do tags vouch, are answers current, is the copy kept, are rejections right and lasting, does the cache heal, and does every call return? |
| `remote_client` | RemoteClient | holds | Is a policy of the call's own time behind every access and transfer, is a copy served where promised, are requests paced, does every call return? |
| `kernel_cache` | KernelCache | holds | Is only a corrupt kernel deleted, is a flipped one refused, does the cache heal? |
| `kernel_provider` | KernelProvider | holds | Do answers follow the kernels loaded, from open files, with nothing left open? |
| `schedule` | Scheduler | holds | Is the schedule feasible after every move, worse only by a block of negative score, complete, and without room for a block it left out? |
| `eop_lookup` | EopModel | holds | Choice, coverage, distance of attempts, lookups that return |
| `parallel_call` | ParallelMap | holds | Each item once, right results, others reached past a hanging call, a call that returns |
| `lock_steal_race` | DownloadLock | violated | Is the lock exclusive after a crash? |
| `leap_past` | LeapSeconds | violated | Does a registration leave the past alone? |
| `schedule_cadence` | Scheduler | violated | Does an optimized schedule keep the cadences? |

A property is preceded in its module by a comment that says what it means for
the code. Each property of a passing run has a mutant in `PROJECT.json`: the run
fails when that definition is replaced by its faulty variant.

### Bounds, and why they are enough

- **lock_acquire**: two processes, two callers in one of them, so callers meet
  at the semaphore and at the lock object; two calls for one caller of each
  process, so that it meets what its own first call left; one fault, which is
  the smallest number that leaves an object behind. In units of ten minutes one
  caller uses the default timeout and the others that of a 30-minute endpoint,
  with the stale age at 30: the cap bites, timeouts differ, and live holders are
  stolen from. Safety is proved without these bounds.
- **chunk_safety**: three readers, three chunks, room for two: two readers of
  one chunk with a third sweeping, hits against sweeps, the hand at the end of
  the ring. Six identities suffice for the objects reachable at one time: three
  in the map (with one over the limit) and one in each reader's hands; the
  specification reuses identities nobody holds. Safety is proved without these
  bounds.
- **cache** has three workloads over three versions of which the middle one is
  bad and the last has the size of the first. Alone, one caller of an
  unvalidated endpoint makes four calls under three faults of every kind: enough
  for damage, a read that fails on a good copy, a rejection, the refetch, a
  failure in it, and a later call to heal. Together, two callers in two
  processes with a validator make two calls each under one failure or crash:
  enough for both to meet at the lock and in the staging files. The third is the
  same two with one call each and two failures, reads among them: a discard
  beside another caller's fetch. Properties that the discard race (below) breaks
  for two are stated for a caller alone.
- **remote_client**: two callers, two URLs, two policy or transport changes and
  three calls: a change between any two looks of one call, a change and its
  reversal, two transports in use at once. The source reports the registered
  size or one more, so that consent to one is not consent to the other.
- **kernel_cache** has two workloads: one process with four faults of any kind
  but an undeletable file, and two processes with two faults but no flip. The
  first is where a flip is promised to be refused; the second is where processes
  cross.
- **kernel_provider**: two callers, and three kernels: one whose two segments of
  a body leave a gap, one that overlaps it, and one in a frame that is refused.
  Three readers, two kernels listed when another is opened, one failed close.
- **schedule**: three blocks, one of them to be repeated or not, over seven
  steps of time, in every combination of three visibilities and three scores per
  block (one of them negative), three slew tables of which two depend on the
  time, two steps and two base strategies: swaps, insertions before, between and
  after, and a tabu that ends within three passes.
- **eop_lookup**: two lookups, one Reset, cooldowns 0 and 2, a clock up to 2,
  both kinds of bulletin: a cooldown can end during the run, be shortened, and
  be zero.
- **parallel_call**: up to five items over bounds 1, 2 and 3 (the limits -1, 1
  and 3 with two processors): several items per worker, a short last chunk, a
  batch too small to share, one hanging call. Safety is proved without these
  bounds.
- **leap_past**: a record of three steps and tables of up to three entries over
  seven days, which can restate, extend, contradict, begin late or stop early.

The safety properties of `RemoteClient`, `KernelCache` and `EopModel` are proved
without these bounds too. So are those of `KernelProvider`, those of
`FileCache`, and those of `Scheduler`, `AllAccounted` for lists that name no
block twice. `LeapSeconds` is checked only on its instance.

Deadlock checking is off where a model ends by design: the bounded calls of
`DownloadLock`, `FileCache` and `RemoteClient`, the single call of `ParallelMap`
and the finished schedule of `Scheduler` run out.

## Fairness

Fairness is assumed of what the Go runtime or the operating system drives,
never of what another party may refuse to do.

- `DownloadLock`: weak fairness of the clock and of each caller's steps while
  it is waiting. A holder is not assumed to finish: `NobodyWaitsInVain` and
  `CancelledStopsWaiting` hold although it may not. A polling waiter can lose
  every race, so "every caller gets the lock" is not claimed.
- `ChunkCache` needs none: `NobodyWaitsInVain` is the invariant behind the
  return of reads, that whoever waits for a chunk waits for one that a reader is
  still working on and will publish.
- `RemoteClient`: weak fairness of the clock and of each caller's steps (every
  request has a timeout); strong fairness of getting a transport's mutex, since
  Go's `sync.Mutex` turns to starvation mode and hands itself to the longest
  waiter. Setters are free to act or not.
- `KernelCache`: weak fairness of each process's steps, the next open included:
  programs go on opening the kernel. Faults are bounded and so end.
- `KernelProvider` and `Scheduler` state no liveness.
- `FileCache`: weak fairness of each caller's steps: transfers run under a
  timeout and so end, and the lock is the abstract one.
- `EopModel`: weak fairness of each lookup's steps, strong fairness of getting
  `fetchMu`, for the same reason as above.
- `ParallelMap`: weak fairness of the caller and of each goroutine. A call in
  `hung` never returns, and nothing is assumed of it.

## What is proved

The proofs are for every value of the constants that satisfies the named
assumptions of each module.

**DownloadLock_proofs.** Nothing is assumed of the timeouts. `TypeCorrect`,
`SlotCorrect` (a process's semaphore is taken exactly while one of its callers
is between acquire and release, on every error path and after every crash) and
its consequence `ProcessExclusion` come first. `LockInv` adds what an object's
age has to do with its creator: it is no older than the creator's work on it
(`WorkTracked`), and as long as nothing has failed and no owner has overstayed,
whoever has made an object owns the one on disk. From it come `Exclusive` (until
the first fault or the first owner that works for longer than another caller
allows), `Refinement` (until then the two-layer lock implements `ExclusiveLock`,
step by step or by stuttering) and, without that condition, `OverdueOnly`:
whatever has crashed and been stolen, a holder at work is taken for a crashed
one only when it has itself held for twice the timeout of the caller that judges
it, or for the stale age. The age of an object is never charged to a later
holder. That is less than the code's comment says, see below.

**ChunkCache_proofs.** `IInv` strengthens the type invariant with the ring
invariant, what each reader's position says about map and mutex, what is true
of a chunk in flight (it belongs to one reader, is not done, and once failed
leaves the map before it is published), the WaitGroup count as the number of
readers in flight, and where Close stands. Without the part about chunks in
flight, "one read per chunk" is not inductive: a reader could have in hand a
chunk that is in the map at another index. `RingCorrect`, `SingleRead`,
`NoErrorKept`, `ClosedAfterReads`, `WaitsAreServed` (whoever waits, for a chunk or
for the reads to drain, waits for a read somebody is still working on) and
`ClosedIsEmpty` follow. Lemmas `DeleteAt`
and `InsertAt` state what the sequence operations return.

**ParallelMap_proofs.** `IInv` says for each operation which items have been
handed out: for `Map` those below the counter; for `askAll` those below the
number of goroutines; for `MapChunked` the front part of each chunk, with chunks
pairwise apart and covering everything up to where the loop has come. With it
`EachItemOnce` and `RightResults`. `LimitKept` needs a further invariant
(the loop's position is the number of goroutines times the chunk size) and the
arithmetic of rounding up (`ChunkSizes`): that many chunks of that size hold all
items, so no goroutine too many is started.

**EopModel_proofs.** `IInv` is four parts. `MutexInv`: the mutex is held by
exactly the lookup that is past taking it. `LoadInv`: a lookup about to load has
seen, under the lock, that nothing loaded covers its epoch, and only a caller's
registration can have changed that since; this is what makes a late load
harmless. `WindowInv`: a settled verdict expires no later than either window
reopens, and the window of fetches never forgets one. With it `ChosenStays`,
`CoveringStays`, `FetchesSpaced` and `SettledStands`, each for any number of
lookups, any cooldowns and any interleaving with Reset and registrations.

**KernelCache_proofs.** `IInv` relates the files, the sidecar and what each process
has in hand. `CleanInv`: until something is spoiled (a flip, a truncation, a new
source) every file, every checksum in hand and the sidecar are of the one whole
kernel, so nobody doubts it; `SoundKernelStays` follows for any number of
processes that open, download and crash across each other. `FlipInv`: to a
process that has the cache to itself a flipped kernel always shows, because the
checksum on record was never taken of one and stays as long as the kernel does;
`FlipsShow` follows. That a download finds a free file (`FreeFile`) is a counting
argument: the other processes have at most one open each.

The second half of the module is about `KernelProvider`. `Loaded` is inductive:
every reader is one kernel's of the list, one call's to add or one caller's to
close (`OwnersInv`); those of the list and of the calls are open or were closed
in place (`OpenInv`); a query holds the kernel it found where it found it
(`HeldInv`), because writers wait for it; and the index is that of the kernels
now listed (`IndexInv`). Without `OwnersInv` nothing is inductive: closing one
reader could close another kernel's file, and dropping it from the list could
lose an open one. `OpenLeaksNothing` and `QueriesKeepTheirKernel` follow.
`LastMatchWins` is the one about data: the index lists the references to a
target in the order `rebuildIndexLocked` meets them (`AsMetLists`), its hull
spans their segments (`HullHolds`), and so the last hit of the scan is the last
match of all (`FindsLast`).

**RemoteClient_proofs.** `IInv` says what a call's place owes to the policy: its
history takes in the policy in force now, and each place behind a check implies
that the history remembers a policy that passed it (`Fits`, kept by every setter
by `NotingFits`). From it `PolicyHolds`, and with `OnlyFailures` (which four steps
end a call without an object) `CopyServed`. `PaceInv` is the second half: from the
wait to the answer a paced call holds its transport's mutex, and a transport's
last attempt lies no closer than what the next caller must wait, except while a
call is repeating its own; `Pacing` follows. The configuration may change at every
step, and a transport that was replaced stays paced for those still on it.

**FileCache_proofs.** `IInv` ties the two halves of a fetch together, contents and
the tags recorded beside them, which are separate operations on the disk.
`LockInv`: every caller from the stat to the release has the lock, so staging has
one writer. `OrderInv`: tags and answers name versions the source has served, so a
version just published is vouched for by nothing yet. `Own` says for each place of a
fetch what is staged: the version the caller asked about, as long as the source
still serves it, and the beginning of it where a partial is to be continued; a tag
already on disk is never newer than that version. With it `TagsCorrect`: a crash,
an interrupted transfer or another caller's discard between any two of these
operations leaves no tag that vouches for other content. Two smaller invariants
stand on it. `KeptInv` (whoever counts on a copy has one, and what is promoted was
validated) gives `CopyStays`: no reader without the lock ever meets a copy to
discard. `RefusalInv` (a fetch that has not been given up is of a version that is
not on record) gives `RefusalStands` for a caller alone.

`CurrentInv` follows what a caller has seen to what it will read, which other
callers may replace in between. Its one notion is `Floor(v)`: no copy of a
version before v will be read from now on, because there is none and nobody is
about to promote one. That is stable (`FloorStays`), and each thing a caller
goes by establishes it: the tag beside the copy, or a copy it landed itself.
Only the fallback on sizes does not, and `bySize` remembers that a copy was last
found current by it. `AnswersAreCurrent` follows for versions of any sizes: no
crash, discard, interrupted transfer or change of the source opens another way
to an old copy.

`HealInv` says for each place of a call that is alone, and has met no fault and no
new version, what is left to do (`Mended`): the fetch is of what the source serves,
and only a copy that was there before the call can be refused, once. What it rests
on holds with faults too (`Untouched`): what a caller alone downloads stays as it
landed. `CacheHeals` follows, because the only step that then ends the call is the
read. Its premise is that the source's version was not on record as rejected
when the call began. It cannot be left out: an earlier read or validation that
failed on a good version has put it there, and then the call is refused.

**Scheduler_proofs.** The inductive invariant `Sound` adds to feasibility, which
speaks of neighbours, that blocks last as long as they should, that any two lie
apart in the order of the schedule, and that the greedy clock is past them all.
Under it a sort by start puts the block a pass has inserted into the gap it was
tried in and moves no other (`InsertPlaces`), and a swap disturbs the two places
and the setup time of the one behind (`SwapPlaces`); `ScheduleFeasible` follows.
The model says what `sort.Slice` returns by counting how many come before, so
the one lemma about sorting (`InOrderIs`) is an argument about cardinalities.
The total score is a recursive sum, so the lemmas about sums that differ in one
place (`SumsAdd`) take the least place where the claim would fail.
`ScheduleScoreNeverFalls` follows from what a swap compares; an insertion adds
the score of what it inserts, of either sign. `Searched` says what an idle pass
has established about the blocks it tried, and `ScheduleNothingLeftFits` that
two idle passes have established it of all. `Accounted` says for every block how
its places in the schedule, its entries still waiting and what the greedy search
still owes it add up; counting places under a swap, an insertion and a removal
is `SameCount` and `OneMore`. `ScheduleAllAccounted` rests on the hypothesis
that the list as given names no block twice (`ListedOnce`): the strategies
compare blocks by what they are, and one that is named twice is repeated more
often than it asks for. `GreedyCadenceKept` proves of cadences what is true of
them, see below.

TLC checked each property on small instances before it was proved. Liveness, and
whatever depends on fairness, stays with TLC, because the prover does not handle
ENABLED. `LeapSeconds`, whose one property fails, is model-checked only.

## Where code and documentation disagree

Three are runs that TLC finds violated, with the quotation in `PROJECT.json`.

1. **Two holders after a crash** (`lock_steal_race`,
   `remote/file/lock_resume.go:219`). Two waiters see one abandoned lock object
   old; the first removes it and creates its own; the second's Remove deletes
   that fresh object, and both hold.
2. **A leap-second table that stops early** (`leap_past`,
   `time/leapsecond.go:254`). Registration compares the entries a table has and
   not the steps it lacks. An old leap-second kernel is accepted, and every
   later epoch gets its last value.
3. **A cadence undone** (`schedule_cadence`, `plan/strategy.go:240`). The greedy
   pass waits out the minimum interval between two observations of a block; the
   swap and insert passes look at scores, slews and constraints only, and bring
   two of them closer together. `GreedyCadenceKept` proves that a schedule no pass
   has changed keeps its cadences.

Four sentences of the repository that the code does not keep are settled by the
models without a run of their own: each is a single step, plain once it is
read. For three of them a passing property says what holds instead.

- *A live download is stolen from* (`remote/fetch.go:301-302`: a lock older than
  twice the timeout "is not downloading: it crashed"). The age is capped at 30
  minutes (`fetch.go:305`), while shipped endpoints allow 30 and 60
  (`remote/endpoint.go:469`, `685`, `703`), and callers may differ by
  `WithDownloadTimeout`. `AbandonedMeansOverdue` says what holds, and
  `Implements` that until then the lock is exclusive.
- *Partials that cannot be resumed* (`remote/file/lock_resume.go:389-390`: an
  interrupted transfer "leaves a partial the next attempt can resume from"). A
  staged write that fails returns before the partial's ETag is written (`:501`),
  and `ResumePoint` discards a partial without one. The cost is a full transfer.
- *Work that is not cancelled* (`catalog/askall.go:35-36` says of `Map` that
  "the first error wins and the remaining work is canceled"). `Map` keeps the
  first error and goes on to hand out every item that is left. `EachOnce` says
  so, for failing calls as well.
- *A score that falls* (`plan/strategy.go:19`: "the total schedule score never
  decreases"). A block whose score cannot be computed is scored by its
  `Priority` (`strategy.go:436-438`), and a score is multiplied by it elsewhere
  (`plan/plan.go:582-584`); nothing keeps it from being negative, and the insert
  pass compares nothing. `ScoreNeverFalls` says that inserting such a block is
  the only way the total falls, and by how much.

Known as well, where no sentence promises otherwise or the promise is hedged:

- *Discard race* (`remote/fetch.go:181`): a copy is discarded outside the lock,
  by which time it may be another caller's fresh one, and a good version may be
  put on record as rejected. `RejectionLasts` and `Heals` are therefore stated
  for a caller alone, and `CopyKept` for reads that refuse nothing.
- *A good version rejected* (`remote/fetch.go:140-150`, `521-533`): any error of
  a reader on a copy just downloaded, or of a validator, a passing read error
  included, rejects the version until the source serves another or the process
  ends. `WithRead` documents it of a copy that "read refuses"
  (`fetch.go:60-66`).
- *A stale copy of equal size* (`remote/fetch.go:436`): after a crash between
  promotion and ETag, freshness falls back to size equality, and a changed
  source of the same size passes for current.
- *Reset undone* (`time/internal/iers/eop.go:128`): a lazy load between Reset's
  two steps closes the throttle that Reset had opened, and its model is then
  discarded: lookups keep zeros for a cooldown.
- *Chunk overflow* (`remote/file/readerat.go:365`): a sweep is bounded to two
  rounds, and readers that keep marking their chunks can end it with nothing
  evicted.
- *Untold default* (`time/eop.go:270`): answer and source are read at two
  instants, so a zero default can go out without its report.
- *A leaking constructor* (`ephemeris/jpl/provider.go:528`): `NewProvider`
  returns without closing the kernels it had added when a later one fails, and
  `loadSmallBodyKernels` without closing even that one or those still to come.
  `NothingLeaks` is stated for what `Open` makes.
- *A sidecar deleted alone* (`ephemeris/jpl/spk/reader.go:1173`): when a corrupt
  kernel cannot be deleted its checksum still is, and the next open records the
  checksum of the corrupt file. `FlipRefused` is stated for a process that can
  delete.

## What is not modelled

- Numerical code (coordinates, ephemerides, photometry, sky brightness,
  satellites, WCS, event searches): no state between calls, floating point, out
  of TLC's reach. It is most of the repository's lines.
- Parsing and formatting of bulletins, kernels, catalogues and FITS, except
  for whether the result is usable.
- Byte offsets inside a chunk and the copying out of it; a source that ends
  early.
- The memory, HTTP and local file systems as components of their own: the
  modules that use them state what they need (exclusive create, rename that
  replaces, a body from an offset).
- Clock anomalies: a file from the future would hold back the Earth orientation
  fetch until then (`time/internal/iers/fetch.go:132`).
- Panics, which end the process.

## Plan

Done: the lock, chunk cache, file cache, client policy and transports, kernels on
disk and loaded, scheduler, Earth orientation, parallel work, and the registry
part of leap seconds. Next, in this order:

1. **LeapSeconds**, the readers: the day mask, the index and `deltaAT` read by
   one conversion while a table is registered.
2. **FileSystems**: staging in `localfs.go`, `httpfile.go` ranges and retries,
   `memfs.go`, each against the abstract file system that `FileCache` assumes.
3. `FileCache` over `DownloadLock` for one crash, to see what the steal race does
   to a cache.
