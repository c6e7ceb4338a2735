--------------------------- MODULE KernelProvider ---------------------------
(***************************************************************************)
(* jpl.Provider (ephemeris/jpl/provider.go): the SPK kernels a program has *)
(* loaded, the index over their segments, and the queries that goroutines  *)
(* make while others add, remove and close kernels; with the record cache  *)
(* each spk.Reader keeps (ephemeris/jpl/spk/reader.go).                    *)
(*                                                                         *)
(* A query holds the provider's RWMutex for reading across two steps: it   *)
(* finds a segment, then evaluates it.  A writer does all its work in one  *)
(* step, when no query is between the two.  Kernels are opened outside the *)
(* mutex.  The names are apart from KernelCache's: the theorems about both *)
(* are in one module.                                                      *)
(***************************************************************************)
EXTENDS Integers, Sequences, SequencesExt, Sorting

CONSTANTS
    Callers,      \* goroutines using the provider
    Keys,         \* the kernels in the file system
    Holds,        \* Holds[k]: the segments of kernel k, in its order
    Targets,      \* bodies asked for
    Epochs,       \* instants asked for
    Makers,       \* what makes the provider: Open or NewProvider
    MaxReaders,   \* bound on the readers in use at once
    MaxKernels,   \* bound on the kernels loaded when another is opened
    MaxFaults,    \* bound on failed closes
    Nil           \* no reader, no coverage

Segments == [target : Targets, from : Epochs, to : Epochs, frame : {"J2000", "other"}]

ASSUME ProviderAssumption ==
    /\ Holds \in [Keys -> Seq(Segments)] /\ Epochs \subseteq Nat
    /\ Makers \subseteq {"Open", "NewProvider"}
    /\ {MaxReaders, MaxKernels, MaxFaults} \subseteq Nat
    /\ Nil \notin Nat \union [from : Epochs, to : Epochs]

VARIABLES
    maker,      \* Open or NewProvider, fixed
    phase,      \* the provider is absent, being made, or up
    kernels,    \* Provider.Kernels, by their readers
    byTarget,   \* Provider.ByTarget: references <<kernel, segment>> in order
    coverage,   \* Provider.ByTargetCoverage, or Nil
    key,        \* the kernel each reader reads
    open,       \* readers whose file is open
    records,    \* recordCache: <<reader, segment>> with a record kept
    call,       \* what each caller is doing
    lent,       \* readers AddKernel refused: their caller's to close
    dead,       \* readers closed and still listed: Close, a failed close (history)
    failed      \* failed closes so far (bound)

index == <<kernels, byTarget, coverage>>
readerFiles == <<key, open, records>>
own == <<lent, dead>>
providerVars == <<maker, phase, index, readerFiles, call, own, failed>>

Readers == 1 .. MaxReaders
NoCall == [at |-> "idle", op |-> Nil, ref |-> Nil, reader |-> Nil]

NoIndex == /\ byTarget = [t \in Targets |-> <<>>]
           /\ coverage = [t \in Targets |-> Nil]

ProviderInit ==
    /\ maker \in Makers /\ phase = "absent"
    /\ kernels = <<>> /\ NoIndex
    /\ key = [r \in Readers |-> Nil] /\ open = {} /\ records = {}
    /\ call = [c \in Callers |-> NoCall]
    /\ lent = {} /\ dead = {} /\ failed = 0
----------------------------------------------------------------------------
CallAt(c, l) == call[c].at = l
CallEnds(c) == call' = [call EXCEPT ![c] = NoCall]

\* Somebody holds the RWMutex for reading.
Reading == \E c \in Callers : CallAt(c, "evaluate")

SegmentAt(ks, ref) == Holds[key[ks[ref[1]]]][ref[2]]

\* The segments of the kernels ks, and those of target t.
Refs(ks) == UNION {{i} \X DOMAIN Holds[key[ks[i]]] : i \in DOMAIN ks}
RefsTo(ks, t) == {ref \in Refs(ks) : SegmentAt(ks, ref).target = t}

Later(p, q) == p[1] > q[1] \/ (p[1] = q[1] /\ p[2] > q[2])

\* rebuildIndexLocked over the kernels ks: it meets them kernel by kernel and,
\* within each, segment by segment.
AsMet(refs) == InOrder(refs, {pq \in refs \X refs : Later(pq[2], pq[1])})

Hull(segments) ==
    [from |-> CHOOSE e \in {s.from : s \in segments} : \A s \in segments : e <= s.from,
     to |-> CHOOSE e \in {s.to : s \in segments} : \A s \in segments : e >= s.to]

Reindexed(ks) ==
    LET held(t) == {SegmentAt(ks, ref) : ref \in RefsTo(ks, t)}
    IN  /\ kernels' = ks
        /\ byTarget' = [t \in Targets |-> AsMet(RefsTo(ks, t))]
        /\ coverage' = [t \in Targets |-> IF held(t) = {} THEN Nil ELSE Hull(held(t))]

Listed == {kernels[i] : i \in DOMAIN kernels}

\* Reader.Close drops the records, then closes the file.
CloseFiles(rs) ==
    /\ open' = open \ rs
    /\ records' = {m \in records : m[1] \notin rs}

\* Closed, the readers rs stay listed; or they are done with.
CloseListed(rs) == CloseFiles(rs) /\ dead' = dead \union rs /\ UNCHANGED key
CloseReaders(rs) ==
    /\ CloseFiles(rs) /\ dead' = dead \ rs
    /\ key' = [r \in Readers |-> IF r \in rs THEN Nil ELSE key[r]]

\* Readers a call or a caller of AddKernel has in hand.
InHand == lent \union {call[c].reader : c \in Callers}

\* A free reader opened on kernel k.
Free == Readers \ (open \union Listed \union InHand)
OpenReader(r, k) ==
    /\ r = CHOOSE f \in Free : \A g \in Free : f <= g
    /\ key' = [key EXCEPT ![r] = k]
    /\ open' = open \union {r} /\ UNCHANGED records

\* addKernelLocked takes a kernel whole or not at all.
Addable(k) == \A j \in DOMAIN Holds[k] : Holds[k][j].frame = "J2000"
----------------------------------------------------------------------------
\* Open and NewProvider: kernels one by one into a provider nobody has yet.
\* Open's failure closes all of them.  NewProvider's closes only the one that
\* addKernelPath refused, and loadSmallBodyKernels none: what they had added,
\* and the small-body readers still to come, stay open.
Make ==
    /\ phase = "absent" /\ phase' = "making"
    /\ UNCHANGED <<maker, index, readerFiles, call, own, failed>>

MakeAdd(k) ==
    /\ phase = "making" /\ Free # {} /\ Len(kernels) < MaxKernels /\ Addable(k)
    /\ \E r \in Free :
         /\ OpenReader(r, k)
         /\ kernels' = Append(kernels, r)
    /\ UNCHANGED <<maker, phase, byTarget, coverage, call, own, failed>>

\* A kernel or the LSK does not open, or a kernel is refused.
MakeFails ==
    /\ phase = "making" /\ phase' = "absent"
    /\ kernels' = <<>>
    /\ IF maker = "Open" THEN CloseReaders(Listed)
       ELSE UNCHANGED <<readerFiles, dead>>
    /\ UNCHANGED <<maker, byTarget, coverage, call, lent, failed>>

MakeEnds ==
    /\ phase = "making" /\ phase' = "up"
    /\ Reindexed(kernels)
    /\ UNCHANGED <<maker, readerFiles, call, own, failed>>
----------------------------------------------------------------------------
Inside(span, e) == span.from <= e /\ e <= span.to

\* Faulty variant of FindSegment: the first match wins.
FindSegmentFirst(t, e) ==
    LET hits == {n \in DOMAIN byTarget[t] :
                   Inside(SegmentAt(kernels, byTarget[t][n]), e)}
    IN  IF coverage[t] = Nil \/ hits = {} THEN Nil
        ELSE byTarget[t][CHOOSE n \in hits : \A m \in hits : n <= m]

\* findSegmentLocked: outside the target's hull nothing is searched, and of the
\* references that cover the instant the last is taken.  Nil stands for
\* ErrUnknownTarget and ErrNoSegment.
FindSegment(t, e) ==
    LET hits == {n \in DOMAIN byTarget[t] :
                   Inside(SegmentAt(kernels, byTarget[t][n]), e)}
    IN  IF coverage[t] = Nil \/ ~Inside(coverage[t], e) \/ hits = {} THEN Nil
        ELSE byTarget[t][CHOOSE n \in hits : \A m \in hits : m <= n]

\* Locate, first step: RLock and a segment; a query without one ends here.
Locate(c, t, e) ==
    LET ref == FindSegment(t, e) IN
    /\ phase = "up" /\ CallAt(c, "idle") /\ ref # Nil
    /\ call' = [call EXCEPT ![c] = [NoCall EXCEPT !.at = "evaluate", !.ref = ref,
                                                !.reader = kernels[ref[1]]]]
    /\ UNCHANGED <<maker, phase, index, readerFiles, own, failed>>

\* EvaluateSegment and RUnlock: on the record kept of the segment, if it is the
\* one called for, or on one read and kept in its place.
Record(c) == <<call[c].reader, call[c].ref[2]>>

EvaluateCached(c) ==
    /\ CallAt(c, "evaluate") /\ Record(c) \in records
    /\ CallEnds(c)
    /\ UNCHANGED <<maker, phase, index, readerFiles, own, failed>>

Evaluate(c) ==
    /\ CallAt(c, "evaluate") /\ call[c].reader \in open
    /\ records' = records \union {Record(c)}
    /\ CallEnds(c)
    /\ UNCHANGED <<maker, phase, index, key, open, own, failed>>

\* The file does not answer, closed or not.
EvaluateFails(c) ==
    /\ CallAt(c, "evaluate")
    /\ CallEnds(c)
    /\ UNCHANGED <<maker, phase, index, readerFiles, own, failed>>
----------------------------------------------------------------------------
\* AddKernelFrom and AddKernel, with a reader opened beforehand; then, as for
\* every writer, the mutex.
AskAdd(c, k) ==
    /\ phase = "up" /\ CallAt(c, "idle")
    /\ Free # {} /\ Len(kernels) < MaxKernels
    /\ \E r \in Free, op \in {"AddKernelFrom", "AddKernel"} :
         /\ OpenReader(r, k)
         /\ call' = [call EXCEPT ![c] =
                       [NoCall EXCEPT !.at = "lock", !.op = op, !.reader = r]]
    /\ UNCHANGED <<maker, phase, index, own, failed>>

Add(c) ==
    /\ CallAt(c, "lock") /\ ~Reading /\ Addable(key[call[c].reader])
    /\ Reindexed(Append(kernels, call[c].reader))
    /\ CallEnds(c)
    /\ UNCHANGED <<maker, phase, readerFiles, own, failed>>

Lend(c) == lent' = lent \union {call[c].reader} /\ UNCHANGED <<readerFiles, dead>>

\* Faulty variant of AddRefused: a kernel this call opened stays open.
AddRefusedOpen(c) ==
    /\ CallAt(c, "lock") /\ ~Reading /\ ~Addable(key[call[c].reader])
    /\ IF call[c].op = "AddKernel" THEN Lend(c) ELSE UNCHANGED <<readerFiles, own>>
    /\ CallEnds(c)
    /\ UNCHANGED <<maker, phase, index, failed>>

\* The kernel holds a foreign frame (or its summaries cannot be read, which ends
\* the same way).  A kernel this call opened is closed; a caller's stays its own.
AddRefused(c) ==
    /\ CallAt(c, "lock") /\ ~Reading /\ ~Addable(key[call[c].reader])
    /\ IF call[c].op = "AddKernel" THEN Lend(c)
       ELSE CloseReaders({call[c].reader}) /\ UNCHANGED lent
    /\ CallEnds(c)
    /\ UNCHANGED <<maker, phase, index, failed>>

CloseLent ==
    /\ lent # {} /\ CloseReaders(lent) /\ lent' = {}
    /\ UNCHANGED <<maker, phase, index, call, failed>>

Writer == phase = "up" /\ ~Reading /\ \E c \in Callers : CallAt(c, "idle")

\* Faulty variant of RemoveKernel: it does not wait for the queries under way.
RemoveKernelUnlocked(i) ==
    /\ phase = "up" /\ i \in DOMAIN kernels
    /\ CloseReaders({kernels[i]}) /\ Reindexed(RemoveAt(kernels, i))
    /\ UNCHANGED <<maker, phase, call, lent, failed>>

RemoveKernel(i) ==
    /\ Writer /\ i \in DOMAIN kernels
    /\ CloseReaders({kernels[i]}) /\ Reindexed(RemoveAt(kernels, i))
    /\ UNCHANGED <<maker, phase, call, lent, failed>>

\* A close that fails has dropped the records, and closed the file for all that
\* anyone can tell; the kernel stays listed.  A second close fails for good.
RemoveFails(i) ==
    /\ Writer /\ i \in DOMAIN kernels
    /\ CloseListed({kernels[i]})
    /\ IF kernels[i] \in open THEN failed < MaxFaults /\ failed' = failed + 1
       ELSE UNCHANGED failed
    /\ UNCHANGED <<maker, phase, index, call, lent>>

\* UnloadAll closes every reader and lists none; Close closes them and leaves
\* the list as it is.
UnloadAll ==
    /\ Writer
    /\ CloseReaders(Listed) /\ Reindexed(<<>>)
    /\ UNCHANGED <<maker, phase, call, lent, failed>>

Close ==
    /\ Writer
    /\ CloseListed(Listed)
    /\ UNCHANGED <<maker, phase, index, call, lent, failed>>
----------------------------------------------------------------------------
ProviderNext ==
    \/ Make \/ MakeFails \/ MakeEnds \/ CloseLent \/ UnloadAll \/ Close
    \/ \E k \in Keys : MakeAdd(k)
    \/ \E i \in Readers : RemoveKernel(i) \/ RemoveFails(i)
    \/ \E c \in Callers :
         \/ EvaluateCached(c) \/ Evaluate(c) \/ EvaluateFails(c)
         \/ Add(c) \/ AddRefused(c)
         \/ \E k \in Keys : AskAdd(c, k)
         \/ \E t \in Targets, e \in Epochs : Locate(c, t, e)

ProviderSpec == ProviderInit /\ [][ProviderNext]_providerVars
----------------------------------------------------------------------------
\* The segments of the kernels now listed that cover target t at instant e.
Covering(t, e) ==
    {ref \in RefsTo(kernels, t) : Inside(SegmentAt(kernels, ref), e)}

\* "Last match wins" (provider.go:717), whatever was added, refused, removed or
\* unloaded before: a query goes to the last segment of the last kernel listed
\* that covers the target then, and is refused only when none does, never
\* because of a kernel that is gone.
AnswersAsLoaded ==
    phase = "up" => \A t \in Targets, e \in Epochs :
        LET refs == Covering(t, e)  found == FindSegment(t, e)
        IN  IF refs = {} THEN found = Nil
            ELSE found \in refs /\ \A ref \in refs : ~Later(ref, found)

\* A removal waits for the queries under way, and "a closed kernel
\* answers no evaluation" (spk/reader.go:300): every answer comes from a kernel
\* that is open and where the query found it, and a query fails on a closed one
\* only after Close, or after a removal that failed.
AnswersFromOpen ==
    [][\A c \in Callers :
         /\ (EvaluateCached(c) \/ Evaluate(c)) => call[c].reader \in open
         /\ CallAt(c, "evaluate") /\ ~CallAt(c, "evaluate")' =>
              /\ call[c].reader \in open \union dead
              /\ call[c].ref[1] \in DOMAIN kernels
              /\ kernels[call[c].ref[1]] = call[c].reader]_providerVars

\* "a failed Open leaves nothing open behind the error", a kernel AddKernelFrom
\* could not add "is closed here", and AddKernel's "stays the caller's to close"
\* (provider.go:462, :358, :329): every open file is a listed kernel's, that of
\* a call under way, or a caller's to close.
NothingLeaks ==
    maker = "Open" => open \subseteq Listed \union InHand
=============================================================================
