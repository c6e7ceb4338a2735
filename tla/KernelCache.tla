---------------------------- MODULE KernelCache ----------------------------
(***************************************************************************)
(* spk.CacheDownload (ephemeris/jpl/spk/reader.go): how the processes that *)
(* share a cache open one SPK kernel in it, and what keeps a corrupt copy  *)
(* from being used or kept.  A copy is checked for its length and its      *)
(* structure, and its SHA-256 against the one a sidecar recorded when the  *)
(* kernel was first trusted; a copy proven wrong is deleted, so that the   *)
(* next open downloads it again.                                           *)
(*                                                                         *)
(* Every look at a file is a step.  An open file outlives its name, as on  *)
(* POSIX, so a process may go on checking a copy another one replaced.     *)
(* How GetFile downloads is FileCache's subject; here it is one step.      *)
(***************************************************************************)
EXTENDS Integers, FiniteSets

CONSTANTS
    Processes,    \* processes sharing the cache
    Workloads,    \* what a behaviour may meet (bounds): see Workload
    MaxVersion,   \* bound on the kernels the source publishes under the name
    None          \* no file, no checksum

FaultKinds == {"flip", "short", "garble", "io", "undeletable", "crash", "reissue"}
Workload == [procs : SUBSET Processes, faultKinds : SUBSET FaultKinds, maxFaults : Nat]

ASSUME KernelCacheAssumption ==
    /\ MaxVersion \in Nat \ {0} /\ IsFiniteSet(Processes)
    /\ Workloads \subseteq Workload

VARIABLES
    work,      \* the workload, fixed
    source,    \* the version the source publishes
    kernel,    \* the file under the kernel's key, or None
    bytes,     \* what is in each file
    sidecar,   \* the checksum recorded, or None
    proc,      \* what each process is doing
    faults,    \* faults so far (bound)
    spoiled    \* a copy was damaged or the kernel reissued (history)

files == <<kernel, bytes, sidecar>>
vars == <<work, source, files, proc, faults, spoiled>>

\* A file is a version of the kernel, whole or harmed: bits flipped in its
\* coefficients, truncated, or its directory unreadable.  The SHA-256 of a file
\* stands for all of it.
Files == 1 .. Cardinality(Processes)
Contents == [ver : 1 .. MaxVersion, harm : {"none", "flip", "short", "garble"}]
Whole(v) == [ver |-> v, harm |-> "none"]

ASSUME NoneAssumption == None \notin Files \union Contents

\* A process's locals: where CacheDownload is, the file it has open, the
\* checksum it computed, whether the corruption it found is the checksum's; and
\* how the last call ended: without a reader, or with one of a file so harmed.
Idle == [at |-> "idle", file |-> None, sum |-> None, extra |-> FALSE, last |-> "failed"]

Init ==
    /\ work \in Workloads
    /\ source = 1 /\ kernel = None /\ sidecar = None
    /\ bytes = [f \in Files |-> Whole(1)]
    /\ proc = [p \in Processes |-> Idle]
    /\ faults = 0 /\ spoiled = FALSE
----------------------------------------------------------------------------
At(p, l) == proc[p].at = l
Handle(p) == bytes[proc[p].file]
Goto(p, l) == proc' = [proc EXCEPT ![p].at = l]
Return(p, how) == proc' = [proc EXCEPT ![p] = [Idle EXCEPT !.last = how]]
Local == UNCHANGED <<work, source, files, faults, spoiled>>

Fault(k) ==
    /\ k \in work.faultKinds /\ faults < work.maxFaults
    /\ faults' = faults + 1

\* GetFile: the copy in the cache, or a download into a new file.
GetFile(p) ==
    /\ At(p, "idle") /\ p \in work.procs
    /\ Goto(p, "open")
    /\ \/ kernel # None /\ UNCHANGED files
       \/ /\ kernel = None
          /\ kernel' = CHOOSE f \in Files : \A q \in Processes : proc[q].file # f
          /\ bytes' = [bytes EXCEPT ![kernel'] = Whole(source)]
          /\ UNCHANGED sidecar
    /\ UNCHANGED <<work, source, faults, spoiled>>

Open(p) ==
    /\ At(p, "open") /\ kernel # None
    /\ proc' = [proc EXCEPT ![p].at = "header", ![p].file = kernel]
    /\ Local

\* Open and Stat go by name, and another process may have removed it.
Gone(p) ==
    /\ At(p, "open") \/ At(p, "stat")
    /\ kernel = None
    /\ Return(p, "failed") /\ Local

\* Proven corruption leads to discardIfCorrupt; only the checksum's takes the
\* sidecar along.
Corrupt(p, extra) == proc' = [proc EXCEPT ![p].at = "discard", ![p].extra = extra]

NewReader(p) ==
    /\ At(p, "header")
    /\ \/ Goto(p, "stat")
       \/ Handle(p).harm = "short" /\ Corrupt(p, FALSE)
    /\ Local

\* The floor on the size is of the file now under the name, open or not.
Stat(p) ==
    /\ At(p, "stat") /\ kernel # None
    /\ IF bytes[kernel].harm = "short" THEN Corrupt(p, FALSE) ELSE Goto(p, "summaries")
    /\ Local

ReadSummaries(p) ==
    /\ At(p, "summaries")
    /\ CASE Handle(p).harm = "garble" -> Corrupt(p, FALSE)
         [] Handle(p).harm = "short" -> Return(p, "failed")
         [] OTHER -> Goto(p, "hash")
    /\ Local

Hash(p) ==
    /\ At(p, "hash")
    /\ proc' = [proc EXCEPT ![p].at = "verify", ![p].sum = Handle(p)]
    /\ Local

\* The recorded checksum, before and after a recording of one's own that failed.
Verify(p) ==
    /\ At(p, "verify") \/ At(p, "verify again")
    /\ sidecar # None
    /\ IF sidecar = proc[p].sum THEN Return(p, proc[p].sum.harm) ELSE Corrupt(p, TRUE)
    /\ Local

Unrecorded(p) ==
    /\ sidecar = None
    /\ \/ At(p, "verify") /\ Goto(p, "bootstrap")
       \/ At(p, "verify again") /\ Return(p, "failed")
    /\ Local

Bootstrap(p) ==
    /\ At(p, "bootstrap")
    /\ sidecar' = proc[p].sum
    /\ Return(p, proc[p].sum.harm)
    /\ UNCHANGED <<work, source, kernel, bytes, faults, spoiled>>

BootstrapFails(p) ==
    /\ At(p, "bootstrap") /\ Fault("io")
    /\ Goto(p, "verify again")
    /\ UNCHANGED <<work, source, files, spoiled>>

\* Faulty variant of ReadFails: a file that cannot be read is taken for corrupt.
ReadFailsDiscards(p) ==
    /\ proc[p].at \in {"idle", "open", "header", "stat", "summaries", "hash",
                       "verify", "verify again"}
    /\ p \in work.procs /\ Fault("io")
    /\ IF At(p, "summaries") THEN Corrupt(p, FALSE) ELSE Return(p, "failed")
    /\ UNCHANGED <<work, source, files, spoiled>>

\* Faulty variant of ReadFails: a sidecar that cannot be read is a missing one.
ReadFailsBootstraps(p) ==
    /\ proc[p].at \in {"idle", "open", "header", "stat", "summaries", "hash",
                       "verify", "verify again"}
    /\ p \in work.procs /\ Fault("io")
    /\ IF At(p, "verify") THEN Goto(p, "bootstrap") ELSE Return(p, "failed")
    /\ UNCHANGED <<work, source, files, spoiled>>

\* A read or a download that fails says nothing of the bytes: the call ends and
\* leaves the file alone.
ReadFails(p) ==
    /\ proc[p].at \in {"idle", "open", "header", "stat", "summaries", "hash",
                       "verify", "verify again"}
    /\ p \in work.procs /\ Fault("io")
    /\ Return(p, "failed")
    /\ UNCHANGED <<work, source, files, spoiled>>

\* discardIfCorrupt removes the file under the name, whichever that is by now,
\* and goes on to the sidecar even when it could not be removed.
Discarded(p) ==
    proc' = IF proc[p].extra THEN [proc EXCEPT ![p].at = "unrecord"]
            ELSE [proc EXCEPT ![p] = Idle]

Discard(p) ==
    /\ At(p, "discard")
    /\ kernel' = None
    /\ Discarded(p)
    /\ UNCHANGED <<work, source, bytes, sidecar, faults, spoiled>>

DiscardFails(p) ==
    /\ At(p, "discard") /\ kernel # None /\ Fault("undeletable")
    /\ Discarded(p)
    /\ UNCHANGED <<work, source, files, spoiled>>

\* Faulty variant of RemoveChecksumSidecar: the sidecar stays.
KeepChecksumSidecar(p) == At(p, "unrecord") /\ Return(p, "failed") /\ Local

RemoveChecksumSidecar(p) ==
    /\ At(p, "unrecord")
    /\ sidecar' = None
    /\ Return(p, "failed")
    /\ UNCHANGED <<work, source, kernel, bytes, faults, spoiled>>

RemoveSidecarFails(p) ==
    /\ At(p, "unrecord") /\ Fault("io")
    /\ Return(p, "failed")
    /\ UNCHANGED <<work, source, files, spoiled>>

Crash(p) ==
    /\ ~At(p, "idle") /\ Fault("crash")
    /\ proc' = [proc EXCEPT ![p] = Idle]
    /\ UNCHANGED <<work, source, files, spoiled>>
----------------------------------------------------------------------------
\* The medium harms the copy in the cache, and the source publishes another
\* kernel under the name.  Bits that flip before the checksum is recorded are
\* past what the code promises to notice.
Harm(k) ==
    /\ kernel # None /\ bytes[kernel].harm = "none"
    /\ k = "flip" => sidecar = bytes[kernel]
    /\ Fault(k)
    /\ bytes' = [bytes EXCEPT ![kernel].harm = k]
    /\ spoiled' = TRUE
    /\ UNCHANGED <<work, source, kernel, sidecar, proc>>

Reissue ==
    /\ source < MaxVersion /\ Fault("reissue")
    /\ source' = source + 1 /\ spoiled' = TRUE
    /\ UNCHANGED <<work, files, proc>>

Step(p) ==
    \/ GetFile(p) \/ Open(p) \/ Gone(p) \/ NewReader(p) \/ Stat(p)
    \/ ReadSummaries(p) \/ Hash(p) \/ Verify(p) \/ Unrecorded(p)
    \/ Bootstrap(p) \/ Discard(p) \/ RemoveChecksumSidecar(p)

Next ==
    \/ \E p \in Processes :
         \/ Step(p) \/ BootstrapFails(p) \/ ReadFails(p) \/ DiscardFails(p)
         \/ RemoveSidecarFails(p) \/ Crash(p)
    \/ \E k \in {"flip", "short", "garble"} : Harm(k)
    \/ Reissue

Spec == Init /\ [][Next]_vars

\* Programs go on opening the kernel, and what they do is scheduled; faults
\* are nobody's to promise.
FairSpec == Spec /\ \A p \in Processes : WF_vars(Step(p))
----------------------------------------------------------------------------
Sums == Contents \union {None}
Places == {"idle", "open", "header", "stat", "summaries", "hash", "verify",
           "verify again", "bootstrap", "discard", "unrecord"}

TypeOK ==
    /\ work \in Workloads /\ source \in 1 .. MaxVersion
    /\ kernel \in Files \union {None} /\ bytes \in [Files -> Contents]
    /\ sidecar \in Sums /\ faults \in 0 .. work.maxFaults /\ spoiled \in BOOLEAN
    /\ proc \in [Processes -> [at : Places, file : Files \union {None}, sum : Sums,
                               extra : BOOLEAN,
                               last : {"failed", "none", "flip", "short", "garble"}]]

\* "Only a proven content failure is destructive" (reader.go:1154): reads and
\* downloads that fail, crashes, and processes that cross each other never
\* delete a kernel; a copy was harmed, or the source published another.
OnlyCorruptDeleted == [][\A p \in Processes : Discard(p) => spoiled]_vars

\* The sidecar's checksum is "compared against on every later open"
\* (reader.go:83): a process that has the cache to itself, and is able to delete
\* from it, is never handed a kernel whose coefficients were harmed after their
\* checksum had been recorded, whatever crashed or failed to be read meanwhile.
FlipRefused ==
    \A p \in Processes :
        work.procs = {p} /\ "undeletable" \notin work.faultKinds
            => proc[p].last # "flip"

\* Deleting it "is what makes the next run heal itself" (reader.go:1137): once
\* the faults end, every process that goes on opening the kernel gets a whole
\* one, again and again.
Heals ==
    \A p \in Processes :
        []<>(p \in work.procs => At(p, "idle") /\ proc[p].last = "none")
=============================================================================
