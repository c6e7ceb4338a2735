-------------------------- MODULE KernelCache_proofs --------------------------
(***************************************************************************)
(* Theorems about the kernels on disk, for any number of processes, any    *)
(* workload and any number of faults; and, in the second half, about the   *)
(* kernels a provider has loaded.                                          *)
(***************************************************************************)
EXTENDS KernelCache, KernelProvider, SequenceTheorems, FiniteSetTheorems, TLAPS

USE DEF At

Ends == {"failed", "none", "flip", "short", "garble"}
Rec == [at : Places, file : Files \union {None}, sum : Sums, extra : BOOLEAN, last : Ends]

Looking == {"header", "stat", "summaries", "hash"}
Comparing == {"verify", "verify again", "bootstrap"}

\* What TypeOK says of the files, and of the processes.
FilesOK ==
    /\ work \in Workloads /\ work \in Workload /\ source \in 1 .. MaxVersion
    /\ kernel \in Files \union {None} /\ bytes \in [Files -> Contents]
    /\ sidecar \in Sums /\ faults \in 0 .. work.maxFaults /\ spoiled \in BOOLEAN
ProcOK == proc \in [Processes -> Rec]

\* A process has a file open from Open on, and a checksum from Hash on; those
\* that are not of the workload do nothing.
PlaceInv ==
    \A p \in Processes :
        /\ At(p, "idle") => proc[p].file = None
        /\ proc[p].at \in Looking => proc[p].file \in Files
        /\ proc[p].at \in Comparing => proc[p].sum \in Contents
        /\ p \notin work.procs => At(p, "idle")

\* Until something is spoiled there is one content, and nobody doubts it.
CleanInv ==
    ~spoiled =>
        /\ source = 1
        /\ \A f \in Files : bytes[f] = Whole(1)
        /\ sidecar \in {None, Whole(1)}
        /\ \A p \in Processes : /\ ~At(p, "discard")
                                /\ proc[p].at \in Comparing => proc[p].sum = Whole(1)

\* One process with the cache to itself, able to delete from it.
Alone(p) == work.procs = {p} /\ "undeletable" \notin work.faultKinds

\* To such a process a flipped kernel always shows: the checksum on record is
\* never that of one, and it is there as long as the flipped kernel is.
FlipInv ==
    \A p \in Processes : Alone(p) =>
        /\ sidecar # None => sidecar.harm # "flip"
        /\ kernel # None /\ bytes[kernel].harm = "flip" => sidecar # None
        /\ proc[p].at \in Looking => proc[p].file = kernel
        /\ At(p, "verify") /\ proc[p].sum.harm = "flip" => sidecar # None
        /\ At(p, "verify again") \/ At(p, "bootstrap") => proc[p].sum.harm # "flip"
        /\ At(p, "unrecord") => kernel = None
        /\ proc[p].last # "flip"

IInv == FilesOK /\ ProcOK /\ PlaceInv /\ CleanInv /\ FlipInv
--------------------------------------------------------------------------------
\* There is always a file to download into: the others have one open at most.
LEMMA FreeFile ==
  ASSUME NEW p \in Processes, proc[p].file = None
  PROVE  \E f \in Files : \A q \in Processes : proc[q].file # f
<1> SUFFICES ASSUME \A f \in Files : \E q \in Processes : proc[q].file = f
             PROVE  FALSE
  OBVIOUS
<1> DEFINE holder == [f \in Files |-> CHOOSE q \in Processes : proc[q].file = f]
<1>1. \A f \in Files : holder[f] \in Processes /\ proc[holder[f]].file = f
  OBVIOUS
<1>2. holder \in [Files -> Processes \ {p}]
  BY <1>1, NoneAssumption
<1>3. /\ IsFiniteSet(Processes) /\ Cardinality(Processes) \in Nat
      /\ IsFiniteSet(Processes \ {p})
      /\ Cardinality(Processes \ {p}) = Cardinality(Processes) - 1
  BY KernelCacheAssumption, FS_CardinalityType, FS_RemoveElement
<1>4. IsFiniteSet(Files) /\ Cardinality(Files) = Cardinality(Processes)
  BY <1>3, FS_Interval DEF Files
<1>5. Cardinality(Processes \ {p}) < Cardinality(Files)
  BY <1>3, <1>4
<1> HIDE DEF holder
<1>6. PICK x, y \in Files : x # y /\ holder[x] = holder[y]
  BY <1>2, <1>3, <1>4, <1>5, FS_PigeonHole
<1>7. QED BY <1>1, <1>6

LEMMA Downloaded ==
  ASSUME PlaceInv, NEW p \in Processes, GetFile(p), kernel = None
  PROVE  /\ kernel' \in Files
         /\ bytes' = [bytes EXCEPT ![kernel'] = Whole(source)]
         /\ \A q \in Processes : proc[q].file # kernel'
  BY FreeFile DEF GetFile, PlaceInv

LEMMA InitIInv == Init => IInv
<1> SUFFICES ASSUME Init PROVE IInv
  OBVIOUS
<1> USE DEF Init, Idle
<1>1. work \in Workloads /\ work \in Workload
  BY KernelCacheAssumption
<1>2. work.maxFaults \in Nat
  BY <1>1 DEF Workload
<1>3. Whole(1) \in Contents
  BY KernelCacheAssumption DEF Whole, Contents
<1>4. FilesOK
  <2>1. source \in 1 .. MaxVersion /\ faults \in 0 .. work.maxFaults
    BY <1>2, KernelCacheAssumption
  <2>2. bytes \in [Files -> Contents]
    BY <1>3
  <2>3. QED BY <1>1, <2>1, <2>2 DEF FilesOK, Sums
<1>5. ProcOK
  BY DEF ProcOK, Rec, Places, Sums, Ends
<1>6. PlaceInv
  BY DEF PlaceInv, Looking, Comparing
<1>7. CleanInv
  BY DEF CleanInv, Comparing
<1>8. FlipInv
  BY DEF FlipInv, Looking
<1>9. QED BY <1>4, <1>5, <1>6, <1>7, <1>8 DEF IInv
--------------------------------------------------------------------------------
(* What a step makes of the process that takes it.                              *)

Others(p) == \A q \in Processes \ {p} : proc'[q] = proc[q]

LEMMA Returning ==
  ASSUME ProcOK, NEW p \in Processes, NEW how \in Ends, Return(p, how)
  PROVE  /\ ProcOK' /\ Others(p)
         /\ proc'[p].at = "idle" /\ proc'[p].file = None /\ proc'[p].last = how
  BY DEF ProcOK, Others, Return, Idle, Rec, Places, Sums

LEMMA Going ==
  ASSUME ProcOK, NEW p \in Processes, NEW l \in Places, Goto(p, l)
  PROVE  /\ ProcOK' /\ Others(p) /\ proc'[p].at = l
         /\ proc'[p].file = proc[p].file /\ proc'[p].sum = proc[p].sum
         /\ proc'[p].last = proc[p].last
  BY DEF ProcOK, Others, Goto, Rec

LEMMA Doubting ==
  ASSUME ProcOK, NEW p \in Processes, NEW extra \in BOOLEAN, Corrupt(p, extra)
  PROVE  /\ ProcOK' /\ Others(p) /\ proc'[p].at = "discard"
         /\ proc'[p].last = proc[p].last
  BY DEF ProcOK, Others, Corrupt, Rec, Places

LEMMA Opening ==
  ASSUME FilesOK, ProcOK, NEW p \in Processes, Open(p)
  PROVE  /\ ProcOK' /\ Others(p) /\ proc'[p].at = "header"
         /\ proc'[p].file = kernel /\ proc'[p].last = proc[p].last
  BY DEF FilesOK, ProcOK, Others, Open, Rec, Places

LEMMA Hashing ==
  ASSUME FilesOK, ProcOK, PlaceInv, NEW p \in Processes, Hash(p)
  PROVE  /\ ProcOK' /\ Others(p) /\ proc'[p].at = "verify"
         /\ proc'[p].file = proc[p].file /\ proc[p].file \in Files
         /\ proc'[p].sum = bytes[proc[p].file] /\ proc'[p].sum \in Contents
         /\ proc'[p].last = proc[p].last
<1>1. proc[p].file \in Files /\ bytes[proc[p].file] \in Contents
  BY DEF FilesOK, PlaceInv, Hash, Looking
<1>2. proc' = [proc EXCEPT ![p].at = "verify", ![p].sum = bytes[proc[p].file]]
  BY DEF Hash, Handle
<1>3. QED BY <1>1, <1>2 DEF ProcOK, Others, Rec, Places, Sums

LEMMA Discarding ==
  ASSUME ProcOK, NEW p \in Processes, Discarded(p)
  PROVE  /\ ProcOK' /\ Others(p)
         /\ \/ proc'[p].at = "unrecord" /\ proc'[p].last = proc[p].last
            \/ proc'[p].at = "idle" /\ proc'[p].file = None /\ proc'[p].last = "failed"
<1>1. CASE proc[p].extra
  BY <1>1 DEF ProcOK, Others, Discarded, Rec, Places
<1>2. CASE ~proc[p].extra
  BY <1>2 DEF ProcOK, Others, Discarded, Rec, Places, Idle, Sums, Ends
<1>3. QED BY <1>1, <1>2

LEMMA Crashing ==
  ASSUME ProcOK, NEW p \in Processes, Crash(p)
  PROVE  /\ ProcOK' /\ Others(p)
         /\ proc'[p].at = "idle" /\ proc'[p].file = None /\ proc'[p].last = "failed"
  BY DEF ProcOK, Others, Crash, Idle, Rec, Places, Sums, Ends
--------------------------------------------------------------------------------
(* The inductive step, by actions.                                              *)

DiskSame == UNCHANGED <<work, source, kernel, bytes, sidecar, spoiled>>

\* Reads and downloads that go wrong, and crashes.
LEMMA QuitStep ==
  ASSUME IInv, NEW p \in Processes,
         Gone(p) \/ ReadFails(p) \/ RemoveSidecarFails(p) \/ Crash(p)
  PROVE  IInv'
<1> USE DEF IInv
<1>1. DiskSame /\ faults' \in 0 .. work.maxFaults
  <2>1. work.maxFaults \in Nat
    BY DEF FilesOK, Workload
  <2>2. faults' = faults \/ (faults < work.maxFaults /\ faults' = faults + 1)
    BY DEF Gone, ReadFails, RemoveSidecarFails, Crash, Local, Fault
  <2>3. DiskSame
    BY DEF DiskSame, Gone, ReadFails, RemoveSidecarFails, Crash, Local, files
  <2>4. QED BY <2>1, <2>2, <2>3 DEF FilesOK
<1>2. /\ ProcOK' /\ Others(p)
      /\ proc'[p].at = "idle" /\ proc'[p].file = None /\ proc'[p].last = "failed"
  BY Returning, Crashing DEF Gone, ReadFails, RemoveSidecarFails, Ends
<1>3. FilesOK'
  BY <1>1 DEF DiskSame, FilesOK
<1>4. PlaceInv'
  BY <1>1, <1>2 DEF DiskSame, Others, PlaceInv, Looking, Comparing
<1>5. CleanInv'
  BY <1>1, <1>2 DEF DiskSame, Others, CleanInv, Comparing
<1>6. FlipInv'
  BY <1>1, <1>2 DEF DiskSame, Others, FlipInv, Alone, Looking
<1>7. QED BY <1>2, <1>3, <1>4, <1>5, <1>6

\* A step of CacheDownload that reads and goes on, returns or finds corruption.
LEMMA LookStep ==
  ASSUME IInv, NEW p \in Processes,
         \/ Open(p) \/ NewReader(p) \/ Stat(p) \/ ReadSummaries(p)
         \/ Hash(p) \/ Verify(p) \/ Unrecorded(p)
  PROVE  IInv'
<1> USE DEF IInv
<1>1. DiskSame /\ faults' = faults
  BY DEF DiskSame, Open, NewReader, Stat, ReadSummaries, Hash, Verify, Unrecorded, Local,
         files
<1>2. FilesOK'
  BY <1>1 DEF DiskSame, FilesOK
<1>3. ASSUME ProcOK', Others(p), proc'[p].at = "discard", proc'[p].last = proc[p].last,
             ~At(p, "idle"), spoiled
      PROVE  IInv'
  <2>1. PlaceInv'
    BY <1>1, <1>3 DEF DiskSame, Others, PlaceInv, Looking, Comparing
  <2>2. CleanInv'
    BY <1>1, <1>3 DEF DiskSame, CleanInv
  <2>3. FlipInv'
    BY <1>1, <1>3 DEF DiskSame, Others, FlipInv, Alone, Looking
  <2>4. QED BY <1>2, <1>3, <2>1, <2>2, <2>3
<1>4. ASSUME ProcOK', Others(p), proc'[p].at = "idle", proc'[p].file = None,
             Alone(p) => proc'[p].last # "flip"
      PROVE  IInv'
  <2>1. PlaceInv'
    BY <1>1, <1>4 DEF DiskSame, Others, PlaceInv, Looking, Comparing
  <2>2. CleanInv'
    BY <1>1, <1>4 DEF DiskSame, Others, CleanInv, Comparing
  <2>3. FlipInv'
    BY <1>1, <1>4 DEF DiskSame, Others, FlipInv, Alone, Looking
  <2>4. QED BY <1>2, <1>4, <2>1, <2>2, <2>3
<1>5. ASSUME NEW l \in {"stat", "summaries", "hash"}, Goto(p, l), proc[p].at \in Looking
      PROVE  IInv'
  <2>1. /\ ProcOK' /\ Others(p) /\ proc'[p].at = l /\ proc'[p].file = proc[p].file
        /\ proc'[p].last = proc[p].last
    BY <1>5, Going DEF Places
  <2>2. PlaceInv'
    BY <1>1, <1>5, <2>1 DEF DiskSame, Others, PlaceInv, Looking, Comparing
  <2>3. CleanInv'
    BY <1>1, <1>5, <2>1 DEF DiskSame, Others, CleanInv, Comparing
  <2>4. FlipInv'
    BY <1>1, <1>5, <2>1 DEF DiskSame, Others, FlipInv, Alone, Looking
  <2>5. QED BY <1>2, <2>1, <2>2, <2>3, <2>4
<1>6. CASE Open(p)
  <2>1. kernel \in Files /\ At(p, "open")
    BY <1>6 DEF Open, FilesOK
  <2>2. PlaceInv'
    BY <1>1, <1>6, <2>1, Opening DEF DiskSame, Others, PlaceInv, Looking, Comparing
  <2>3. CleanInv'
    BY <1>1, <1>6, Opening DEF DiskSame, Others, CleanInv, Comparing
  <2>4. FlipInv'
    BY <1>1, <1>6, Opening DEF DiskSame, Others, FlipInv, Alone, Looking
  <2>5. QED BY <1>2, <1>6, <2>2, <2>3, <2>4, Opening
<1>7. CASE NewReader(p)
  <2>1. At(p, "header") /\ proc[p].file \in Files
    BY <1>7 DEF NewReader, PlaceInv, Looking
  <2>2. CASE Goto(p, "stat")
    BY <1>5, <2>1, <2>2 DEF Looking
  <2>3. CASE Handle(p).harm = "short" /\ Corrupt(p, FALSE)
    <3>1. spoiled
      BY <2>1, <2>3 DEF CleanInv, Handle, Whole
    <3>2. QED BY <1>3, <2>1, <2>3, <3>1, Doubting
  <2>4. QED BY <1>7, <2>2, <2>3 DEF NewReader
<1>8. CASE Stat(p)
  <2>1. At(p, "stat") /\ kernel \in Files
    BY <1>8 DEF Stat, FilesOK
  <2>2. CASE Goto(p, "summaries")
    BY <1>5, <2>1, <2>2 DEF Looking
  <2>3. CASE bytes[kernel].harm = "short" /\ Corrupt(p, FALSE)
    <3>1. spoiled
      BY <2>1, <2>3 DEF CleanInv, Whole
    <3>2. QED BY <1>3, <2>1, <2>3, <3>1, Doubting
  <2>4. QED BY <1>8, <2>2, <2>3 DEF Stat
<1>9. CASE ReadSummaries(p)
  <2>1. At(p, "summaries") /\ proc[p].file \in Files
    BY <1>9 DEF ReadSummaries, PlaceInv, Looking
  <2>2. CASE Goto(p, "hash")
    BY <1>5, <2>1, <2>2 DEF Looking
  <2>3. CASE Handle(p).harm = "garble" /\ Corrupt(p, FALSE)
    <3>1. spoiled
      BY <2>1, <2>3 DEF CleanInv, Handle, Whole
    <3>2. QED BY <1>3, <2>1, <2>3, <3>1, Doubting
  <2>4. CASE Return(p, "failed")
    BY <1>4, <2>4, Returning DEF Ends
  <2>5. QED BY <1>9, <2>2, <2>3, <2>4 DEF ReadSummaries
<1>10. CASE Hash(p)
  <2>1. At(p, "hash")
    BY <1>10 DEF Hash
  <2>2. /\ ProcOK' /\ Others(p) /\ proc'[p].at = "verify"
        /\ proc'[p].sum = bytes[proc[p].file] /\ proc'[p].sum \in Contents
        /\ proc[p].file \in Files /\ proc'[p].last = proc[p].last
    BY <1>10, Hashing
  <2>3. PlaceInv'
    BY <1>1, <2>1, <2>2 DEF DiskSame, Others, PlaceInv, Looking, Comparing
  <2>4. CleanInv'
    BY <1>1, <2>1, <2>2 DEF DiskSame, Others, CleanInv, Comparing
  <2>5. FlipInv'
    <3>1. Alone(p) /\ bytes[proc[p].file].harm = "flip" => sidecar # None
      BY <2>1, <2>2, NoneAssumption DEF FlipInv, Looking
    <3>2. QED BY <1>1, <2>1, <2>2, <3>1 DEF DiskSame, Others, FlipInv, Alone, Looking
  <2>6. QED BY <1>2, <2>2, <2>3, <2>4, <2>5
<1>11. CASE Verify(p)
  <2>1. /\ At(p, "verify") \/ At(p, "verify again")
        /\ sidecar # None /\ proc[p].sum \in Contents
    BY <1>11 DEF Verify, PlaceInv, Comparing
  <2>2. CASE sidecar = proc[p].sum /\ Return(p, proc[p].sum.harm)
    <3>1. proc[p].sum.harm \in Ends
      BY <2>1 DEF Contents, Ends
    <3>2. Alone(p) => proc[p].sum.harm # "flip"
      BY <2>1, <2>2 DEF FlipInv
    <3>3. QED BY <1>4, <2>2, <3>1, <3>2, Returning
  <2>3. CASE sidecar # proc[p].sum /\ Corrupt(p, TRUE)
    <3>1. spoiled
      BY <2>1, <2>3 DEF CleanInv, Comparing
    <3>2. QED BY <1>3, <2>1, <2>3, <3>1, Doubting
  <2>4. QED BY <1>11, <2>2, <2>3 DEF Verify
<1>12. CASE Unrecorded(p)
  <2>1. CASE At(p, "verify") /\ Goto(p, "bootstrap")
    <3>1. /\ ProcOK' /\ Others(p) /\ proc'[p].at = "bootstrap"
          /\ proc'[p].sum = proc[p].sum /\ proc'[p].last = proc[p].last
      BY <2>1, Going DEF Places
    <3>2. PlaceInv'
      BY <1>1, <2>1, <3>1 DEF DiskSame, Others, PlaceInv, Looking, Comparing
    <3>3. CleanInv'
      BY <1>1, <2>1, <3>1 DEF DiskSame, Others, CleanInv, Comparing
    <3>4. FlipInv'
      BY <1>1, <1>12, <2>1, <3>1 DEF Unrecorded, DiskSame, Others, FlipInv, Alone, Looking
    <3>5. QED BY <1>2, <3>1, <3>2, <3>3, <3>4
  <2>2. CASE Return(p, "failed")
    BY <1>4, <2>2, Returning DEF Ends
  <2>3. QED BY <1>12, <2>1, <2>2 DEF Unrecorded
<1>13. QED BY <1>6, <1>7, <1>8, <1>9, <1>10, <1>11, <1>12

\* A download, or the copy that is there.
LEMMA GetFileStep ==
  ASSUME IInv, NEW p \in Processes, GetFile(p)
  PROVE  IInv'
<1> USE DEF IInv
<1>1. /\ ProcOK' /\ Others(p) /\ proc'[p].at = "open"
      /\ proc'[p].file = proc[p].file /\ proc'[p].last = proc[p].last
  BY Going DEF GetFile, Places
<1>2. /\ At(p, "idle") /\ p \in work.procs
      /\ UNCHANGED <<work, source, sidecar, faults, spoiled>>
  BY DEF GetFile, files
<1>3. PlaceInv'
  BY <1>1, <1>2 DEF Others, PlaceInv, Looking, Comparing
<1>4. CASE kernel # None
  <2>1. UNCHANGED <<kernel, bytes>>
    BY <1>4 DEF GetFile, files
  <2>2. FilesOK'
    BY <1>2, <2>1 DEF FilesOK
  <2>3. CleanInv'
    BY <1>1, <1>2, <2>1 DEF Others, CleanInv, Comparing
  <2>4. FlipInv'
    BY <1>1, <1>2, <2>1 DEF Others, FlipInv, Alone, Looking
  <2>5. QED BY <1>1, <1>3, <2>2, <2>3, <2>4
<1>5. CASE kernel = None
  <2>1. /\ kernel' \in Files /\ bytes' = [bytes EXCEPT ![kernel'] = Whole(source)]
        /\ \A q \in Processes : proc[q].file # kernel'
    BY <1>5, Downloaded
  <2>2. Whole(source) \in Contents
    BY DEF FilesOK, Whole, Contents
  <2>3. FilesOK'
    BY <1>2, <2>1, <2>2 DEF FilesOK
  <2>4. CleanInv'
    BY <1>1, <1>2, <2>1 DEF FilesOK, Others, CleanInv, Comparing
  <2>5. FlipInv'
    <3>1. bytes'[kernel'].harm = "none"
      BY <2>1 DEF FilesOK, Whole
    <3>2. \A q \in Processes : Alone(q) => q = p
      BY <1>2 DEF Alone
    <3>3. QED BY <1>1, <1>2, <3>1, <3>2 DEF Others, FlipInv, Alone, Looking
  <2>6. QED BY <1>1, <1>3, <2>3, <2>4, <2>5
<1>6. QED BY <1>4, <1>5

\* Recording a checksum, or failing to.
LEMMA BootstrapStep ==
  ASSUME IInv, NEW p \in Processes, Bootstrap(p) \/ BootstrapFails(p)
  PROVE  IInv'
<1> USE DEF IInv
<1>1. At(p, "bootstrap") /\ proc[p].sum \in Contents /\ proc[p].sum # None
  BY NoneAssumption DEF Bootstrap, BootstrapFails, PlaceInv, Comparing
<1>2. CASE Bootstrap(p)
  <2>1. proc[p].sum.harm \in Ends
    BY <1>1 DEF Contents, Ends
  <2>2. /\ UNCHANGED <<work, source, kernel, bytes, faults, spoiled>>
        /\ sidecar' = proc[p].sum
    BY <1>2 DEF Bootstrap
  <2>3. /\ ProcOK' /\ Others(p) /\ proc'[p].at = "idle" /\ proc'[p].file = None
        /\ proc'[p].last = proc[p].sum.harm
    BY <1>2, <2>1, Returning DEF Bootstrap
  <2>4. FilesOK'
    BY <1>1, <2>2 DEF FilesOK, Sums
  <2>5. PlaceInv'
    BY <2>2, <2>3 DEF Others, PlaceInv, Looking, Comparing
  <2>6. CleanInv'
    BY <1>1, <2>2, <2>3 DEF Others, CleanInv, Comparing
  <2>7. FlipInv'
    <3>1. \A q \in Processes : Alone(q) => q = p
      BY <1>1 DEF Alone, PlaceInv
    <3>2. QED BY <1>1, <2>2, <2>3, <3>1 DEF Others, FlipInv, Alone, Looking
  <2>8. QED BY <2>3, <2>4, <2>5, <2>6, <2>7
<1>3. CASE BootstrapFails(p)
  <2>1. work.maxFaults \in Nat
    BY DEF FilesOK, Workload
  <2>2. DiskSame /\ faults' \in 0 .. work.maxFaults
    <3>1. DiskSame
      BY <1>3 DEF BootstrapFails, DiskSame, files
    <3>2. faults' = faults + 1 /\ faults < work.maxFaults
      BY <1>3 DEF BootstrapFails, Fault
    <3>3. QED BY <2>1, <3>1, <3>2 DEF FilesOK
  <2>3. /\ ProcOK' /\ Others(p) /\ proc'[p].at = "verify again"
        /\ proc'[p].sum = proc[p].sum /\ proc'[p].last = proc[p].last
    BY <1>3, Going DEF BootstrapFails, Places
  <2>4. FilesOK'
    BY <2>2 DEF FilesOK, DiskSame
  <2>5. PlaceInv'
    BY <1>1, <2>2, <2>3 DEF DiskSame, Others, PlaceInv, Looking, Comparing
  <2>6. CleanInv'
    BY <1>1, <2>2, <2>3 DEF DiskSame, Others, CleanInv, Comparing
  <2>7. FlipInv'
    BY <1>1, <2>2, <2>3 DEF DiskSame, Others, FlipInv, Alone, Looking
  <2>8. QED BY <2>3, <2>4, <2>5, <2>6, <2>7
<1>4. QED BY <1>2, <1>3

\* Deleting the kernel, and then its checksum.
LEMMA DiscardStep ==
  ASSUME IInv, NEW p \in Processes,
         Discard(p) \/ DiscardFails(p) \/ RemoveChecksumSidecar(p)
  PROVE  IInv'
<1> USE DEF IInv
<1>1. work.maxFaults \in Nat
  BY DEF FilesOK, Workload
<1>2. \A q \in Processes : Alone(q) => q = p
  BY DEF Alone, PlaceInv, Discard, DiscardFails, RemoveChecksumSidecar
<1>3. CASE Discard(p) \/ DiscardFails(p)
  <2>1. /\ UNCHANGED <<work, source, bytes, sidecar, spoiled>>
        /\ faults' \in 0 .. work.maxFaults /\ kernel' \in {None, kernel}
        /\ Alone(p) => kernel' = None
    BY <1>1, <1>3 DEF Discard, DiscardFails, Fault, FilesOK, files, Alone
  <2>2. At(p, "discard")
    BY <1>3 DEF Discard, DiscardFails
  <2>3. /\ ProcOK' /\ Others(p)
        /\ \/ proc'[p].at = "unrecord" /\ proc'[p].last = proc[p].last
           \/ proc'[p].at = "idle" /\ proc'[p].file = None /\ proc'[p].last = "failed"
    BY <1>3, Discarding DEF Discard, DiscardFails
  <2>4. FilesOK'
    BY <2>1 DEF FilesOK
  <2>5. PlaceInv'
    BY <2>1, <2>2, <2>3 DEF Others, PlaceInv, Looking, Comparing
  <2>6. CleanInv'
    BY <2>1, <2>2, <2>3 DEF Others, CleanInv, Comparing
  <2>7. FlipInv'
    BY <1>2, <2>1, <2>2, <2>3 DEF Others, FlipInv, Alone, Looking
  <2>8. QED BY <2>3, <2>4, <2>5, <2>6, <2>7
<1>4. CASE RemoveChecksumSidecar(p)
  <2>1. /\ UNCHANGED <<work, source, kernel, bytes, faults, spoiled>>
        /\ sidecar' = None /\ At(p, "unrecord")
    BY <1>4 DEF RemoveChecksumSidecar
  <2>2. /\ ProcOK' /\ Others(p)
        /\ proc'[p].at = "idle" /\ proc'[p].file = None /\ proc'[p].last = "failed"
    BY <1>4, Returning DEF RemoveChecksumSidecar, Ends
  <2>3. FilesOK'
    BY <2>1 DEF FilesOK, Sums
  <2>4. PlaceInv'
    BY <2>1, <2>2 DEF Others, PlaceInv, Looking, Comparing
  <2>5. CleanInv'
    BY <2>1, <2>2 DEF Others, CleanInv, Comparing
  <2>6. FlipInv'
    BY <1>2, <2>1, <2>2 DEF Others, FlipInv, Alone, Looking
  <2>7. QED BY <2>2, <2>3, <2>4, <2>5, <2>6
<1>5. QED BY <1>3, <1>4

\* The medium and the source.
LEMMA HarmStep ==
  ASSUME IInv, NEW k \in {"flip", "short", "garble"}, Harm(k)
  PROVE  IInv'
<1> USE DEF IInv
<1>1. /\ UNCHANGED <<work, source, kernel, sidecar, proc>> /\ spoiled'
      /\ bytes' = [bytes EXCEPT ![kernel].harm = k]
      /\ kernel \in Files
      /\ k = "flip" => sidecar \in Contents
  BY DEF Harm, FilesOK
<1>2. FilesOK'
  <2>1. faults' \in 0 .. work.maxFaults
    BY DEF Harm, Fault, FilesOK, Workload
  <2>2. bytes' \in [Files -> Contents]
    BY <1>1 DEF FilesOK, Contents
  <2>3. QED BY <1>1, <2>1, <2>2 DEF FilesOK, Harm
<1>3. ProcOK' /\ PlaceInv' /\ CleanInv'
  BY <1>1 DEF ProcOK, PlaceInv, CleanInv
<1>4. FlipInv'
  <2>1. bytes'[kernel'].harm = "flip" => sidecar' # None
    BY <1>1, NoneAssumption DEF FilesOK, Contents
  <2>2. QED BY <1>1, <2>1 DEF FlipInv, Alone
<1>5. QED BY <1>2, <1>3, <1>4

LEMMA ReissueStep ==
  ASSUME IInv, Reissue
  PROVE  IInv'
<1> USE DEF IInv
<1>1. /\ UNCHANGED <<work, files, proc>> /\ spoiled'
      /\ source' = source + 1 /\ source < MaxVersion
      /\ faults' = faults + 1 /\ faults < work.maxFaults
  BY DEF Reissue, Fault
<1>2. FilesOK'
  BY <1>1, KernelCacheAssumption DEF FilesOK, files, Workload
<1>3. ProcOK' /\ PlaceInv' /\ CleanInv' /\ FlipInv'
  BY <1>1 DEF ProcOK, PlaceInv, CleanInv, FlipInv, Alone, files
<1>4. QED BY <1>2, <1>3

\* The inductive invariant holds in every reachable state.
THEOREM Invariant == Spec => []IInv
<1>1. ASSUME IInv, UNCHANGED vars PROVE IInv'
  BY <1>1 DEF IInv, FilesOK, ProcOK, PlaceInv, CleanInv, FlipInv, Alone, vars, files
<1>2. IInv /\ [Next]_vars => IInv'
  BY <1>1, QuitStep, LookStep, GetFileStep, BootstrapStep, DiscardStep, HarmStep,
     ReissueStep
  DEF Next, Step
<1>3. QED BY <1>2, InitIInv, PTL DEF Spec
--------------------------------------------------------------------------------
(* What follows from it.                                                        *)

\* The state of files and processes is what it is declared to be.
THEOREM TypeCorrect == Spec => []TypeOK
<1>1. IInv => TypeOK
  BY DEF IInv, FilesOK, ProcOK, Rec, Ends, TypeOK
<1>2. QED BY <1>1, Invariant, PTL

\* No process deletes a kernel that nothing has harmed or replaced at its
\* source, however many cross each other, crash or fail to read.
THEOREM SoundKernelStays == Spec => OnlyCorruptDeleted
<1>1. IInv /\ [Next]_vars => [\A p \in Processes : Discard(p) => spoiled]_vars
  BY DEF IInv, CleanInv, Discard
<1>2. QED BY <1>1, Invariant, PTL DEF Spec, OnlyCorruptDeleted

\* A process alone with its cache never uses a kernel whose coefficients
\* flipped after their checksum was recorded.
THEOREM FlipsShow == Spec => []FlipRefused
<1>1. IInv => FlipRefused
  BY DEF IInv, FlipInv, FlipRefused, Alone
<1>2. QED BY <1>1, Invariant, PTL

---------------------------------------------------------------------------
(***************************************************************************)
(* The kernels loaded: jpl.Provider, for any number of callers, kernels,   *)
(* readers and failed closes.                                              *)
(***************************************************************************)
---------------------------------------------------------------------------
(* Sorting: what InOrder returns when R is a strict total order on S.      *)

Sorts(R, S) ==
    /\ \A x \in S : <<x, x>> \notin R
    /\ \A x, y \in S : x # y => <<x, y>> \in R \/ <<y, x>> \in R
    /\ \A x, y, z \in S : <<x, y>> \in R /\ <<y, z>> \in R => <<x, z>> \in R

Before(x, R, S) == {y \in S : <<y, x>> \in R}
Rank(x, R, S) == Cardinality(Before(x, R, S))

\* An element comes before another when fewer are before it.
LEMMA RankRises ==
    ASSUME NEW S, IsFiniteSet(S), NEW R, Sorts(R, S)
    PROVE  /\ \A x \in S : Rank(x, R, S) \in 0 .. Cardinality(S) - 1
           /\ \A x, y \in S : <<x, y>> \in R => Rank(x, R, S) < Rank(y, R, S)
           /\ \A x, y \in S : Rank(x, R, S) = Rank(y, R, S) => x = y
<1>1. \A x \in S : IsFiniteSet(Before(x, R, S))
    BY FS_Subset DEF Before
<1>2. ASSUME NEW x \in S
      PROVE  Rank(x, R, S) \in 0 .. Cardinality(S) - 1
    <2>1. Before(x, R, S) \in SUBSET S /\ Before(x, R, S) # S
        BY DEF Before, Sorts
    <2>2. Cardinality(Before(x, R, S)) <= Cardinality(S)
          /\ Cardinality(Before(x, R, S)) # Cardinality(S)
        BY <2>1, FS_Subset
    <2>3. Cardinality(S) \in Nat /\ Cardinality(Before(x, R, S)) \in Nat
        BY <1>1, FS_CardinalityType
    <2>4. QED
        BY <2>2, <2>3 DEF Rank
<1>3. ASSUME NEW x \in S, NEW y \in S, <<x, y>> \in R
      PROVE  Rank(x, R, S) < Rank(y, R, S)
    <2>1. Before(x, R, S) \in SUBSET Before(y, R, S)
        BY <1>3 DEF Before, Sorts
    <2>2. x \in Before(y, R, S) /\ x \notin Before(x, R, S)
        BY <1>3 DEF Before, Sorts
    <2>3. IsFiniteSet(Before(x, R, S)) /\ IsFiniteSet(Before(y, R, S))
        BY <1>1
    <2>4. /\ Cardinality(Before(x, R, S)) <= Cardinality(Before(y, R, S))
          /\ Cardinality(Before(x, R, S)) # Cardinality(Before(y, R, S))
        BY <2>1, <2>2, <2>3, FS_Subset
    <2>5. Cardinality(Before(x, R, S)) \in Nat /\ Cardinality(Before(y, R, S)) \in Nat
        BY <2>3, FS_CardinalityType
    <2>6. QED
        BY <2>4, <2>5 DEF Rank
<1>4. ASSUME NEW x \in S, NEW y \in S, Rank(x, R, S) = Rank(y, R, S), x # y
      PROVE  FALSE
    <2>1. Cardinality(S) \in Nat
        BY FS_CardinalityType
    <2>2. Rank(x, R, S) \in Int /\ Rank(y, R, S) \in Int
        BY <1>2, <2>1
    <2>3. <<x, y>> \in R \/ <<y, x>> \in R
        BY <1>4 DEF Sorts
    <2>4. QED
        BY <1>3, <1>4, <2>2, <2>3
<1>5. QED
    BY <1>2, <1>3, <1>4

\* The sequence lists every element of S once, each before those that R puts
\* after it.
LEMMA InOrderSorts ==
    ASSUME NEW S, IsFiniteSet(S), NEW R, Sorts(R, S)
    PROVE  /\ InOrder(S, R) \in Bijection(1 .. Cardinality(S), S)
           /\ \A k \in 1 .. Cardinality(S) : Rank(InOrder(S, R)[k], R, S) = k - 1
<1> DEFINE n == Cardinality(S)
           place == [x \in S |-> Rank(x, R, S)]
<1>1. n \in Nat
    BY FS_CardinalityType
<1>2. place \in Injection(S, 0 .. n - 1)
    BY <1>1, RankRises DEF Injection, IsInjective
<1>3. IsFiniteSet(0 .. n - 1) /\ Cardinality(0 .. n - 1) = n
    BY <1>1, FS_Interval
<1>4. place \in Surjection(S, 0 .. n - 1)
    BY <1>2, <1>3, FS_Injection
<1>5. \A k \in 1 .. n : \E x \in S : Rank(x, R, S) = k - 1
    <2>1. TAKE k \in 1 .. n
    <2>2. k - 1 \in 0 .. n - 1
        BY <1>1
    <2>3. QED
        BY <1>4, <2>2 DEF Surjection
<1>6. ASSUME NEW k \in 1 .. n
      PROVE  InOrder(S, R)[k] \in S /\ Rank(InOrder(S, R)[k], R, S) = k - 1
    <2>1. InOrder(S, R)[k] = CHOOSE x \in S : Rank(x, R, S) = k - 1
        BY DEF InOrder, Rank, Before
    <2>2. QED
        BY <1>5, <2>1
<1>7. InOrder(S, R) \in [1 .. n -> S]
    BY <1>6 DEF InOrder
<1>8. InOrder(S, R) \in Injection(1 .. n, S)
    BY <1>1, <1>6, <1>7 DEF Injection, IsInjective
<1>9. ASSUME NEW x \in S
      PROVE  \E k \in 1 .. n : InOrder(S, R)[k] = x
    <2> DEFINE k == Rank(x, R, S) + 1
    <2>1. k \in 1 .. n /\ Rank(x, R, S) = k - 1
        BY <1>1, RankRises
    <2>2. Rank(InOrder(S, R)[k], R, S) = Rank(x, R, S) /\ InOrder(S, R)[k] \in S
        BY <1>6, <2>1
    <2>3. QED
        BY <2>1, <2>2, RankRises
<1>10. QED
    BY <1>6, <1>7, <1>8, <1>9 DEF Bijection, Surjection

LEMMA FiniteTo ==
    ASSUME NEW n \in Nat
    PROVE  IsFiniteSet(1 .. n)
BY FS_Interval

\* What is finite has a last element.
LEMMA LastOf ==
    ASSUME NEW S, IsFiniteSet(S), S # {}, NEW R, Sorts(R, S)
    PROVE  \E x \in S : \A y \in S : y # x => <<y, x>> \in R
<1> DEFINE n == Cardinality(S)
           x == InOrder(S, R)[n]
<1>1. n \in Nat /\ n # 0
    BY FS_CardinalityType, FS_EmptySet
<1>2. x \in S /\ Rank(x, R, S) = n - 1
    BY <1>1, InOrderSorts DEF Bijection, Surjection
<1> HIDE DEF x
<1>3. ASSUME NEW y \in S, y # x
      PROVE  <<y, x>> \in R
    <2>1. Rank(y, R, S) \in 0 .. n - 1
        BY RankRises
    <2>2. <<x, y>> \in R => Rank(x, R, S) < Rank(y, R, S)
        BY <1>2, RankRises
    <2>3. <<y, x>> \in R \/ <<x, y>> \in R
        BY <1>2, <1>3 DEF Sorts
    <2>4. QED
        BY <1>1, <1>2, <2>1, <2>2, <2>3
<1>4. QED
    BY <1>2, <1>3

LEMMA LeastOf ==
    ASSUME NEW T \in SUBSET Nat, IsFiniteSet(T), T # {}
    PROVE  \E x \in T : \A y \in T : x <= y
<1> DEFINE R == {pq \in T \X T : pq[2] < pq[1]}
<1>1. Sorts(R, T)
    BY DEF Sorts
<1> HIDE DEF R
<1>2. PICK x \in T : \A y \in T : y # x => <<y, x>> \in R
    BY <1>1, LastOf
<1>3. \A y \in T : y # x => x < y
    BY <1>2 DEF R
<1>4. QED
    BY <1>3

LEMMA GreatestOf ==
    ASSUME NEW T \in SUBSET Nat, IsFiniteSet(T), T # {}
    PROVE  \E x \in T : \A y \in T : y <= x
<1> DEFINE R == {pq \in T \X T : pq[1] < pq[2]}
<1>1. Sorts(R, T)
    BY DEF Sorts
<1> HIDE DEF R
<1>2. PICK x \in T : \A y \in T : y # x => <<y, x>> \in R
    BY <1>1, LastOf
<1>3. \A y \in T : y # x => y < x
    BY <1>2 DEF R
<1>4. QED
    BY <1>3

---------------------------------------------------------------------------
(* The index.                                                              *)

Names(ks) ==
    /\ ks \in Seq(Readers)
    /\ \A i \in 1 .. Len(ks) : key[ks[i]] \in Keys

\* References are finitely many places of segments.
LEMMA RefsAre ==
    ASSUME NEW ks, Names(ks)
    PROVE  /\ IsFiniteSet(Refs(ks))
           /\ \A ref \in Refs(ks) :
                 /\ ref \in Nat \X Nat /\ ref[1] \in 1 .. Len(ks)
                 /\ SegmentAt(ks, ref) \in Segments
<1> DEFINE D == 1 .. Len(ks)
           S(i) == Holds[key[ks[i]]]
           pairs == [i \in D |-> {i} \X DOMAIN S(i)]
           all == {pairs[i] : i \in D}
<1>1. Len(ks) \in Nat /\ DOMAIN ks = D
    BY LenProperties DEF Names
<1>2. ASSUME NEW i \in D
      PROVE  /\ Len(S(i)) \in Nat /\ DOMAIN S(i) = 1 .. Len(S(i))
             /\ \A j \in DOMAIN S(i) : S(i)[j] \in Segments
             /\ IsFiniteSet(pairs[i])
    <2>1. S(i) \in Seq(Segments)
        BY ProviderAssumption DEF Names
    <2>2. /\ Len(S(i)) \in Nat /\ DOMAIN S(i) = 1 .. Len(S(i))
          /\ \A j \in DOMAIN S(i) : S(i)[j] \in Segments
        BY <2>1, LenProperties, ElementOfSeq
    <2>3. IsFiniteSet(DOMAIN S(i)) /\ IsFiniteSet({i})
        <3> DEFINE n == Len(S(i))
        <3>1. n \in Nat /\ DOMAIN S(i) = 1 .. n
            BY <2>2
        <3> HIDE DEF n
        <3>2. IsFiniteSet(1 .. n)
            BY <3>1, FiniteTo
        <3>3. QED
            BY <3>1, <3>2, FS_Singleton
    <2>4. IsFiniteSet({i} \X DOMAIN S(i))
        BY <2>3, FS_Product
    <2>5. QED
        BY <2>2, <2>4
<1>3. Refs(ks) = UNION all
    BY <1>1 DEF Refs
<1>4. \A ref \in Refs(ks) :
         /\ ref \in Nat \X Nat /\ ref[1] \in D
         /\ SegmentAt(ks, ref) \in Segments
    <2>1. TAKE ref \in Refs(ks)
    <2>2. PICK i \in D : ref \in {i} \X DOMAIN S(i)
        BY <1>1 DEF Refs
    <2>3. ref[1] = i /\ ref[2] \in DOMAIN S(i) /\ ref = <<ref[1], ref[2]>>
        BY <2>2
    <2>4. i \in Nat /\ ref[2] \in Nat
        <3>1. Len(S(i)) \in Nat /\ DOMAIN S(i) = 1 .. Len(S(i))
            BY <1>2
        <3>2. QED
            BY <1>1, <2>3, <3>1
    <2>5. SegmentAt(ks, ref) = S(i)[ref[2]]
        BY <2>3 DEF SegmentAt
    <2>6. QED
        BY <1>2, <2>3, <2>4, <2>5
<1>5. IsFiniteSet(all)
    <2>1. IsFiniteSet(D)
        BY <1>1, FiniteTo
    <2>2. pairs \in Surjection(D, all)
        BY DEF Surjection
    <2> HIDE DEF D, pairs, all
    <2>3. QED
        BY <2>1, <2>2, FS_Surjection
<1>6. \A T \in all : IsFiniteSet(T)
    BY <1>2
<1> HIDE DEF all
<1>7. IsFiniteSet(UNION all)
    BY <1>5, <1>6, FS_UNION
<1>8. QED
    BY <1>3, <1>4, <1>7

\* The list of the segments that a set of them is met as.
Lists(list, refs) ==
    /\ \E n \in Nat : DOMAIN list = 1 .. n
    /\ \A k \in DOMAIN list : list[k] \in refs
    /\ \A ref \in refs : \E k \in DOMAIN list : list[k] = ref
    /\ \A j, k \in DOMAIN list : j < k => Later(list[k], list[j])

\* AsMet lists a finite set of references, each before the later ones.
LEMMA AsMetLists ==
    ASSUME NEW refs \in SUBSET (Nat \X Nat), IsFiniteSet(refs)
    PROVE  Lists(AsMet(refs), refs)
<1> DEFINE R == {pq \in refs \X refs : Later(pq[2], pq[1])}
           n == Cardinality(refs)
           list == InOrder(refs, R)
<1>1. \A p, q \in refs : /\ p[1] \in Nat /\ p[2] \in Nat /\ p = <<p[1], p[2]>>
                         /\ <<p, q>> \in R <=> Later(q, p)
    OBVIOUS
<1>2. Sorts(R, refs)
    <2>1. \A p \in refs : <<p, p>> \notin R
        BY <1>1 DEF Later
    <2>2. \A p, q \in refs : p # q => <<p, q>> \in R \/ <<q, p>> \in R
        BY <1>1 DEF Later
    <2>3. \A p, q, r \in refs : <<p, q>> \in R /\ <<q, r>> \in R => <<p, r>> \in R
        BY <1>1 DEF Later
    <2>4. QED
        BY <2>1, <2>2, <2>3 DEF Sorts
<1>3. /\ list \in Bijection(1 .. n, refs)
      /\ \A k \in 1 .. n : Rank(list[k], R, refs) = k - 1
    BY <1>2, InOrderSorts
<1>4. n \in Nat /\ AsMet(refs) = list
    BY FS_CardinalityType DEF AsMet
<1> HIDE DEF list, n
<1>5. /\ DOMAIN list = 1 .. n
      /\ \A k \in 1 .. n : list[k] \in refs
      /\ \A ref \in refs : \E k \in 1 .. n : list[k] = ref
      /\ \A j, k \in 1 .. n : list[j] = list[k] => j = k
    BY <1>3 DEF Bijection, Surjection, Injection, IsInjective
<1> HIDE DEF R
<1>6. ASSUME NEW j \in 1 .. n, NEW k \in 1 .. n, j < k
      PROVE  Later(list[k], list[j])
    <2>1. list[j] \in refs /\ list[k] \in refs /\ list[j] # list[k]
        BY <1>5, <1>6
    <2>2. <<list[k], list[j]>> \in R => Rank(list[k], R, refs) < Rank(list[j], R, refs)
        BY <1>2, <2>1, RankRises
    <2>3. <<list[k], list[j]>> \notin R
        BY <1>3, <1>4, <1>6, <2>2
    <2>4. <<list[j], list[k]>> \in R
        BY <1>2, <2>1, <2>3 DEF Sorts
    <2>5. QED
        BY <1>1, <2>1, <2>4
<1>7. QED
    BY <1>4, <1>5, <1>6 DEF Lists

\* What the index says of target t, if ks are the kernels and list and cov are
\* recorded for it.
Indexed(ks, t, list, cov) ==
    /\ Lists(list, RefsTo(ks, t))
    /\ \A ref \in RefsTo(ks, t) :
          /\ cov # Nil /\ cov.from \in Nat /\ cov.to \in Nat
          /\ cov.from <= SegmentAt(ks, ref).from
          /\ SegmentAt(ks, ref).to <= cov.to

\* The hull of some segments is a span that reaches from the first of their
\* beginnings to the last of their ends.
LEMMA HullHolds ==
    ASSUME NEW segments \in SUBSET Segments,
           IsFiniteSet(segments), segments # {}
    PROVE  /\ Hull(segments) # Nil
           /\ Hull(segments).from \in Nat /\ Hull(segments).to \in Nat
           /\ \A s \in segments : /\ Hull(segments).from <= s.from
                                  /\ s.to <= Hull(segments).to
<1> DEFINE F == {s.from : s \in segments}
           T == {s.to : s \in segments}
<1>1. F \in SUBSET Epochs /\ T \in SUBSET Epochs /\ Epochs \in SUBSET Nat
    BY ProviderAssumption DEF Segments
<1>2. IsFiniteSet(F) /\ IsFiniteSet(T)
    <2>1. [s \in segments |-> s.from] \in Surjection(segments, F)
        BY DEF Surjection
    <2>2. [s \in segments |-> s.to] \in Surjection(segments, T)
        BY DEF Surjection
    <2>3. QED
        BY <2>1, <2>2, FS_Surjection
<1>3. F # {} /\ T # {}
    OBVIOUS
<1>4. \A s \in segments : s.from \in F /\ s.to \in T
    OBVIOUS
<1>5. Hull(segments) = [from |-> CHOOSE e \in F : \A s \in segments : e <= s.from,
                          to |-> CHOOSE e \in T : \A s \in segments : e >= s.to]
    BY DEF Hull
<1> DEFINE lo == CHOOSE e \in F : \A s \in segments : e <= s.from
           hi == CHOOSE e \in T : \A s \in segments : e >= s.to
<1>6. lo \in F /\ \A s \in segments : lo <= s.from
    <2>1. \E e \in F : \A f \in F : e <= f
        <3> HIDE DEF F
        <3>1. QED
            BY <1>1, <1>2, <1>3, LeastOf
    <2>2. \E e \in F : \A s \in segments : e <= s.from
        BY <1>4, <2>1
    <2>3. QED
        BY <2>2
<1>7. hi \in T /\ \A s \in segments : s.to <= hi
    <2>1. \E e \in T : \A f \in T : f <= e
        <3> HIDE DEF T
        <3>1. QED
            BY <1>1, <1>2, <1>3, GreatestOf
    <2>2. \E e \in T : \A s \in segments : e >= s.to
        <3>1. PICK e \in T : \A f \in T : f <= e
            BY <2>1
        <3>2. \A s \in segments : s.to \in T
            OBVIOUS
        <3>3. \A s \in segments : s.to <= e
            BY <3>1, <3>2
        <3>4. QED
            BY <3>1, <3>3
    <2>3. hi \in T /\ \A s \in segments : hi >= s.to
        BY <2>2
    <2>4. QED
        BY <1>1, <1>4, <2>3
<1> HIDE DEF lo, hi, F, T
<1>8. Hull(segments) = [from |-> lo, to |-> hi]
    BY <1>5 DEF lo, hi
<1>9. Hull(segments) \in [from : Epochs, to : Epochs]
    BY <1>1, <1>6, <1>7, <1>8
<1>10. Hull(segments) # Nil
    BY <1>9, ProviderAssumption
<1>11. lo \in Nat /\ hi \in Nat
    BY <1>1, <1>6, <1>7
<1>12. QED
    BY <1>6, <1>7, <1>8, <1>10, <1>11

\* rebuildIndexLocked leaves the index of the kernels it is given.
LEMMA Rebuilds ==
    ASSUME NEW ks, Names(ks), Reindexed(ks)
    PROVE  /\ kernels' = ks
           /\ \A t \in Targets : Indexed(ks, t, byTarget'[t], coverage'[t])
<1>1. kernels' = ks
    BY DEF Reindexed
<1>2. ASSUME NEW t \in Targets
      PROVE  Indexed(ks, t, byTarget'[t], coverage'[t])
    <2> DEFINE refs == RefsTo(ks, t)
               held == {SegmentAt(ks, ref) : ref \in refs}
    <2>1. refs \in SUBSET Refs(ks)
        BY DEF RefsTo
    <2>2. refs \in SUBSET (Nat \X Nat) /\ IsFiniteSet(refs) /\ held \in SUBSET Segments
        BY <2>1, RefsAre, FS_Subset
    <2>3. byTarget'[t] = AsMet(refs) /\ coverage'[t] = IF held = {} THEN Nil ELSE Hull(held)
        BY DEF Reindexed
    <2>4. IsFiniteSet(held)
        <3>1. [ref \in refs |-> SegmentAt(ks, ref)] \in Surjection(refs, held)
            BY DEF Surjection
        <3>2. QED
            BY <2>2, <3>1, FS_Surjection
    <2>5. Lists(byTarget'[t], refs)
        <3> HIDE DEF refs
        <3>1. QED
            BY <2>2, <2>3, AsMetLists
    <2>6. ASSUME NEW ref \in refs
          PROVE  /\ coverage'[t] # Nil
                 /\ coverage'[t].from \in Nat /\ coverage'[t].to \in Nat
                 /\ coverage'[t].from <= SegmentAt(ks, ref).from
                 /\ SegmentAt(ks, ref).to <= coverage'[t].to
        <3>1. SegmentAt(ks, ref) \in held
            OBVIOUS
        <3> HIDE DEF held
        <3>2. coverage'[t] = Hull(held) /\ held # {}
            BY <2>3, <3>1
        <3>3. QED
            BY <2>2, <2>4, <3>1, <3>2, HullHolds
    <2>7. QED
        BY <2>5, <2>6 DEF Indexed
<1>3. QED
    BY <1>1, <1>2

\* References mean what they meant as long as the kernels in place are the same.
LEMMA RefsStay ==
    ASSUME NEW ks, kernels' = ks,
           \A i \in DOMAIN ks : key'[ks[i]] = key[ks[i]],
           NEW t
    PROVE  /\ RefsTo(kernels, t)' = RefsTo(ks, t)
           /\ \A ref \in RefsTo(ks, t) :
                 SegmentAt(kernels, ref)' = SegmentAt(ks, ref)
<1>1. Refs(kernels)' = Refs(ks)
    BY DEF Refs
<1>2. \A ref \in Refs(ks) : ref[1] \in DOMAIN ks
    BY DEF Refs
<1>3. \A ref \in Refs(ks) : SegmentAt(kernels, ref)' = SegmentAt(ks, ref)
    BY <1>2 DEF SegmentAt
<1>4. QED
    BY <1>1, <1>3 DEF RefsTo

IndexInv == phase = "up" => \A t \in Targets :
                               Indexed(kernels, t, byTarget[t], coverage[t])

\* The index is right if it is right for what the kernels are after the step;
\* and stays so while they and what they read do.
LEMMA IndexNow ==
    ASSUME NEW ks, kernels' = ks,
           \A i \in DOMAIN ks : key'[ks[i]] = key[ks[i]],
           \A t \in Targets : Indexed(ks, t, byTarget'[t], coverage'[t])
    PROVE  IndexInv'
<1>1. ASSUME NEW t \in Targets
      PROVE  Indexed(kernels, t, byTarget[t], coverage[t])'
    <2>1. Indexed(ks, t, byTarget'[t], coverage'[t])
        OBVIOUS
    <2>2. /\ RefsTo(kernels, t)' = RefsTo(ks, t)
          /\ \A ref \in RefsTo(ks, t) :
                SegmentAt(kernels, ref)' = SegmentAt(ks, ref)
        BY RefsStay
    <2>3. QED
        BY <2>1, <2>2 DEF Indexed, Lists, Later
<1>2. QED
    BY <1>1 DEF IndexInv

LEMMA IndexStays ==
    ASSUME IndexInv, UNCHANGED <<phase, kernels, byTarget, coverage>>,
           \A i \in DOMAIN kernels : key'[kernels[i]] = key[kernels[i]]
    PROVE  IndexInv'
<1>1. PICK ks : ks = kernels
    OBVIOUS
<1>2. CASE phase = "up"
    <2>1. \A t \in Targets : Indexed(ks, t, byTarget'[t], coverage'[t])
        BY <1>1, <1>2 DEF IndexInv
    <2>2. QED
        BY <1>1, <2>1, IndexNow
<1>3. CASE phase # "up"
    BY <1>3 DEF IndexInv
<1>4. QED
    BY <1>2, <1>3

\* With the index right, the last match is found: no later reference is a hit,
\* and none is shut out by the hull.
LEMMA FindsLast ==
    ASSUME Names(kernels), NEW t \in Targets, NEW e \in Epochs,
           Indexed(kernels, t, byTarget[t], coverage[t])
    PROVE  IF Covering(t, e) = {} THEN FindSegment(t, e) = Nil
           ELSE /\ FindSegment(t, e) \in Covering(t, e)
                /\ \A ref \in Covering(t, e) : ~Later(ref, FindSegment(t, e))
<1> DEFINE refs == RefsTo(kernels, t)
           list == byTarget[t]
           Seg(ref) == SegmentAt(kernels, ref)
           covers(ref) == Inside(Seg(ref), e)
           hits == {n \in DOMAIN list : covers(list[n])}
<1>1. /\ Lists(list, refs)
      /\ \A ref \in refs : /\ coverage[t] # Nil
                           /\ coverage[t].from \in Nat /\ coverage[t].to \in Nat
                           /\ coverage[t].from <= Seg(ref).from
                           /\ Seg(ref).to <= coverage[t].to
    BY DEF Indexed
<1>2. Covering(t, e) = {ref \in refs : covers(ref)}
    BY DEF Covering
<1>3. FindSegment(t, e) =
          IF coverage[t] = Nil \/ ~Inside(coverage[t], e) \/ hits = {} THEN Nil
          ELSE list[CHOOSE n \in hits : \A m \in hits : m <= n]
    BY DEF FindSegment
<1>4. PICK N \in Nat : DOMAIN list = 1 .. N
    BY <1>1 DEF Lists
<1>5. /\ e \in Nat
      /\ \A ref \in refs : /\ ref \in Nat \X Nat
                           /\ Seg(ref).from \in Nat /\ Seg(ref).to \in Nat
    <2>1. \A ref \in refs : ref \in Refs(kernels)
        BY DEF RefsTo
    <2>2. Epochs \subseteq Nat
        BY ProviderAssumption
    <2>3. \A ref \in refs : ref \in Nat \X Nat /\ Seg(ref) \in Segments
        BY <2>1, RefsAre
    <2>4. QED
        BY <2>2, <2>3 DEF Segments
<1>6. \A ref \in refs : covers(ref) => Inside(coverage[t], e)
    BY <1>1, <1>5 DEF Inside
<1> HIDE DEF refs, Seg, covers
<1>7. \A k \in DOMAIN list : list[k] \in refs
    BY <1>1 DEF Lists
<1>8. \A ref \in refs : \E k \in DOMAIN list : list[k] = ref
    BY <1>1 DEF Lists
<1>9. CASE Covering(t, e) = {}
    <2>1. hits = {}
        BY <1>2, <1>7, <1>9
    <2>2. QED
        BY <1>3, <1>9, <2>1
<1>10. CASE Covering(t, e) # {}
    <2>1. PICK ref \in refs : covers(ref)
        BY <1>2, <1>10
    <2>2. hits # {} /\ coverage[t] # Nil /\ Inside(coverage[t], e)
        BY <1>1, <1>6, <1>8, <2>1
    <2>3. hits \in SUBSET Nat /\ IsFiniteSet(hits)
        <3>1. IsFiniteSet(1 .. N) /\ hits \in SUBSET (1 .. N)
            BY <1>4, FiniteTo
        <3>2. QED
            BY <1>4, <3>1, FS_Subset
    <2> DEFINE n == CHOOSE n \in hits : \A m \in hits : m <= n
    <2>4. n \in hits /\ \A m \in hits : m <= n
        <3> HIDE DEF hits
        <3>1. \E k \in hits : \A m \in hits : m <= k
            BY <2>2, <2>3, GreatestOf
        <3>2. QED
            BY <3>1
    <2>5. FindSegment(t, e) = list[n]
        BY <1>3, <2>2
    <2> HIDE DEF n
    <2>6. list[n] \in refs /\ covers(list[n])
        BY <1>7, <2>4
    <2>7. ASSUME NEW r \in refs, covers(r), Later(r, list[n])
          PROVE  FALSE
        <3>1. PICK m \in DOMAIN list : list[m] = r
            BY <1>8
        <3>2. m \in hits /\ m <= n /\ m \in Nat /\ n \in Nat
            BY <1>4, <2>3, <2>4, <2>7, <3>1
        <3>3. m < n => Later(list[n], r)
            BY <1>1, <2>4, <3>1, <3>2 DEF Lists
        <3>4. r \in Nat \X Nat /\ list[n] \in Nat \X Nat
            BY <1>5, <2>6
        <3>5. QED
            BY <2>7, <3>1, <3>2, <3>3, <3>4 DEF Later
    <2>8. QED
        BY <1>2, <1>10, <2>5, <2>6, <2>7
<1>11. QED
    BY <1>9, <1>10

---------------------------------------------------------------------------
(* Who has a reader.                                                       *)

Asking == [at : {"idle"}, op : {Nil}, ref : {Nil}, reader : {Nil}]
Querying == [at : {"evaluate"}, op : {Nil}, ref : Nat \X Nat, reader : Readers]
Adding == [at : {"lock"}, op : {"AddKernelFrom", "AddKernel"}, ref : {Nil},
           reader : Readers]

\* What a call has in hand depends on where it is.
LoadedTypes ==
    /\ phase \in {"absent", "making", "up"} /\ kernels \in Seq(Readers)
    /\ key \in [Readers -> Keys \union {Nil}] /\ open \subseteq Readers
    /\ call \in [Callers -> Asking \union Querying \union Adding]

\* Nobody uses a provider that is not up.
UnusedInv == phase # "up" => \A c \in Callers : call[c] \in Asking

\* A reader is one kernel's of the list, one call's to add or one caller's to
\* close, and no two of these.
OwnersInv ==
    /\ \A i, j \in 1 .. Len(kernels) : kernels[i] = kernels[j] => i = j
    /\ \A c \in Callers : call[c] \in Adding =>
          /\ call[c].reader \notin Listed \union lent
          /\ \A d \in Callers :
                call[d] \in Adding /\ call[d].reader = call[c].reader => c = d
    /\ lent \cap Listed = {}

\* A reader to be added is open, and one listed is or has been closed in place;
\* records are kept of open readers only.
OpenInv ==
    /\ \A c \in Callers : call[c] \in Adding => call[c].reader \in open
    /\ Listed \subseteq open \union dead
    /\ \A m \in records : m[1] \in open

\* A query holds the kernel it found where it found it.
HeldInv ==
    \A c \in Callers : call[c] \in Querying =>
        /\ call[c].ref[1] \in 1 .. Len(kernels)
        /\ kernels[call[c].ref[1]] = call[c].reader

\* A reader listed or to be added is of a kernel.
KeysInv ==
    /\ \A i \in 1 .. Len(kernels) : key[kernels[i]] \in Keys
    /\ \A c \in Callers : call[c] \in Adding => key[call[c].reader] \in Keys

Loaded == /\ LoadedTypes /\ UnusedInv /\ OwnersInv /\ OpenInv /\ HeldInv /\ KeysInv
          /\ IndexInv /\ NothingLeaks

LEMMA Listing ==
    ASSUME LoadedTypes
    PROVE  /\ Len(kernels) \in Nat /\ DOMAIN kernels = 1 .. Len(kernels)
           /\ \A i \in 1 .. Len(kernels) : kernels[i] \in Readers /\ kernels[i] \in Listed
           /\ \A r \in Listed : \E i \in 1 .. Len(kernels) : kernels[i] = r
BY LenProperties DEF LoadedTypes, Listed

\* Where a call is says what it has in hand.
LEMMA Kinds ==
    ASSUME LoadedTypes, NEW c \in Callers
    PROVE  /\ call[c] \in Asking <=> CallAt(c, "idle")
           /\ call[c] \in Querying <=> CallAt(c, "evaluate")
           /\ call[c] \in Adding <=> CallAt(c, "lock")
           /\ call[c] \in Asking => call[c].reader = Nil
BY DEF LoadedTypes, Asking, Querying, Adding, CallAt

\* What a return changes.
LEMMA Returns ==
    ASSUME LoadedTypes, NEW c \in Callers, CallEnds(c)
    PROVE  /\ call' \in [Callers -> Asking \union Querying \union Adding]
           /\ call'[c] \in Asking /\ call'[c] \notin Querying \union Adding
           /\ \A d \in Callers : d # c => call'[d] = call[d]
BY DEF LoadedTypes, CallEnds, NoCall, Asking, Querying, Adding

LEMMA OpenIsReader ==
    ASSUME LoadedTypes
    PROVE  Nil \notin open
<1>1. MaxReaders \in Nat /\ Nil \notin Nat
    BY ProviderAssumption
<1>2. Readers \subseteq Nat
    BY <1>1 DEF Readers
<1>3. QED
    BY <1>1, <1>2 DEF LoadedTypes

LEMMA InitLoaded == ProviderInit => Loaded
<1> SUFFICES ASSUME ProviderInit
             PROVE  Loaded
    OBVIOUS
<1>1. \A c \in Callers : /\ call[c] \in Asking
                         /\ call[c] \notin Querying /\ call[c] \notin Adding
    BY DEF ProviderInit, NoCall, Asking, Querying, Adding
<1>2. kernels = <<>> /\ Len(kernels) = 0 /\ Listed = {}
    BY DEF ProviderInit, Listed
<1>3. LoadedTypes
    <2>1. call \in [Callers -> Asking]
        BY DEF ProviderInit, NoCall, Asking
    <2> QED
        BY <1>2, <2>1 DEF ProviderInit, LoadedTypes
<1>4. UnusedInv /\ HeldInv /\ NothingLeaks
    BY <1>1 DEF ProviderInit, UnusedInv, HeldInv, NothingLeaks
<1>5. OwnersInv /\ OpenInv
    BY <1>1, <1>2 DEF ProviderInit, OwnersInv, OpenInv
<1>6. KeysInv /\ IndexInv
    BY <1>1, <1>2 DEF ProviderInit, KeysInv, IndexInv
<1> QED
    BY <1>3, <1>4, <1>5, <1>6 DEF Loaded

LEMMA QueryEnds ==
    ASSUME Loaded, NEW c \in Callers,
           EvaluateCached(c) \/ Evaluate(c) \/ EvaluateFails(c)
    PROVE  Loaded'
<1> USE DEF Loaded
<1>1. /\ CallEnds(c) /\ call[c] \in Querying
      /\ UNCHANGED <<maker, phase, kernels, byTarget, coverage, key, open, lent, dead>>
      /\ \A m \in records' : m \in records \/ (m = Record(c) /\ call[c].reader \in open)
    BY Kinds DEF EvaluateCached, Evaluate, EvaluateFails, index, readerFiles, own
<1>2. /\ call' \in [Callers -> Asking \union Querying \union Adding]
      /\ call'[c] \in Asking /\ call'[c] \notin Querying \union Adding
      /\ \A d \in Callers : d # c => call'[d] = call[d]
    BY <1>1, Returns
<1>3. Listed' = Listed
    BY <1>1 DEF Listed
<1>4. LoadedTypes'
    BY <1>1, <1>2 DEF LoadedTypes
<1>5. UnusedInv' /\ OwnersInv' /\ HeldInv' /\ KeysInv'
    BY <1>1, <1>2, <1>3 DEF UnusedInv, OwnersInv, HeldInv, KeysInv
<1>6. OpenInv'
    BY <1>1, <1>2, <1>3 DEF OpenInv, Record
<1>7. IndexInv'
    BY <1>1, IndexStays
<1>8. NothingLeaks'
    <2>1. call[c].reader \in Listed
        BY <1>1, Listing DEF HeldInv
    <2>2. QED
        BY <1>1, <1>2, <1>3, <2>1 DEF NothingLeaks, InHand
<1>9. QED
    BY <1>4, <1>5, <1>6, <1>7, <1>8

\* The kernels listed are known kernels.
LEMMA NamesNow ==
    ASSUME Loaded
    PROVE  Names(kernels)
BY DEF Loaded, LoadedTypes, KeysInv, Names

LEMMA LocateLoaded ==
    ASSUME Loaded, NEW c \in Callers, NEW t \in Targets,
           NEW e \in Epochs, Locate(c, t, e)
    PROVE  Loaded'
<1> USE DEF Loaded
<1> DEFINE ref == FindSegment(t, e)
<1>1. /\ phase = "up" /\ call[c] \in Asking /\ ref # Nil
      /\ call' = [call EXCEPT ![c] = [NoCall EXCEPT !.at = "evaluate", !.ref = ref,
                                                    !.reader = kernels[ref[1]]]]
      /\ UNCHANGED <<maker, phase, kernels, byTarget, coverage, key, open, records, lent, dead>>
    BY Kinds DEF Locate, index, readerFiles, own
<1>2. ref \in Nat \X Nat /\ ref[1] \in 1 .. Len(kernels)
    <2>1. Indexed(kernels, t, byTarget[t], coverage[t]) /\ Names(kernels)
        BY <1>1, NamesNow DEF IndexInv
    <2>2. ref \in Covering(t, e)
        BY <1>1, <2>1, FindsLast
    <2>3. ref \in Refs(kernels)
        BY <2>2 DEF Covering, RefsTo
    <2>4. QED
        BY <2>1, <2>3, RefsAre
<1> HIDE DEF ref
<1>3. kernels[ref[1]] \in Readers /\ kernels[ref[1]] \in Listed
    BY <1>2, Listing
<1>4. /\ call'[c] \in Querying /\ call'[c] \notin Asking \union Adding
      /\ call'[c].ref = ref /\ call'[c].reader = kernels[ref[1]]
      /\ call' \in [Callers -> Asking \union Querying \union Adding]
      /\ \A d \in Callers : d # c => call'[d] = call[d]
    BY <1>1, <1>2, <1>3 DEF LoadedTypes, NoCall, Asking, Querying, Adding
<1>5. Listed' = Listed
    BY <1>1 DEF Listed
<1>6. LoadedTypes' /\ UnusedInv' /\ OwnersInv' /\ OpenInv' /\ KeysInv'
    BY <1>1, <1>4, <1>5 DEF LoadedTypes, UnusedInv, OwnersInv, OpenInv, KeysInv
<1>7. HeldInv'
    BY <1>1, <1>2, <1>4 DEF HeldInv
<1>8. IndexInv'
    BY <1>1, IndexStays
<1>9. NothingLeaks'
    <2>1. call[c].reader = Nil
        BY <1>1, Kinds
    <2>2. \A x \in open : x # Nil /\ x \in Listed \union InHand =>
                          x \in (Listed \union InHand)'
        BY <1>1, <1>4, <1>5, <2>1 DEF InHand
    <2>3. Nil \notin open
        BY OpenIsReader
    <2>4. QED
        BY <1>1, <2>2, <2>3 DEF NothingLeaks
<1>10. QED
    BY <1>6, <1>7, <1>8, <1>9

LEMMA AskAddLoaded ==
    ASSUME Loaded, NEW c \in Callers, NEW k \in Keys, AskAdd(c, k)
    PROVE  Loaded'
<1> USE DEF Loaded
<1>1. PICK r \in Free, op \in {"AddKernelFrom", "AddKernel"} :
         /\ OpenReader(r, k)
         /\ call' = [call EXCEPT ![c] = [NoCall EXCEPT !.at = "lock", !.op = op, !.reader = r]]
    BY DEF AskAdd
<1>2. /\ phase = "up" /\ call[c] \in Asking
      /\ UNCHANGED <<maker, phase, kernels, byTarget, coverage, records, lent, dead>>
    BY <1>1, Kinds DEF AskAdd, index, own, OpenReader
<1>3. /\ key' = [key EXCEPT ![r] = k] /\ open' = open \union {r}
      /\ r \in Readers /\ r \notin open /\ r \notin Listed /\ r \notin lent
      /\ \A d \in Callers : call[d].reader # r
    BY <1>1 DEF OpenReader, Free, InHand
<1>4. /\ call'[c] \in Adding /\ call'[c] \notin Asking \union Querying
      /\ call'[c].reader = r
      /\ call' \in [Callers -> Asking \union Querying \union Adding]
      /\ \A d \in Callers : d # c => call'[d] = call[d]
    BY <1>1, <1>3 DEF LoadedTypes, NoCall, Asking, Querying, Adding
<1>5. /\ Listed' = Listed
      /\ \A i \in 1 .. Len(kernels) : kernels[i] \in Readers /\ kernels[i] # r
    BY <1>2, <1>3, Listing DEF Listed
<1>6. LoadedTypes'
    BY <1>2, <1>3, <1>4 DEF LoadedTypes
<1>7. UnusedInv' /\ HeldInv'
    BY <1>2, <1>4 DEF UnusedInv, HeldInv
<1>8. OwnersInv' /\ OpenInv'
    <2>1. OpenInv'
        BY <1>2, <1>3, <1>4, <1>5 DEF OpenInv
    <2>2. \A d \in Callers : call'[d] \in Adding =>
             \/ d = c
             \/ d # c /\ call[d] \in Adding /\ call'[d].reader = call[d].reader
        BY <1>4
    <2>3. OwnersInv'
        BY <1>2, <1>3, <1>4, <1>5, <2>2 DEF OwnersInv
    <2>4. QED
        BY <2>1, <2>3
<1>9. KeysInv'
    <2>1. \A q \in Readers : key'[q] = IF q = r THEN k ELSE key[q]
        BY <1>3 DEF LoadedTypes
    <2>2. \A d \in Callers : call[d] \in Adding => call[d].reader \in Readers
        BY DEF Adding
    <2>3. QED
        BY <1>2, <1>3, <1>4, <1>5, <2>1, <2>2 DEF KeysInv
<1>10. IndexInv'
    <2>1. \A i \in DOMAIN kernels : key'[kernels[i]] = key[kernels[i]]
        BY <1>3, <1>5, Listing DEF LoadedTypes
    <2>2. QED
        BY <1>2, <2>1, IndexStays
<1>11. NothingLeaks'
    <2>1. call[c].reader = Nil
        BY <1>2, Kinds
    <2>2. \A x \in open : x \in Listed \union InHand =>
                          x \in (Listed \union InHand)'
        BY <1>2, <1>4, <1>5, <2>1, OpenIsReader DEF InHand
    <2>3. r \in InHand'
        BY <1>4 DEF InHand
    <2>4. QED
        BY <1>2, <1>3, <2>2, <2>3 DEF NothingLeaks
<1>12. QED
    BY <1>6, <1>7, <1>8, <1>9, <1>10, <1>11

\* With a writer at work no query is under way.
LEMMA NoQuery ==
    ASSUME LoadedTypes, ~Reading
    PROVE  \A c \in Callers : call[c] \notin Querying
BY Kinds DEF Reading

LEMMA AddLoaded ==
    ASSUME Loaded, NEW c \in Callers, Add(c)
    PROVE  Loaded'
<1> USE DEF Loaded
<1> DEFINE r == call[c].reader
           n == Len(kernels)
<1>1. /\ CallEnds(c) /\ call[c] \in Adding /\ ~Reading
      /\ UNCHANGED <<maker, phase, key, open, records, lent, dead>>
    BY Kinds DEF Add, readerFiles, own
<1>2. PICK ks : ks = Append(kernels, r)
    OBVIOUS
<1>3. /\ r \in Readers /\ r \in open /\ r \notin Listed /\ r \notin lent
      /\ key[r] \in Keys
      /\ \A d \in Callers : call[d] \in Adding /\ d # c => call[d].reader # r
    BY <1>1 DEF OwnersInv, OpenInv, KeysInv, Adding
<1>4. /\ n \in Nat /\ Len(ks) = n + 1 /\ ks \in Seq(Readers)
      /\ \A i \in 1 .. n : ks[i] = kernels[i]
      /\ ks[n + 1] = r
      /\ DOMAIN ks = 1 .. n + 1
    BY <1>2, <1>3, AppendProperties, LenProperties DEF LoadedTypes
<1>5. Names(ks)
    BY <1>3, <1>4 DEF KeysInv, Names
<1>6. Reindexed(ks)
    BY <1>2 DEF Add
<1>7. kernels' = ks /\ \A t \in Targets : Indexed(ks, t, byTarget'[t], coverage'[t])
    BY <1>5, <1>6, Rebuilds
<1>8. /\ call' \in [Callers -> Asking \union Querying \union Adding]
      /\ call'[c] \in Asking /\ call'[c] \notin Querying \union Adding
      /\ \A d \in Callers : d # c => call'[d] = call[d]
    BY <1>1, Returns
<1>9. Listed' = Listed \union {r}
    <2>1. Listed' = {ks[i] : i \in 1 .. n + 1}
        BY <1>4, <1>7 DEF Listed
    <2>2. Listed = {kernels[i] : i \in 1 .. n}
        BY Listing DEF Listed
    <2>3. \A i \in 1 .. n + 1 : i \in 1 .. n \/ i = n + 1
        BY <1>4
    <2>4. \A i \in 1 .. n : i \in 1 .. n + 1
        BY <1>4
    <2>5. n + 1 \in 1 .. n + 1
        BY <1>4
    <2>6. QED
        BY <1>4, <2>1, <2>2, <2>3, <2>4, <2>5
<1> HIDE DEF r, n
<1>10. LoadedTypes'
    BY <1>1, <1>4, <1>7, <1>8 DEF LoadedTypes
<1>11. UnusedInv'
    BY <1>1, <1>8 DEF UnusedInv
<1>12. HeldInv'
    BY <1>1, <1>8, NoQuery DEF HeldInv
<1>13. OwnersInv'
    <2>1. \A i \in 1 .. n : kernels[i] # r
        BY <1>3, Listing DEF n
    <2>2. \A i, j \in 1 .. n + 1 : ks[i] = ks[j] => i = j
        BY <1>4, <2>1 DEF OwnersInv, n
    <2>3. QED
        BY <1>1, <1>3, <1>4, <1>7, <1>8, <1>9, <2>2 DEF OwnersInv
<1>14. OpenInv'
    BY <1>1, <1>3, <1>8, <1>9 DEF OpenInv
<1>15. KeysInv'
    BY <1>1, <1>5, <1>7, <1>8 DEF KeysInv, Names
<1>16. IndexInv'
    BY <1>1, <1>7, IndexNow
<1>17. NothingLeaks'
    BY <1>1, <1>8, <1>9 DEF NothingLeaks, InHand, r
<1>18. QED
    BY <1>10, <1>11, <1>12, <1>13, <1>14, <1>15, <1>16, <1>17

\* What closing the readers rs leaves of the others.
LEMMA Closes ==
    ASSUME LoadedTypes, NEW rs, CloseReaders(rs)
    PROVE  /\ open' = open \ rs /\ dead' = dead \ rs
           /\ \A m \in records' : m \in records /\ m[1] \notin rs
           /\ key' \in [Readers -> Keys \union {Nil}]
           /\ \A q \in Readers : q \notin rs => key'[q] = key[q]
BY DEF LoadedTypes, CloseReaders, CloseFiles

\* A caller closes what was left to it: no listed kernel and no call has those
\* readers.
LEMMA CloseLentLoaded ==
    ASSUME Loaded, CloseLent
    PROVE  Loaded'
<1> USE DEF Loaded
<1>1. /\ CloseReaders(lent) /\ lent' = {}
      /\ UNCHANGED <<maker, phase, kernels, byTarget, coverage, call>>
    BY DEF CloseLent, index
<1>2. PICK rs : rs = lent
    OBVIOUS
<1>3. /\ open' = open \ rs /\ dead' = dead \ rs
      /\ \A m \in records' : m \in records /\ m[1] \notin rs
      /\ key' \in [Readers -> Keys \union {Nil}]
      /\ \A q \in Readers : q \notin rs => key'[q] = key[q]
    BY <1>1, <1>2, Closes
<1>4. Listed' = Listed
    BY <1>1 DEF Listed
<1>5. rs \cap Listed = {} /\ \A c \in Callers : call[c] \in Adding => call[c].reader \notin rs
    BY <1>2 DEF OwnersInv
<1>6. /\ \A i \in 1 .. Len(kernels) : key'[kernels[i]] = key[kernels[i]]
      /\ \A c \in Callers : call[c] \in Adding => key'[call[c].reader] = key[call[c].reader]
    BY <1>3, <1>5, Listing DEF Adding
<1>7. LoadedTypes' /\ UnusedInv' /\ HeldInv'
    BY <1>1, <1>3 DEF LoadedTypes, UnusedInv, HeldInv
<1>8. OwnersInv'
    BY <1>1, <1>4 DEF OwnersInv
<1>9. OpenInv'
    BY <1>1, <1>3, <1>4, <1>5 DEF OpenInv
<1>10. KeysInv'
    BY <1>1, <1>6 DEF KeysInv
<1>11. IndexInv'
    BY <1>1, <1>6, Listing, IndexStays
<1>12. NothingLeaks'
    BY <1>1, <1>2, <1>3, <1>4 DEF NothingLeaks, InHand
<1>13. QED
    BY <1>7, <1>8, <1>9, <1>10, <1>11, <1>12

LEMMA AddRefusedLoaded ==
    ASSUME Loaded, NEW c \in Callers, AddRefused(c)
    PROVE  Loaded'
<1> USE DEF Loaded
<1>1. PICK r : r = call[c].reader
    OBVIOUS
<1>2. /\ CallEnds(c) /\ call[c] \in Adding
      /\ UNCHANGED <<maker, phase, kernels, byTarget, coverage>>
    BY Kinds DEF AddRefused, index
<1>3. /\ r \in Readers /\ r \notin Listed /\ r \notin lent
      /\ \A d \in Callers : call[d] \in Adding /\ d # c => call[d].reader # r
    BY <1>1, <1>2 DEF OwnersInv, Adding
<1>4. /\ call' \in [Callers -> Asking \union Querying \union Adding]
      /\ call'[c] \in Asking /\ call'[c] \notin Querying \union Adding
      /\ \A d \in Callers : d # c => call'[d] = call[d]
    BY <1>2, Returns
<1>5. Listed' = Listed
    BY <1>2 DEF Listed
<1>6. \/ /\ lent' = lent \union {r} /\ UNCHANGED <<key, open, records, dead>>
      \/ /\ CloseReaders({r}) /\ UNCHANGED lent
    BY <1>1 DEF AddRefused, Lend, readerFiles
<1>7. \/ /\ lent' = lent \union {r} /\ open' = open
      \/ /\ lent' = lent /\ open' = open \ {r}
    BY <1>6, Closes
<1>8. /\ dead \ {r} \subseteq dead'
      /\ \A m \in records' : m \in records /\ m[1] \in open => m[1] \in open'
      /\ \A m \in records' : m \in records
      /\ key' \in [Readers -> Keys \union {Nil}]
      /\ \A q \in Readers : q # r => key'[q] = key[q]
    BY <1>6, Closes DEF LoadedTypes
<1>9. /\ \A i \in 1 .. Len(kernels) : key'[kernels[i]] = key[kernels[i]]
      /\ \A d \in Callers : call[d] \in Adding /\ d # c =>
            key'[call[d].reader] = key[call[d].reader]
    BY <1>3, <1>8, Listing DEF Adding
<1>10. LoadedTypes'
    BY <1>2, <1>4, <1>7, <1>8 DEF LoadedTypes
<1>11. UnusedInv' /\ HeldInv'
    BY <1>2, <1>4 DEF UnusedInv, HeldInv
<1>12. OwnersInv'
    BY <1>2, <1>3, <1>4, <1>5, <1>7 DEF OwnersInv
<1>13. OpenInv'
    BY <1>2, <1>3, <1>4, <1>5, <1>7, <1>8 DEF OpenInv
<1>14. KeysInv'
    BY <1>2, <1>4, <1>9 DEF KeysInv
<1>15. IndexInv'
    BY <1>2, <1>9, Listing, IndexStays
<1>16. NothingLeaks'
    BY <1>1, <1>2, <1>4, <1>5, <1>7 DEF NothingLeaks, InHand
<1>17. QED
    BY <1>10, <1>11, <1>12, <1>13, <1>14, <1>15, <1>16

\* Closed in place: the readers rs are dead, and nothing else has changed.
LEMMA ClosedInPlace ==
    ASSUME Loaded, NEW rs, rs \subseteq Listed, CloseListed(rs),
           ~Reading, UNCHANGED <<maker, phase, kernels, byTarget, coverage, call, lent>>
    PROVE  Loaded'
<1> USE DEF Loaded
<1>1. /\ open' = open \ rs /\ dead' = dead \union rs /\ key' = key
      /\ \A m \in records' : m \in records /\ m[1] \notin rs
    BY DEF CloseListed, CloseFiles
<1>2. Listed' = Listed
    BY DEF Listed
<1>3. LoadedTypes' /\ UnusedInv' /\ HeldInv' /\ KeysInv' /\ OwnersInv'
    BY <1>1, <1>2 DEF LoadedTypes, UnusedInv, HeldInv, KeysInv, OwnersInv
<1>4. OpenInv'
    BY <1>1, <1>2 DEF OpenInv, OwnersInv
<1>5. IndexInv'
    BY <1>1, IndexStays
<1>6. NothingLeaks'
    BY <1>1, <1>2 DEF NothingLeaks, InHand
<1>7. QED
    BY <1>3, <1>4, <1>5, <1>6

\* Unloaded: the readers rs are closed, and ks lists the others.
LEMMA Unloads ==
    ASSUME Loaded, ~Reading, phase = "up",
           NEW rs, rs \subseteq Listed, NEW ks \in Seq(Readers),
           \A i \in 1 .. Len(ks) : ks[i] \in Listed /\ ks[i] \notin rs,
           \A r \in Listed : r \notin rs => \E i \in 1 .. Len(ks) : ks[i] = r,
           \A i, j \in 1 .. Len(ks) : ks[i] = ks[j] => i = j,
           CloseReaders(rs), Reindexed(ks), UNCHANGED <<maker, phase, call, lent>>
    PROVE  Loaded'
<1> USE DEF Loaded
<1>1. /\ open' = open \ rs /\ dead' = dead \ rs
      /\ \A m \in records' : m \in records /\ m[1] \notin rs
      /\ key' \in [Readers -> Keys \union {Nil}]
      /\ \A q \in Readers : q \notin rs => key'[q] = key[q]
    BY Closes
<1>2. Len(ks) \in Nat /\ DOMAIN ks = 1 .. Len(ks)
    BY LenProperties
<1>3. Names(ks)
    BY Listing DEF KeysInv, Names
<1>4. kernels' = ks /\ \A t \in Targets : Indexed(ks, t, byTarget'[t], coverage'[t])
    BY <1>3, Rebuilds
<1>5. \A i \in 1 .. Len(ks) : ks[i] \in Readers /\ key'[ks[i]] = key[ks[i]]
    BY <1>1, Listing
<1>6. Listed' = Listed \ rs
    BY <1>2, <1>4 DEF Listed
<1>7. \A c \in Callers : call[c] \notin Querying
    BY NoQuery
<1>8. \A c \in Callers : call[c] \in Adding =>
          /\ call[c].reader \notin rs
          /\ key'[call[c].reader] = key[call[c].reader]
    BY <1>1 DEF OwnersInv, Adding
<1>9. LoadedTypes' /\ UnusedInv' /\ HeldInv'
    BY <1>1, <1>4, <1>7 DEF LoadedTypes, UnusedInv, HeldInv
<1>10. OwnersInv'
    BY <1>4, <1>6 DEF OwnersInv
<1>11. OpenInv'
    BY <1>1, <1>6, <1>8 DEF OpenInv
<1>12. KeysInv'
    BY <1>3, <1>4, <1>5, <1>8 DEF KeysInv, Names
<1>13. IndexInv'
    BY <1>2, <1>4, <1>5, IndexNow
<1>14. NothingLeaks'
    BY <1>1, <1>6 DEF NothingLeaks, InHand
<1>15. QED
    BY <1>9, <1>10, <1>11, <1>12, <1>13, <1>14

LEMMA RemoveAtIs ==
    ASSUME NEW S, NEW s \in Seq(S), NEW i \in 1 .. Len(s)
    PROVE  /\ RemoveAt(s, i) \in Seq(S)
           /\ Len(RemoveAt(s, i)) = Len(s) - 1
           /\ \A m \in 1 .. Len(s) - 1 :
                 RemoveAt(s, i)[m] = IF m < i THEN s[m] ELSE s[m + 1]
<1> DEFINE n == Len(s)
           a == SubSeq(s, 1, i - 1)
           b == SubSeq(s, i + 1, n)
<1>1. n \in Nat
    BY LenProperties
<1>2. /\ a \in Seq(S) /\ Len(a) = i - 1
      /\ \A m \in 1 .. i - 1 : a[m] = s[m]
    <2>1. \A m \in 1 .. i - 1 : m \in 1 .. n
        BY <1>1
    <2>2. QED
        BY <1>1, <2>1, SubSeqProperties
<1>3. /\ b \in Seq(S) /\ Len(b) = n - i
      /\ \A m \in 1 .. n - i : b[m] = s[i + m]
    <2>1. \A m \in i + 1 .. n : m \in 1 .. n
        BY <1>1
    <2>2. QED
        BY <1>1, <2>1, SubSeqProperties
<1>4. RemoveAt(s, i) = a \o b
    BY DEF RemoveAt
<1> HIDE DEF a, b, n
<1>5. /\ a \o b \in Seq(S) /\ Len(a \o b) = n - 1
      /\ \A m \in 1 .. n - 1 : (a \o b)[m] = IF m <= i - 1 THEN a[m] ELSE b[m - (i - 1)]
    <2>1. /\ a \o b \in Seq(S) /\ Len(a \o b) = Len(a) + Len(b)
          /\ \A m \in 1 .. Len(a) + Len(b) :
                (a \o b)[m] = IF m <= Len(a) THEN a[m] ELSE b[m - Len(a)]
        BY <1>2, <1>3, ConcatProperties
    <2>2. i \in 1 .. n
        BY DEF n
    <2>3. Len(a) = i - 1 /\ Len(a) + Len(b) = n - 1
        BY <1>1, <1>2, <1>3, <2>2
    <2>4. QED
        BY <2>1, <2>3
<1>6. ASSUME NEW m \in 1 .. n - 1
      PROVE  (a \o b)[m] = IF m < i THEN s[m] ELSE s[m + 1]
    <2>1. i \in 1 .. n
        BY DEF n
    <2>2. CASE m < i
        BY <1>1, <1>2, <1>5, <2>1, <2>2
    <2>3. CASE ~(m < i)
        <3>1. m - (i - 1) \in 1 .. n - i /\ ~(m <= i - 1) /\ i + (m - (i - 1)) = m + 1
            BY <1>1, <2>1, <2>3
        <3>2. b[m - (i - 1)] = s[i + (m - (i - 1))]
            BY <1>3, <3>1
        <3>3. QED
            BY <1>5, <2>3, <3>1, <3>2
    <2>4. QED
        BY <2>2, <2>3
<1>7. QED
    BY <1>4, <1>5, <1>6 DEF n

LEMMA RemoveLoaded ==
    ASSUME Loaded, NEW i \in Readers, RemoveKernel(i)
    PROVE  Loaded'
<1>1. /\ phase = "up" /\ ~Reading /\ i \in 1 .. Len(kernels)
      /\ UNCHANGED <<maker, phase, call, lent>>
    BY Listing DEF Loaded, RemoveKernel, Writer
<1>2. PICK ks : ks = RemoveAt(kernels, i)
    OBVIOUS
<1>3. PICK rs : rs = {kernels[i]}
    OBVIOUS
<1>4. CloseReaders(rs) /\ Reindexed(ks)
    BY <1>2, <1>3 DEF RemoveKernel
<1>5. PICK n \in Nat : n = Len(kernels)
    BY Listing DEF Loaded
<1>6. /\ ks \in Seq(Readers) /\ Len(ks) = n - 1
      /\ \A m \in 1 .. n - 1 : ks[m] = IF m < i THEN kernels[m] ELSE kernels[m + 1]
    BY <1>1, <1>2, <1>5, RemoveAtIs DEF Loaded, LoadedTypes
<1>7. /\ \A j \in 1 .. n : kernels[j] \in Listed
      /\ \A r \in Listed : \E j \in 1 .. n : kernels[j] = r
      /\ \A j, m \in 1 .. n : kernels[j] = kernels[m] => j = m
      /\ i \in 1 .. n
    BY <1>1, <1>5, Listing DEF Loaded, OwnersInv
<1>8. ASSUME NEW m \in 1 .. n - 1
      PROVE  /\ m \in 1 .. n /\ m + 1 \in 1 .. n
             /\ ks[m] \in Listed /\ ks[m] \notin rs
    <2>1. m \in 1 .. n /\ m + 1 \in 1 .. n /\ i \in Nat /\ m \in Nat
        BY <1>7
    <2>2. \E j \in 1 .. n : j # i /\ ks[m] = kernels[j]
        <3>1. CASE m < i
            BY <1>6, <2>1, <3>1
        <3>2. CASE ~(m < i)
            <4>1. m + 1 # i
                BY <2>1, <3>2
            <4>2. QED
                BY <1>6, <2>1, <3>2, <4>1
        <3>3. QED
            BY <3>1, <3>2
    <2>3. QED
        BY <1>3, <1>7, <2>1, <2>2
<1>9. ASSUME NEW r \in Listed, r \notin rs
      PROVE  \E m \in 1 .. n - 1 : ks[m] = r
    <2>1. PICK j \in 1 .. n : kernels[j] = r
        BY <1>7
    <2>2. j # i
        BY <1>3, <1>9, <2>1
    <2>3. CASE j < i
        BY <1>6, <1>7, <2>1, <2>3
    <2>4. CASE j > i
        <3>1. j - 1 \in 1 .. n - 1 /\ ~(j - 1 < i) /\ (j - 1) + 1 = j
            BY <1>7, <2>4
        <3>2. QED
            BY <1>6, <2>1, <3>1
    <2>5. QED
        BY <1>7, <2>2, <2>3, <2>4
<1>10. ASSUME NEW l \in 1 .. n - 1, NEW m \in 1 .. n - 1, ks[l] = ks[m]
       PROVE  l = m
    <2>1. /\ l \in 1 .. n /\ l + 1 \in 1 .. n /\ m \in 1 .. n /\ m + 1 \in 1 .. n
          /\ l \in Nat /\ m \in Nat
        OBVIOUS
    <2>2. QED
        BY <1>6, <1>7, <1>10, <2>1
<1>11. rs \subseteq Listed
    BY <1>3, <1>7
<1>12. QED
    BY <1>1, <1>4, <1>6, <1>8, <1>9, <1>10, <1>11, Unloads

LEMMA UnloadAllLoaded ==
    ASSUME Loaded, UnloadAll
    PROVE  Loaded'
<1>1. /\ phase = "up" /\ ~Reading /\ UNCHANGED <<maker, phase, call, lent>>
    BY DEF UnloadAll, Writer
<1>2. PICK rs : rs = Listed
    OBVIOUS
<1>3. PICK ks : ks = <<>>
    OBVIOUS
<1>4. CloseReaders(rs) /\ Reindexed(ks)
    BY <1>2, <1>3 DEF UnloadAll
<1>5. ks \in Seq(Readers) /\ 1 .. Len(ks) = {}
    BY <1>3, EmptySeq
<1>6. QED
    BY <1>1, <1>2, <1>4, <1>5, Unloads

\* Opening one kernel after another into a provider nobody has yet.
LEMMA MakeAddLoaded ==
    ASSUME Loaded, NEW k \in Keys, MakeAdd(k)
    PROVE  Loaded'
<1> USE DEF Loaded
<1>1. PICK r \in Free : OpenReader(r, k) /\ kernels' = Append(kernels, r)
    BY DEF MakeAdd
<1>2. PICK ks : ks = Append(kernels, r)
    OBVIOUS
<1>3. /\ phase = "making" /\ \A c \in Callers : call[c] \in Asking
      /\ kernels' = ks /\ key' = [key EXCEPT ![r] = k] /\ open' = open \union {r}
      /\ r \in Readers /\ r \notin open /\ r \notin Listed /\ r \notin lent
      /\ UNCHANGED <<maker, phase, records, call, lent, dead>>
    BY <1>1, <1>2 DEF MakeAdd, OpenReader, Free, InHand, own, UnusedInv
<1>4. PICK n \in Nat : n = Len(kernels)
    BY Listing
<1>5. /\ Len(ks) = n + 1 /\ ks \in Seq(Readers) /\ DOMAIN ks = 1 .. n + 1
      /\ \A i \in 1 .. n : ks[i] = kernels[i]
      /\ ks[n + 1] = r
    BY <1>2, <1>3, <1>4, AppendProperties, LenProperties DEF LoadedTypes
<1>6. /\ \A i \in 1 .. n : kernels[i] \in Listed /\ kernels[i] \in Readers
      /\ \A q \in Listed : \E i \in 1 .. n : kernels[i] = q
      /\ \A i \in 1 .. n + 1 : i \in 1 .. n \/ i = n + 1
      /\ \A i \in 1 .. n : i \in 1 .. n + 1
      /\ n + 1 \in 1 .. n + 1
    BY <1>4, Listing
<1>7. Listed' = Listed \union {r}
    <2>1. Listed' = {ks[i] : i \in 1 .. n + 1}
        BY <1>3, <1>5 DEF Listed
    <2>2. QED
        BY <1>5, <1>6, <2>1
<1>8. \A c \in Callers : call[c] \notin Querying \union Adding
    BY <1>3 DEF Asking, Querying, Adding
<1>9. LoadedTypes' /\ UnusedInv' /\ HeldInv' /\ IndexInv'
    BY <1>3, <1>5, <1>8 DEF LoadedTypes, UnusedInv, HeldInv, IndexInv
<1>10. OwnersInv'
    <2>1. \A i, j \in 1 .. n + 1 : ks[i] = ks[j] => i = j
        BY <1>3, <1>4, <1>5, <1>6 DEF OwnersInv
    <2>2. QED
        BY <1>3, <1>5, <1>7, <1>8, <2>1 DEF OwnersInv
<1>11. OpenInv'
    BY <1>3, <1>7, <1>8 DEF OpenInv
<1>12. KeysInv'
    <2>1. \A q \in Readers : key'[q] = IF q = r THEN k ELSE key[q]
        BY <1>3 DEF LoadedTypes
    <2>2. \A i \in 1 .. n + 1 : key'[ks[i]] \in Keys
        BY <1>3, <1>4, <1>5, <1>6, <2>1 DEF KeysInv
    <2>3. QED
        BY <1>3, <1>5, <1>8, <2>2 DEF KeysInv
<1>13. NothingLeaks'
    BY <1>3, <1>7 DEF NothingLeaks, InHand
<1>14. QED
    BY <1>9, <1>10, <1>11, <1>12, <1>13

\* Open closes what it had opened; NewProvider forgets it.
LEMMA MakeFailsLoaded ==
    ASSUME Loaded, MakeFails
    PROVE  Loaded'
<1> USE DEF Loaded
<1>1. /\ phase = "making" /\ phase' = "absent" /\ kernels' = <<>>
      /\ \A c \in Callers : call[c] \in Asking
      /\ UNCHANGED <<maker, call, lent>>
    BY DEF MakeFails, UnusedInv
<1>2. PICK rs : rs = Listed
    OBVIOUS
<1>3. \/ maker = "Open" /\ CloseReaders(rs)
      \/ maker # "Open" /\ UNCHANGED <<key, open, records>>
    BY <1>2 DEF MakeFails, readerFiles
<1>4. /\ open' \subseteq open /\ (maker = "Open" => open' = open \ rs)
      /\ \A m \in records' : m \in records /\ m[1] \in open => m[1] \in open'
      /\ \A m \in records' : m \in records
      /\ key' \in [Readers -> Keys \union {Nil}]
    BY <1>3, Closes DEF LoadedTypes
<1>5. Listed' = {} /\ kernels' \in Seq(Readers) /\ 1 .. Len(kernels') = {}
    BY <1>1, EmptySeq DEF Listed
<1>6. \A c \in Callers : call[c] \notin Querying \union Adding
    BY <1>1 DEF Asking, Querying, Adding
<1>7. LoadedTypes' /\ UnusedInv' /\ HeldInv' /\ KeysInv' /\ IndexInv'
    BY <1>1, <1>4, <1>5, <1>6 DEF LoadedTypes, UnusedInv, HeldInv, KeysInv, IndexInv
<1>8. OwnersInv' /\ OpenInv'
    BY <1>1, <1>4, <1>5, <1>6 DEF OwnersInv, OpenInv
<1>9. NothingLeaks'
    BY <1>1, <1>2, <1>4, <1>5 DEF NothingLeaks, InHand
<1>10. QED
    BY <1>7, <1>8, <1>9

LEMMA MakeEndsLoaded ==
    ASSUME Loaded, MakeEnds
    PROVE  Loaded'
<1> USE DEF Loaded
<1>1. /\ phase = "making" /\ phase' = "up"
      /\ UNCHANGED <<maker, key, open, records, call, lent, dead>>
    BY DEF MakeEnds, readerFiles, own
<1>2. PICK ks : ks = kernels
    OBVIOUS
<1>3. Names(ks) /\ Reindexed(ks)
    BY <1>2, NamesNow DEF MakeEnds
<1>4. kernels' = ks /\ \A t \in Targets : Indexed(ks, t, byTarget'[t], coverage'[t])
    BY <1>3, Rebuilds
<1>5. UNCHANGED kernels /\ Listed' = Listed
    BY <1>2, <1>4 DEF Listed
<1>6. LoadedTypes' /\ UnusedInv' /\ HeldInv' /\ KeysInv' /\ OwnersInv' /\ OpenInv'
    BY <1>1, <1>5 DEF LoadedTypes, UnusedInv, HeldInv, KeysInv, OwnersInv, OpenInv
<1>7. IndexInv'
    BY <1>1, <1>4, IndexNow
<1>8. NothingLeaks'
    BY <1>1, <1>5 DEF NothingLeaks, InHand
<1>9. QED
    BY <1>6, <1>7, <1>8

\* Nothing but the phase, while nobody has the provider.
LEMMA StaysLoaded ==
    ASSUME Loaded, Make \/ UNCHANGED providerVars
    PROVE  Loaded'
<1> USE DEF Loaded
<1>1. /\ UNCHANGED <<maker, kernels, byTarget, coverage, key, open, records, call, lent, dead>>
      /\ phase' = phase \/ (phase = "absent" /\ phase' = "making")
    BY DEF Make, providerVars, index, readerFiles, own
<1>2. Listed' = Listed
    BY <1>1 DEF Listed
<1>3. LoadedTypes' /\ UnusedInv' /\ HeldInv' /\ KeysInv' /\ OwnersInv' /\ OpenInv'
    BY <1>1, <1>2 DEF LoadedTypes, UnusedInv, HeldInv, KeysInv, OwnersInv, OpenInv
<1>4. IndexInv'
    <2>1. CASE phase' = phase
        BY <1>1, <2>1, IndexStays
    <2>2. CASE phase' = "making"
        BY <2>2 DEF IndexInv
    <2>3. QED
        BY <1>1, <2>1, <2>2
<1>5. NothingLeaks'
    BY <1>1, <1>2 DEF NothingLeaks, InHand
<1>6. QED
    BY <1>3, <1>4, <1>5

\* The inductive invariant of the kernels loaded.
THEOREM KernelsLoaded == ProviderSpec => []Loaded
<1>1. ProviderInit => Loaded
    BY InitLoaded
<1>2. Loaded /\ [ProviderNext]_providerVars => Loaded'
    <2> SUFFICES ASSUME Loaded, [ProviderNext]_providerVars
                 PROVE  Loaded'
        OBVIOUS
    <2>1. CASE Make \/ UNCHANGED providerVars
        BY <2>1, StaysLoaded
    <2>2. CASE MakeFails
        BY <2>2, MakeFailsLoaded
    <2>3. CASE MakeEnds
        BY <2>3, MakeEndsLoaded
    <2>4. CASE CloseLent
        BY <2>4, CloseLentLoaded
    <2>5. CASE UnloadAll
        BY <2>5, UnloadAllLoaded
    <2>6. CASE Close
        <3>1. PICK rs : rs = Listed
            OBVIOUS
        <3>2. /\ CloseListed(rs) /\ rs \subseteq Listed /\ ~Reading
              /\ UNCHANGED <<maker, phase, kernels, byTarget, coverage, call, lent>>
            BY <2>6, <3>1 DEF Close, Writer, index
        <3>3. QED
            BY <3>2, ClosedInPlace
    <2>7. ASSUME NEW k \in Keys, MakeAdd(k)
          PROVE  Loaded'
        BY <2>7, MakeAddLoaded
    <2>8. ASSUME NEW i \in Readers, RemoveKernel(i)
          PROVE  Loaded'
        BY <2>8, RemoveLoaded
    <2>9. ASSUME NEW i \in Readers, RemoveFails(i)
          PROVE  Loaded'
        <3>1. PICK rs : rs = {kernels[i]}
            OBVIOUS
        <3>2. /\ CloseListed(rs) /\ i \in DOMAIN kernels /\ ~Reading
              /\ UNCHANGED <<maker, phase, kernels, byTarget, coverage, call, lent>>
            BY <2>9, <3>1 DEF RemoveFails, Writer, index
        <3>3. rs \subseteq Listed
            BY <3>1, <3>2 DEF Listed
        <3>4. QED
            BY <3>2, <3>3, ClosedInPlace
    <2>10. ASSUME NEW c \in Callers,
                  EvaluateCached(c) \/ Evaluate(c) \/ EvaluateFails(c)
           PROVE  Loaded'
        BY <2>10, QueryEnds
    <2>11. ASSUME NEW c \in Callers, Add(c)
           PROVE  Loaded'
        BY <2>11, AddLoaded
    <2>12. ASSUME NEW c \in Callers, AddRefused(c)
           PROVE  Loaded'
        BY <2>12, AddRefusedLoaded
    <2>13. ASSUME NEW c \in Callers, NEW k \in Keys, AskAdd(c, k)
           PROVE  Loaded'
        BY <2>13, AskAddLoaded
    <2>14. ASSUME NEW c \in Callers, NEW t \in Targets, NEW e \in Epochs, Locate(c, t, e)
           PROVE  Loaded'
        BY <2>14, LocateLoaded
    <2>15. QED
        BY <2>1, <2>2, <2>3, <2>4, <2>5, <2>6, <2>7, <2>8, <2>9, <2>10, <2>11, <2>12,
           <2>13, <2>14 DEF ProviderNext
<1>3. QED
    BY <1>1, <1>2, PTL DEF ProviderSpec

\* Whatever Open, AddKernel, AddKernelFrom, RemoveKernel, UnloadAll and Close do
\* and fail in, every open file is a listed kernel's, that of a call under way, or
\* a caller's to close.
THEOREM OpenLeaksNothing == ProviderSpec => []NothingLeaks
<1>1. Loaded => NothingLeaks
    BY DEF Loaded
<1>2. QED
    BY <1>1, KernelsLoaded, PTL

\* A query goes to the last segment of the last kernel listed that covers its
\* target then, after any sequence of additions, refusals, removals and unloads,
\* and is refused only when none does.
THEOREM LastMatchWins == ProviderSpec => []AnswersAsLoaded
<1>1. Loaded => AnswersAsLoaded
    <2> SUFFICES ASSUME Loaded, phase = "up", NEW t \in Targets, NEW e \in Epochs
                 PROVE  IF Covering(t, e) = {} THEN FindSegment(t, e) = Nil
                        ELSE /\ FindSegment(t, e) \in Covering(t, e)
                             /\ \A ref \in Covering(t, e) :
                                    ~Later(ref, FindSegment(t, e))
        BY DEF AnswersAsLoaded
    <2>1. Indexed(kernels, t, byTarget[t], coverage[t])
        BY DEF Loaded, IndexInv
    <2>2. QED
        BY <2>1, NamesNow, FindsLast
<1>2. QED
    BY <1>1, KernelsLoaded, PTL

\* No removal, unload or Close takes a kernel from under a query: each answer is
\* of a kernel that is open, and a query ends with the kernel it found still
\* where it found it.
THEOREM QueriesKeepTheirKernel == ProviderSpec => AnswersFromOpen
<1>1. Loaded /\ [ProviderNext]_providerVars =>
        [\A c \in Callers :
            /\ (EvaluateCached(c) \/ Evaluate(c)) => call[c].reader \in open
            /\ CallAt(c, "evaluate") /\ ~CallAt(c, "evaluate")' =>
                 /\ call[c].reader \in open \union dead
                 /\ call[c].ref[1] \in DOMAIN kernels
                 /\ kernels[call[c].ref[1]] = call[c].reader]_providerVars
    <2> SUFFICES ASSUME Loaded, NEW c \in Callers
                 PROVE  /\ (EvaluateCached(c) \/ Evaluate(c)) => call[c].reader \in open
                        /\ CallAt(c, "evaluate") =>
                             /\ call[c].reader \in open \union dead
                             /\ call[c].ref[1] \in DOMAIN kernels
                             /\ kernels[call[c].ref[1]] = call[c].reader
        OBVIOUS
    <2>1. (EvaluateCached(c) \/ Evaluate(c)) => call[c].reader \in open
        BY DEF EvaluateCached, Evaluate, Record, Loaded, OpenInv
    <2>2. ASSUME CallAt(c, "evaluate")
          PROVE  /\ call[c].reader \in open \union dead
                 /\ call[c].ref[1] \in DOMAIN kernels
                 /\ kernels[call[c].ref[1]] = call[c].reader
        <3>1. /\ call[c].ref[1] \in 1 .. Len(kernels)
              /\ kernels[call[c].ref[1]] = call[c].reader
            BY <2>2, Kinds DEF Loaded, HeldInv
        <3>2. call[c].reader \in Listed /\ DOMAIN kernels = 1 .. Len(kernels)
            BY <3>1, Listing DEF Loaded
        <3>3. QED
            BY <3>1, <3>2 DEF Loaded, OpenInv
    <2>3. QED
        BY <2>1, <2>2
<1>2. QED
    BY <1>1, KernelsLoaded, PTL DEF ProviderSpec, AnswersFromOpen
===============================================================================
