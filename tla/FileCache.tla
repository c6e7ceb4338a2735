----------------------------- MODULE FileCache -----------------------------
(***************************************************************************)
(* One Mutable object of the download cache, as remote.GetFile keeps it:   *)
(* the freshness check before and under the download lock, the staged,     *)
(* validated and promoted download with its resume point, the record of    *)
(* refused source versions, and the read of the copy after the lock is     *)
(* given back, which may throw the copy away (remote/fetch.go,             *)
(* remote/reject.go, remote/file/lock_resume.go).                          *)
(*                                                                         *)
(* Each step is one operation on the cache directory or on the source, so  *)
(* callers of one or several processes interleave between any two and a    *)
(* crash can fall there.  The lock is the one ExclusiveLock specifies.     *)
(*                                                                         *)
(* Contents are sequences of blocks, each the number of the source version *)
(* it was read from; the source only moves forward.  A version's number is *)
(* also its ETag.                                                          *)
(***************************************************************************)
EXTENDS Integers, Sequences

CONSTANTS
    Callers,      \* goroutines calling GetFile for this object
    Clients,      \* remote.Clients: what one process remembers
    ClientOf,     \* the client each caller uses
    MaxVersion,   \* versions the source publishes (bound)
    Size,         \* blocks in each version
    Readable,     \* the versions the callers' reader accepts
    Valid,        \* the versions their validator accepts
    HasETag,      \* the source reports a validator for its object
    None,         \* no object
    Workloads     \* who calls, with what options, and the bounds (see Workload)

Versions == 1 .. MaxVersion

ASSUME FileCacheAssumption ==
    /\ ClientOf \in [Callers -> Clients]
    /\ MaxVersion \in Nat \ {0}
    /\ Size \in [Versions -> Nat \ {0}]
    /\ Readable \subseteq Versions /\ Valid \subseteq Versions
    /\ HasETag \in BOOLEAN
    /\ None \notin Seq(0 .. MaxVersion)

\* The callers at work, whether they pass WithValidate, which faults happen,
\* and how many faults and calls of each caller there are at most.  A "read"
\* fault is an error the caller's reader or validator meets while it reads.
Workload == [callers : SUBSET Callers, validated : BOOLEAN,
             faultKinds : SUBSET {"io", "read", "crash", "damage"},
             maxFaults : Nat, maxCalls : Nat]

ASSUME WorkloadAssumption == Workloads \subseteq Workload

VARIABLES
    work,      \* the workload of this behavior
    src,       \* the version the source serves
    copy,      \* the cached object, or None
    tag,       \* the ETag recorded beside it, or NoTag
    part,      \* the partial download (.part), or None
    partTag,   \* the ETag recorded beside that, or NoTag
    resume,    \* where a resumed download is put together (.resume), or None
    holders,   \* who holds the download lock
    rejected,  \* the version each client refuses to download, or NoTag
    pc,        \* where each caller is in GetFile
    phase,     \* which of its three freshness checks a caller is at or past
    after,     \* where a caller goes when it is done cleaning or releasing
    size,      \* the size of the copy each caller saw
    ver,       \* the version of the source each caller last asked about
    off,       \* the offset each caller resumes from
    ok,        \* this getFile downloaded the copy (fetched.ok)
    second,    \* the call is past its one refetch
    start,     \* what the source served when the call began (history)
    calm,      \* faults when the call began (history)
    barred,    \* what the client refused to download when it began (history)
    bySize,    \* the copy was last found current by its size alone (history)
    calls,     \* calls so far (bound)
    faults     \* faults so far (bound)

disk == <<copy, tag, part, partTag, resume>>
locals == <<phase, after, size, ver, off, ok, second>>
begun == <<start, calm, barred, calls>>
history == <<begun, bySize>>
vars == <<work, src, disk, holders, rejected, pc, locals, history, faults>>

Lock == INSTANCE ExclusiveLock

NoTag == 0

\* The content of version v, and what damage makes of a copy.
Body(v) == [i \in 1 .. Size[v] |-> v]
Damaged(s) == [i \in 1 .. Len(s) |-> 0]

\* The validator the source reports for v.
ETag(v) == IF HasETag THEN v ELSE NoTag

\* A content is accepted if it is a version that is; damage and mixtures of
\* versions never are.
Accepted(x, versions) == \E v \in versions : x = Body(v)

Init ==
    /\ work \in Workloads
    /\ src = 1
    /\ copy = None /\ tag = NoTag
    /\ part = None /\ partTag = NoTag /\ resume = None
    /\ Lock!Init
    /\ rejected = [k \in Clients |-> NoTag]
    /\ pc = [c \in Callers |-> "idle"]
    /\ phase = [c \in Callers |-> "open"]
    /\ after = [c \in Callers |-> "idle"]
    /\ size = [c \in Callers |-> 0]
    /\ ver = [c \in Callers |-> 1]
    /\ off = [c \in Callers |-> 0]
    /\ ok = [c \in Callers |-> FALSE]
    /\ second = [c \in Callers |-> FALSE]
    /\ start = [c \in Callers |-> 1]
    /\ calm = [c \in Callers |-> 0]
    /\ barred = [c \in Callers |-> NoTag]
    /\ bySize = [c \in Callers |-> FALSE]
    /\ calls = [c \in Callers |-> 0]
    /\ faults = 0
----------------------------------------------------------------------------
Goto(c, l) == pc' = [pc EXCEPT ![c] = l]

Fault(kind) ==
    /\ kind \in work.faultKinds
    /\ faults < work.maxFaults
    /\ faults' = faults + 1

\* Asked in the three places freshInCache is: a fresh copy is handed out, and
\* without one the call goes for the lock, for the download, or gives up.
Fresh(c) ==
    /\ Goto(c, IF phase[c] = "open" THEN "read" ELSE "release")
    /\ after' = [after EXCEPT ![c] = "read"]

\* Faulty variant of NotFresh: a failed fetch returns without releasing.
NotFreshKeepsLock(c) ==
    /\ Goto(c, CASE phase[c] = "open" -> "lock"
                 [] phase[c] = "locked" -> "stat"
                 [] phase[c] = "failed" -> "idle")
    /\ after' = [after EXCEPT ![c] = "idle"]

NotFresh(c) ==
    /\ Goto(c, CASE phase[c] = "open" -> "lock"
                 [] phase[c] = "locked" -> "stat"
                 [] phase[c] = "failed" -> "release")
    /\ after' = [after EXCEPT ![c] = "idle"]

\* fetchInto returned an error: getFile looks at the cache once more.
FetchFails(c) ==
    /\ Goto(c, "look")
    /\ phase' = [phase EXCEPT ![c] = "failed"]
    /\ UNCHANGED <<after, size, ver, off, ok, second>>

\* The beginning of getFile; the call itself may go through it twice.
Begin(c, again) ==
    /\ Goto(c, "look")
    /\ phase' = [phase EXCEPT ![c] = "open"]
    /\ ok' = [ok EXCEPT ![c] = FALSE]
    /\ second' = [second EXCEPT ![c] = again]
    /\ UNCHANGED <<after, size, ver, off>>

GetFile(c) ==
    /\ pc[c] = "idle" /\ c \in work.callers /\ calls[c] < work.maxCalls
    /\ Begin(c, FALSE)
    /\ calls' = [calls EXCEPT ![c] = @ + 1]
    /\ start' = [start EXCEPT ![c] = src]
    /\ calm' = [calm EXCEPT ![c] = faults]
    /\ barred' = [barred EXCEPT ![c] = rejected[ClientOf[c]]]
    /\ UNCHANGED <<src, disk, holders, rejected, bySize, faults>>

\* freshInCache: is there a copy, what does the source serve, and does the
\* recorded ETag say they are the same?
LookCopy(c) ==
    /\ pc[c] = "look"
    /\ IF copy = None
       THEN NotFresh(c) /\ UNCHANGED size
       ELSE /\ size' = [size EXCEPT ![c] = Len(copy)]
            /\ Goto(c, "ask")
            /\ UNCHANGED after
    /\ bySize' = [bySize EXCEPT ![c] = FALSE]
    /\ UNCHANGED <<src, disk, holders, rejected, phase, ver, off, ok, second,
                   begun, faults>>

AskSource(c) ==
    /\ pc[c] = "ask"
    /\ ver' = [ver EXCEPT ![c] = src]
    /\ Goto(c, "compare")
    /\ UNCHANGED <<src, disk, holders, rejected, phase, after, size, off, ok,
                   second, history, faults>>

AskFails(c) ==
    /\ pc[c] = "ask" /\ Fault("io")
    /\ NotFresh(c)
    /\ UNCHANGED <<src, disk, holders, rejected, phase, size, ver, off, ok,
                   second, history>>

\* Faulty variant of Unchanged: a copy is current because it is there.
UnchangedIfThere(c, recorded) == size[c] > 0

\* unchanged, given the ETag read from the sidecar: ETags decide when there
\* are two, and otherwise the sizes.
TwoETags(c, recorded) == recorded # NoTag /\ ETag(ver[c]) # NoTag

Unchanged(c, recorded) ==
    IF TwoETags(c, recorded)
    THEN recorded = ETag(ver[c])
    ELSE size[c] > 0 /\ size[c] = Size[ver[c]]

Decide(c, recorded) ==
    /\ pc[c] = "compare"
    /\ IF Unchanged(c, recorded) THEN Fresh(c) ELSE NotFresh(c)
    /\ bySize' = [bySize EXCEPT ![c] = Unchanged(c, recorded) /\ ~TwoETags(c, recorded)]
    /\ UNCHANGED <<src, disk, holders, rejected, phase, size, ver, off, ok, second,
                   begun>>

Compare(c) == Decide(c, tag) /\ UNCHANGED faults

\* A sidecar that cannot be read reads as no ETag.
CompareUnread(c) == Decide(c, NoTag) /\ Fault("io")

AcquireLock(c) ==
    /\ pc[c] = "lock"
    /\ Lock!Acquire(c)
    /\ phase' = [phase EXCEPT ![c] = "locked"]
    /\ Goto(c, "look")
    /\ UNCHANGED <<src, disk, rejected, after, size, ver, off, ok, second,
                   history, faults>>

AcquireFails(c) ==
    /\ pc[c] = "lock" /\ Fault("io")
    /\ Goto(c, "idle")
    /\ UNCHANGED <<src, disk, holders, rejected, locals, history>>

\* Faulty variant of StatSource: the record of rejections is not asked.
StatSourceUnasked(c) ==
    /\ pc[c] = "stat"
    /\ ver' = [ver EXCEPT ![c] = src]
    /\ Goto(c, "resume")
    /\ UNCHANGED <<src, disk, holders, rejected, phase, after, size, off, ok,
                   second, history, faults>>

\* fetchInto: the source's metadata, and the version refused before.
StatSource(c) ==
    /\ pc[c] = "stat"
    /\ src # rejected[ClientOf[c]]
    /\ ver' = [ver EXCEPT ![c] = src]
    /\ Goto(c, "resume")
    /\ UNCHANGED <<src, disk, holders, rejected, phase, after, size, off, ok,
                   second, history, faults>>

StatRejected(c) ==
    /\ pc[c] = "stat"
    /\ src = rejected[ClientOf[c]]
    /\ FetchFails(c)
    /\ UNCHANGED <<src, disk, holders, rejected, history, faults>>

StatFails(c) ==
    /\ pc[c] = "stat" /\ Fault("io")
    /\ FetchFails(c)
    /\ UNCHANGED <<src, disk, holders, rejected, history>>

\* ResumePoint: a partial of this very version is continued, any other one is
\* discarded.
Resumable(c) == partTag # NoTag /\ partTag = ETag(ver[c])

ResumeFrom(c, n) ==
    /\ off' = [off EXCEPT ![c] = n]
    /\ Goto(c, "stage")
    /\ UNCHANGED after

ResumeDiscard(c) ==
    /\ pc[c] = "resume"
    /\ part \notin {None, <<>>} /\ ~Resumable(c)
    /\ off' = [off EXCEPT ![c] = 0]
    /\ after' = [after EXCEPT ![c] = "stage"]
    /\ Goto(c, "clean")
    /\ UNCHANGED <<src, disk, holders, rejected, phase, size, ver, ok, second,
                   history, faults>>

ResumePoint(c) ==
    /\ pc[c] = "resume"
    /\ \/ part \in {None, <<>>} /\ ResumeFrom(c, 0)
       \/ part \notin {None, <<>>} /\ Resumable(c) /\ ResumeFrom(c, Len(part))
    /\ UNCHANGED <<src, disk, holders, rejected, phase, size, ver, ok, second,
                   history, faults>>

\* A partial or a sidecar that cannot be looked at ends the fetch.
ResumeFails(c) ==
    /\ pc[c] = "resume" /\ Fault("io")
    /\ FetchFails(c)
    /\ UNCHANGED <<src, disk, holders, rejected, history>>

\* What is put together from the partial and the first n blocks the source
\* then serves: its body from the offset on, and nothing past its end.
Staged(c) == IF off[c] > 0 THEN resume ELSE part
Served(c) == IF off[c] >= Size[src] THEN 0 ELSE Size[src] - off[c]
Assembled(c, n) == (IF off[c] > 0 THEN part ELSE <<>>) \o [i \in 1 .. n |-> src]

Write(c, content) ==
    IF off[c] > 0 THEN resume' = content /\ UNCHANGED part
                  ELSE part' = content /\ UNCHANGED resume

\* The transfer and the Close that commits it, whole or interrupted: an
\* interrupted one commits what arrived and ends the fetch.
Stage(c) ==
    /\ pc[c] = "stage"
    /\ Write(c, Assembled(c, Served(c)))
    /\ Goto(c, "seal")
    /\ UNCHANGED <<src, copy, tag, partTag, holders, rejected, locals, history,
                   faults>>

StageInterrupted(c) ==
    /\ pc[c] = "stage" /\ Fault("io")
    /\ \E n \in 0 .. Served(c) : n < Served(c) /\ Write(c, Assembled(c, n))
    /\ FetchFails(c)
    /\ UNCHANGED <<src, copy, tag, partTag, holders, rejected, history>>

StageFails(c) ==
    /\ pc[c] = "stage" /\ Fault("io")
    /\ FetchFails(c)
    /\ UNCHANGED <<src, disk, holders, rejected, history>>

\* Faulty variant of Seal: the ETag recorded is what the source reports by now.
SealCurrent(c) ==
    /\ pc[c] = "seal"
    /\ partTag' = IF off[c] = 0 /\ HasETag THEN ETag(src) ELSE partTag
    /\ Goto(c, IF work.validated THEN "validate" ELSE "promote")
    /\ UNCHANGED <<src, copy, tag, part, resume, holders, rejected, locals,
                   history, faults>>

\* The ETag goes beside the staged object; the one beside .resume is read by
\* nobody.
Seal(c) ==
    /\ pc[c] = "seal"
    /\ partTag' = IF off[c] = 0 /\ HasETag THEN ETag(ver[c]) ELSE partTag
    /\ Goto(c, IF work.validated THEN "validate" ELSE "promote")
    /\ UNCHANGED <<src, copy, tag, part, resume, holders, rejected, locals,
                   history, faults>>

SealFails(c) ==
    /\ pc[c] = "seal" /\ HasETag /\ Fault("io")
    /\ FetchFails(c)
    /\ UNCHANGED <<src, disk, holders, rejected, history>>

\* reject: a version without an ETag cannot be recognized again.
Reject(c) ==
    rejected' = IF HasETag THEN [rejected EXCEPT ![ClientOf[c]] = ver[c]]
                ELSE rejected

ValidateOk(c) ==
    /\ pc[c] = "validate" /\ Accepted(Staged(c), Valid)
    /\ Goto(c, "promote")
    /\ UNCHANGED <<src, disk, holders, rejected, locals, history, faults>>

ValidateRefused(c) ==
    /\ pc[c] = "validate" /\ ~Accepted(Staged(c), Valid)
    /\ Reject(c)
    /\ after' = [after EXCEPT ![c] = "failed"]
    /\ Goto(c, "clean")
    /\ UNCHANGED <<src, disk, holders, phase, size, ver, off, ok, second,
                   history, faults>>

\* The staged object could not be opened or closed, or the context ended: it is
\* discarded.  An error the validator meets while reading it is a refusal of
\* the validator, and the version is rejected with it.
ValidateFails(c) ==
    /\ pc[c] = "validate"
    /\ \/ Fault("io") /\ UNCHANGED rejected
       \/ Fault("read") /\ Reject(c)
    /\ after' = [after EXCEPT ![c] = "failed"]
    /\ Goto(c, "clean")
    /\ UNCHANGED <<src, disk, holders, phase, size, ver, off, ok, second, history>>

\* The copy to the cache key lands whole, by a rename.
Promote(c) ==
    /\ pc[c] = "promote"
    /\ copy' = Staged(c)
    /\ after' = [after EXCEPT ![c] = "record"]
    /\ Goto(c, "clean")
    /\ UNCHANGED <<src, tag, part, partTag, resume, holders, rejected, phase,
                   size, ver, off, ok, second, history, faults>>

\* Faulty variant of PromoteFails: the old copy is removed before the new one
\* is written.
PromoteFailsBare(c) ==
    /\ pc[c] = "promote" /\ Fault("io")
    /\ copy' = None
    /\ FetchFails(c)
    /\ UNCHANGED <<src, tag, part, partTag, resume, holders, rejected, history>>

PromoteFails(c) ==
    /\ pc[c] = "promote" /\ Fault("io")
    /\ FetchFails(c)
    /\ UNCHANGED <<src, disk, holders, rejected, history>>

\* discardStaging: a resumed download's own staging object and the partial, and
\* then the sidecar.  Each removal may fail, which is ignored.
Clean(c) ==
    /\ pc[c] = "clean"
    /\ \/ /\ part' = None
          /\ resume' = IF off[c] > 0 THEN None ELSE resume
          /\ UNCHANGED faults
       \/ /\ Fault("io")
          /\ part' \in {part, None}
          /\ resume' \in IF off[c] > 0 THEN {resume, None} ELSE {resume}
    /\ Goto(c, "cleanTag")
    /\ UNCHANGED <<src, copy, tag, partTag, holders, rejected, locals, history>>

CleanTag(c) ==
    /\ pc[c] = "cleanTag"
    /\ \/ partTag' = NoTag /\ UNCHANGED faults
       \/ Fault("io") /\ UNCHANGED partTag
    /\ IF after[c] = "failed" THEN FetchFails(c)
       ELSE Goto(c, after[c]) /\ UNCHANGED locals
    /\ UNCHANGED <<src, copy, tag, part, resume, holders, rejected, history>>

\* The end of fetchInto: whatever was rejected is gone upstream, and the ETag
\* is recorded beside the copy.
Record(c) ==
    /\ pc[c] = "record"
    /\ rejected' = [rejected EXCEPT ![ClientOf[c]] = NoTag]
    /\ tag' = IF HasETag THEN ETag(ver[c]) ELSE tag
    /\ ok' = [ok EXCEPT ![c] = TRUE]
    /\ after' = [after EXCEPT ![c] = "read"]
    /\ Goto(c, "release")
    /\ UNCHANGED <<src, copy, part, partTag, resume, holders, phase, size, ver,
                   off, second, history, faults>>

RecordFails(c) ==
    /\ pc[c] = "record" /\ HasETag /\ Fault("io")
    /\ rejected' = [rejected EXCEPT ![ClientOf[c]] = NoTag]
    /\ FetchFails(c)
    /\ UNCHANGED <<src, disk, holders, history>>

Release(c) ==
    /\ pc[c] = "release"
    /\ Lock!Release(c)
    /\ Goto(c, after[c])
    /\ UNCHANGED <<src, disk, rejected, locals, history, faults>>
----------------------------------------------------------------------------
\* readCopy, without the lock: the reader accepts the copy, or it does not (or
\* the copy is no longer there) and it is discarded, or any other error comes
\* up, which counts as a refusal unless the call's context ended.
ReadOk(c) ==
    /\ pc[c] = "read" /\ Accepted(copy, Readable)
    /\ Goto(c, "idle")
    /\ UNCHANGED <<src, disk, holders, rejected, locals, history, faults>>

ReadRefused(c) ==
    /\ pc[c] = "read" /\ ~Accepted(copy, Readable)
    /\ Goto(c, "discard")
    /\ UNCHANGED <<src, disk, holders, rejected, locals, history, faults>>

ReadFails(c) ==
    /\ pc[c] = "read" /\ Fault("read")
    /\ Goto(c, "discard")
    /\ UNCHANGED <<src, disk, holders, rejected, locals, history>>

ReadCancelled(c) ==
    /\ pc[c] = "read" /\ Fault("io")
    /\ Goto(c, "idle")
    /\ UNCHANGED <<src, disk, holders, rejected, locals, history>>

\* discard: the version is rejected if this call downloaded it, and whatever
\* is now under the cache key is removed; nothing there is an error.
DiscardCopy(c) ==
    /\ pc[c] = "discard"
    /\ IF ok[c] THEN Reject(c) ELSE UNCHANGED rejected
    /\ \/ copy' = None /\ UNCHANGED faults
          /\ Goto(c, IF copy = None THEN "idle" ELSE "discardTag")
       \/ Fault("io") /\ Goto(c, "idle") /\ UNCHANGED copy
    /\ UNCHANGED <<src, tag, part, partTag, resume, holders, locals, history>>

\* Faulty variant of DiscardTag: a refused cached copy is not fetched again.
DiscardTagOnly(c) ==
    /\ pc[c] = "discardTag"
    /\ tag' = NoTag
    /\ Goto(c, "idle")
    /\ UNCHANGED <<src, copy, part, partTag, resume, holders, rejected, locals,
                   history, faults>>

\* Then its sidecar, and one fresh attempt if the copy came from the cache.
DiscardTag(c) ==
    /\ pc[c] = "discardTag"
    /\ tag' = NoTag
    /\ IF ok[c] \/ second[c] THEN Goto(c, "idle") /\ UNCHANGED locals
                             ELSE Begin(c, TRUE)
    /\ UNCHANGED <<src, copy, part, partTag, resume, holders, rejected, history,
                   faults>>

DiscardTagFails(c) ==
    /\ pc[c] = "discardTag" /\ Fault("io")
    /\ Goto(c, "idle")
    /\ UNCHANGED <<src, disk, holders, rejected, locals, history>>
----------------------------------------------------------------------------
\* The environment: the source publishes, a process dies, a cached copy is
\* damaged where it sits.
Publish ==
    /\ src < MaxVersion
    /\ src' = src + 1
    /\ UNCHANGED <<disk, holders, rejected, pc, locals, history, faults>>

Crash(k) ==
    LET gone == {c \in Callers : ClientOf[c] = k} IN
    /\ Fault("crash")
    /\ \E c \in gone : pc[c] # "idle"
    /\ pc' = [c \in Callers |-> IF c \in gone THEN "idle" ELSE pc[c]]
    /\ rejected' = [rejected EXCEPT ![k] = NoTag]
    /\ Lock!Crash(gone)
    /\ UNCHANGED <<src, disk, locals, history>>

Damage ==
    /\ Fault("damage")
    /\ \A c \in Callers : pc[c] = "idle"
    /\ copy # None
    /\ copy' = Damaged(copy)
    /\ UNCHANGED <<src, tag, part, partTag, resume, holders, rejected, pc,
                   locals, history>>

Step(c) ==
    \/ LookCopy(c) \/ AskSource(c) \/ Compare(c)
    \/ AcquireLock(c) \/ StatSource(c) \/ StatRejected(c)
    \/ ResumePoint(c) \/ ResumeDiscard(c) \/ Stage(c) \/ Seal(c)
    \/ ValidateOk(c) \/ ValidateRefused(c) \/ Promote(c)
    \/ Clean(c) \/ CleanTag(c) \/ Record(c) \/ Release(c)
    \/ ReadOk(c) \/ ReadRefused(c) \/ DiscardCopy(c) \/ DiscardTag(c)

Failure(c) ==
    \/ AskFails(c) \/ CompareUnread(c) \/ AcquireFails(c) \/ StatFails(c)
    \/ ResumeFails(c) \/ StageInterrupted(c) \/ StageFails(c) \/ SealFails(c)
    \/ ValidateFails(c) \/ PromoteFails(c) \/ RecordFails(c)
    \/ ReadFails(c) \/ ReadCancelled(c) \/ DiscardTagFails(c)

Next ==
    /\ \/ \E c \in Callers : GetFile(c) \/ Step(c) \/ Failure(c)
       \/ \E k \in Clients : Crash(k)
       \/ Publish \/ Damage
    /\ UNCHANGED work

Spec == Init /\ [][Next]_vars

\* Goroutines are scheduled, and the source and the disk answer.
FairSpec == Spec /\ \A c \in Callers : WF_vars(Step(c) /\ UNCHANGED work)
----------------------------------------------------------------------------
Contents == Seq(0 .. MaxVersion) \union {None}
Tags == 0 .. MaxVersion

TypeOK ==
    /\ work \in Workloads
    /\ src \in Versions
    /\ copy \in Contents /\ part \in Contents /\ resume \in Contents
    /\ tag \in Tags /\ partTag \in Tags
    /\ Lock!TypeOK
    /\ rejected \in [Clients -> Tags]
    /\ pc \in [Callers -> {"idle", "look", "ask", "compare", "lock", "stat",
                 "resume", "stage", "seal", "validate", "promote", "clean",
                 "cleanTag", "record", "release", "read", "discard",
                 "discardTag"}]
    /\ phase \in [Callers -> {"open", "locked", "failed"}]
    /\ after \in [Callers -> {"idle", "stage", "failed", "record", "read"}]
    /\ size \in [Callers -> Nat] /\ off \in [Callers -> Nat]
    /\ ver \in [Callers -> Versions]
    /\ ok \in [Callers -> BOOLEAN] /\ second \in [Callers -> BOOLEAN]
    /\ start \in [Callers -> Versions]
    /\ calm \in [Callers -> Nat]
    /\ barred \in [Callers -> Tags] /\ bySize \in [Callers -> BOOLEAN]
    /\ calls \in [Callers -> Nat]
    /\ faults \in Nat

\* The ETags recorded on disk never vouch for other content than the version
\* they name, through every crash, failed write and concurrent discard: while
\* the source still serves the version named beside the copy, the copy is that
\* version or was damaged since, and what ResumePoint would continue is the
\* beginning of the version it would continue with.
Undamaged(x) == \A i \in 1 .. Len(x) : x[i] # 0
TagVouches == copy # None /\ tag = src /\ Undamaged(copy) => copy = Body(src)
PartVouches ==
    part # None /\ partTag = src =>
        Len(part) <= Size[src] /\ \A i \in 1 .. Len(part) : part[i] = src
TagsVouch == TagVouches /\ PartVouches

\* GetFile "ensures endpoint id's object named name is present and current"
\* (fetch.go:91): the copy a call reads is at least as new as what the source
\* served when the call began.  The one exception is the fallback on sizes where
\* an ETag is missing, which "is weaker and is meant to be" (fetch.go:420-421): no
\* crash, no concurrent discard and no change of the source in the middle of a
\* transfer opens another way to an old copy.
AnswersCurrent ==
    [][\A c \in Callers : ReadOk(c) /\ ~bySize[c] =>
         \E v \in Versions : v >= start[c] /\ copy = Body(v)]_vars

\* Where nothing is ever damaged and no read refuses a copy, no interleaving
\* of callers takes a copy away once there is one.
NothingRefused ==
    /\ work.validated /\ Valid \subseteq Readable
    /\ work.faultKinds \intersect {"damage", "read"} = {}
CopyKept == [][NothingRefused /\ copy # None => copy' # None]_vars

\* A client forgets that it refused a version only when the source serves
\* another one, or when its process ends: "until the source serves a different
\* version, GetFile fails with ErrRejectedSource" (fetch.go:61-65).  For a
\* caller alone with the cache.
Alone(c) == work.callers = {c}
RejectionLasts ==
    [][\A c \in Callers : LET k == ClientOf[c] IN
         Alone(c) /\ rejected[k] = src /\ rejected'[k] # rejected[k] => Crash(k)]_vars

\* "a corrupt cache heals without the caller noticing" (fetch.go:60): with
\* nobody else at work, and whatever crashed, failed or was damaged before, a
\* call during which nothing goes wrong and nothing is published ends with a
\* good copy read.  Provided the source's version is one the caller accepts and
\* is not on record as rejected: any error of an earlier reader or validator
\* puts a good version there too, and then it stays until the source serves
\* another one or the process ends.
Acceptable(v) == v \in Readable /\ (work.validated => v \in Valid)
Heals ==
    [][\A c \in Callers : Alone(c) /\ pc[c] # "idle" /\ pc'[c] = "idle"
            /\ faults' = calm[c] /\ src = start[c]
            /\ Acceptable(src) /\ barred[c] # src
         => ReadOk(c)]_vars

\* Every call returns, and gives the lock back.
CallsReturn == \A c \in Callers : pc[c] # "idle" ~> pc[c] = "idle"
=============================================================================
