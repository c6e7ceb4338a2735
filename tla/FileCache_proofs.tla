--------------------------- MODULE FileCache_proofs ---------------------------
(***************************************************************************)
(* Theorems about the download cache, for any number of callers, processes *)
(* and source versions, any sizes and workloads, and a source with or      *)
(* without a validator.                                                    *)
(***************************************************************************)
EXTENDS FileCache, TLAPS

Tops == {"idle", "look", "ask", "compare", "lock", "read", "discard", "discardTag"}

\* Between the answer of the source and the record of what was fetched.
Fetching == {"resume", "stage", "seal", "validate", "promote", "clean",
             "cleanTag", "record"}

\* In getFile with the download lock.
Holding(c) == \/ pc[c] \in Fetching \union {"stat", "release"}
              \/ pc[c] \in {"look", "ask", "compare"} /\ phase[c] # "open"

LockInv == /\ \A c, d \in holders : c = d
           /\ \A c \in Callers : Holding(c) => c \in holders

\* Tags and answers name versions the source has served.
OrderInv == tag <= src /\ partTag <= src /\ \A c \in Callers : ver[c] <= src

\* The beginning of what the source serves.
Beginning(x) == Len(x) <= Size[src] /\ \A i \in 1 .. Len(x) : x[i] = src

\* The copy is about to be recorded.
Landed(c) == pc[c] = "record" \/ (pc[c] \in {"clean", "cleanTag"} /\ after[c] = "record")

\* Where a fetch has come: what it has staged is the version it asked for, as
\* long as the source still serves that.
Own(c) ==
    /\ pc[c] \in Fetching => tag <= ver[c]
    /\ pc[c] = "release" => after[c] \in {"idle", "read"}
    /\ pc[c] \in {"clean", "cleanTag"} =>
         /\ after[c] \in {"stage", "failed", "record"}
         /\ after[c] = "stage" => off[c] = 0
    /\ pc[c] = "stage" /\ off[c] > 0 =>
         part # None /\ Len(part) = off[c] /\ (src = ver[c] => Beginning(part))
    /\ pc[c] \in {"seal", "validate", "promote"} =>
         Staged(c) # None /\ (src = ver[c] => Staged(c) = Body(src))
    /\ Landed(c) /\ src = ver[c] /\ copy # None => copy = Body(src)

StageInv == \A c \in Callers : Own(c)

IInv == TypeOK /\ LockInv /\ OrderInv /\ StageInv /\ TagsVouch
--------------------------------------------------------------------------------
(* Contents.                                                                    *)

LEMMA BodyFacts ==
  ASSUME NEW v \in Versions
  PROVE  /\ Body(v) \in Seq(0 .. MaxVersion) /\ Len(Body(v)) = Size[v]
         /\ Size[v] \in Nat \ {0} /\ \A i \in 1 .. Size[v] : Body(v)[i] = v
<1>1. Size[v] \in Nat \ {0} /\ v \in 0 .. MaxVersion
  BY FileCacheAssumption DEF Versions
<1> DEFINE n == Size[v]
<1>2. n \in Nat /\ Body(v) = [i \in 1 .. n |-> v]
  BY <1>1 DEF Body
<1> HIDE DEF n
<1>3. Body(v) \in Seq(0 .. MaxVersion) /\ Len(Body(v)) = n /\ \A i \in 1 .. n : Body(v)[i] = v
  BY <1>1, <1>2
<1>4. QED BY <1>1, <1>3 DEF n

LEMMA NoneIsNoContent == None \notin Seq(0 .. MaxVersion)
  BY FileCacheAssumption

\* A content with every block of it in place is that version's.
LEMMA WholeIsBody ==
  ASSUME NEW v \in Versions, NEW x \in Seq(0 .. MaxVersion),
         Len(x) = Size[v], \A i \in 1 .. Len(x) : x[i] = v
  PROVE  x = Body(v)
<1>1. /\ DOMAIN x = 1 .. Size[v] /\ DOMAIN Body(v) = 1 .. Size[v]
      /\ \A i \in 1 .. Size[v] : x[i] = Body(v)[i]
  BY BodyFacts DEF Body
<1>2. x = [i \in 1 .. Size[v] |-> x[i]] /\ Body(v) = [i \in 1 .. Size[v] |-> v]
  BY <1>1 DEF Body
<1>3. QED BY <1>1, <1>2

\* What n more blocks of the source make of a content.
LEMMA AssembledFacts ==
  ASSUME NEW x \in Seq(0 .. MaxVersion), NEW n \in Nat, NEW v \in Versions
  PROVE  /\ x \o [i \in 1 .. n |-> v] \in Seq(0 .. MaxVersion)
         /\ Len(x \o [i \in 1 .. n |-> v]) = Len(x) + n
         /\ (\A i \in 1 .. Len(x) : x[i] = v) =>
              \A i \in 1 .. Len(x) + n : (x \o [j \in 1 .. n |-> v])[i] = v
<1> DEFINE y == [i \in 1 .. n |-> v]
<1>1. y \in Seq(0 .. MaxVersion) /\ Len(y) = n /\ \A i \in 1 .. n : y[i] = v
  BY FileCacheAssumption DEF Versions
<1> HIDE DEF y
<1>2. x \o y \in Seq(0 .. MaxVersion) /\ Len(x \o y) = Len(x) + n
  BY <1>1
<1>3. \A i \in 1 .. Len(x) + n :
        (x \o y)[i] = IF i <= Len(x) THEN x[i] ELSE y[i - Len(x)]
  BY <1>1
<1>4. ASSUME \A i \in 1 .. Len(x) : x[i] = v, NEW i \in 1 .. Len(x) + n
      PROVE  (x \o y)[i] = v
  BY <1>1, <1>3, <1>4
<1>5. QED BY <1>2, <1>4 DEF y

LEMMA DamagedFacts ==
  ASSUME NEW x \in Seq(0 .. MaxVersion)
  PROVE  Damaged(x) \in Seq(0 .. MaxVersion) /\ (Undamaged(Damaged(x)) => Damaged(x) = x)
<1>1. /\ Len(x) \in Nat /\ 0 \in 0 .. MaxVersion
  BY FileCacheAssumption
<1>2. /\ Damaged(x) \in Seq(0 .. MaxVersion) /\ Len(Damaged(x)) = Len(x)
      /\ \A i \in 1 .. Len(x) : Damaged(x)[i] = 0
  BY <1>1 DEF Damaged
<1>3. ASSUME Undamaged(Damaged(x)) PROVE Damaged(x) = x
  <2>1. Len(x) = 0
    BY <1>1, <1>2, <1>3 DEF Undamaged
  <2>2. Damaged(x) = <<>> /\ x = <<>>
    BY <1>2, <2>1
  <2>3. QED BY <2>2
<1>4. QED BY <1>2, <1>3
--------------------------------------------------------------------------------
LEMMA InitIInv == Init => IInv
<1> SUFFICES ASSUME Init PROVE IInv
  OBVIOUS
<1> USE DEF Init
<1>1. TypeOK
  BY FileCacheAssumption, WorkloadAssumption
  DEF TypeOK, Versions, Contents, Tags, NoTag, Lock!Init, Lock!TypeOK
<1>2. LockInv
  BY DEF LockInv, Holding, Fetching, Lock!Init
<1>3. OrderInv
  BY DEF OrderInv, NoTag
<1>4. StageInv
  BY DEF StageInv, Own, Landed, Fetching
<1>5. TagsVouch
  BY DEF TagsVouch, TagVouches, PartVouches
<1>6. QED BY <1>1, <1>2, <1>3, <1>4, <1>5 DEF IInv
--------------------------------------------------------------------------------
(* Types.                                                                       *)

LocalsOK ==
    /\ pc \in [Callers -> Tops \union Fetching \union {"stat", "release"}]
    /\ phase \in [Callers -> {"open", "locked", "failed"}]
    /\ after \in [Callers -> {"idle", "stage", "failed", "record", "read"}]
    /\ size \in [Callers -> Nat] /\ off \in [Callers -> Nat]
    /\ ver \in [Callers -> Versions]
    /\ ok \in [Callers -> BOOLEAN] /\ second \in [Callers -> BOOLEAN]

HistoryOK ==
    /\ start \in [Callers -> Versions] /\ calm \in [Callers -> Nat]
    /\ barred \in [Callers -> Tags] /\ bySize \in [Callers -> BOOLEAN]
    /\ calls \in [Callers -> Nat] /\ faults \in Nat

DiskOK ==
    /\ src \in Versions
    /\ copy \in Contents /\ part \in Contents /\ resume \in Contents
    /\ tag \in Tags /\ partTag \in Tags
    /\ holders \subseteq Callers /\ rejected \in [Clients -> Tags]

LEMMA TypeParts == TypeOK <=> work \in Workloads /\ LocalsOK /\ HistoryOK /\ DiskOK
  BY DEF TypeOK, LocalsOK, HistoryOK, DiskOK, Tops, Fetching, Lock!TypeOK

LEMMA LocalsStep ==
  ASSUME TypeOK, StageInv, NEW c \in Callers, GetFile(c) \/ Step(c) \/ Failure(c)
  PROVE  LocalsOK'
<1> LocalsOK /\ DiskOK
  BY TypeParts
<1> USE DEF LocalsOK
<1>1. CASE GetFile(c)
  BY <1>1 DEF GetFile, Begin, Goto, Tops
<1>2. ASSUME FetchFails(c) PROVE LocalsOK'
  BY <1>2 DEF FetchFails, Goto, Tops
<1>3. ASSUME NotFresh(c), UNCHANGED <<phase, size, ver, off, ok, second>>
      PROVE  LocalsOK'
  BY <1>3 DEF NotFresh, Goto, Tops
<1>4. ASSUME NEW l \in Tops \union Fetching \union {"stat", "release"}, Goto(c, l),
             UNCHANGED locals
      PROVE  LocalsOK'
  BY <1>4 DEF Goto, locals
<1>5. CASE LookCopy(c)
  <2>1. CASE copy = None
    BY <1>5, <2>1, <1>3 DEF LookCopy
  <2>2. CASE copy # None
    <3>1. Len(copy) \in Nat
      BY <2>2 DEF DiskOK, Contents
    <3>2. QED BY <1>5, <2>2, <3>1 DEF LookCopy, Goto, Tops
  <2>3. QED BY <2>1, <2>2
<1>6. CASE AskSource(c)
  BY <1>6 DEF AskSource, Goto, Tops, DiskOK
<1>7. CASE AskFails(c)
  BY <1>7, <1>3 DEF AskFails
<1>8. CASE Compare(c) \/ CompareUnread(c)
  <2>1. PICK recorded : Decide(c, recorded)
    BY <1>8 DEF Compare, CompareUnread
  <2>2. CASE Fresh(c)
    BY <2>1, <2>2 DEF Decide, Fresh, Goto, Tops
  <2>3. CASE NotFresh(c)
    BY <2>1, <2>3, <1>3 DEF Decide
  <2>4. QED BY <2>1, <2>2, <2>3 DEF Decide
<1>9. CASE AcquireLock(c)
  BY <1>9 DEF AcquireLock, Goto, Tops
<1>10. CASE StatSource(c)
  BY <1>10 DEF StatSource, Goto, Fetching, DiskOK
<1>11. CASE \/ StatRejected(c) \/ StatFails(c) \/ ResumeFails(c) \/ StageInterrupted(c)
            \/ StageFails(c) \/ SealFails(c) \/ PromoteFails(c) \/ RecordFails(c)
  BY <1>2, <1>11 DEF StatRejected, StatFails, ResumeFails, StageInterrupted, StageFails,
                     SealFails, PromoteFails, RecordFails
<1>12. CASE ResumeDiscard(c)
  BY <1>12 DEF ResumeDiscard, Goto, Fetching
<1>13. CASE ResumePoint(c)
  <2>1. ASSUME NEW n \in Nat, ResumeFrom(c, n), UNCHANGED <<phase, size, ver, ok, second>>
        PROVE  LocalsOK'
    BY <2>1 DEF ResumeFrom, Goto, Fetching
  <2>2. part \notin {None, <<>>} => Len(part) \in Nat
    BY DEF DiskOK, Contents
  <2>3. QED BY <1>13, <2>1, <2>2 DEF ResumePoint
<1>14. CASE ValidateRefused(c) \/ ValidateFails(c) \/ Promote(c)
  BY <1>14 DEF ValidateRefused, ValidateFails, Promote, Goto, Fetching
<1>15. CASE Stage(c) \/ Seal(c) \/ ValidateOk(c) \/ Clean(c)
  BY <1>4, <1>15 DEF Stage, Seal, ValidateOk, Clean, Fetching
<1>16. CASE CleanTag(c)
  <2>1. CASE after[c] = "failed"
    BY <1>2, <1>16, <2>1 DEF CleanTag
  <2>2. CASE after[c] # "failed"
    <3>1. Goto(c, after[c]) /\ UNCHANGED locals
      BY <1>16, <2>2 DEF CleanTag
    <3>2. after[c] \in Tops \union Fetching
      BY <2>2 DEF Tops, Fetching
    <3>3. QED BY <1>4, <3>1, <3>2
  <2>3. QED BY <2>1, <2>2
<1>17. CASE Record(c)
  BY <1>17 DEF Record, Goto
<1>18. CASE Release(c)
  <2>1. Goto(c, after[c]) /\ UNCHANGED locals
    BY <1>18 DEF Release
  <2>2. after[c] \in Tops
    BY <1>18 DEF Release, StageInv, Own, Tops
  <2>3. QED BY <1>4, <2>1, <2>2
<1>19. CASE ReadOk(c) \/ ReadRefused(c) \/ ReadFails(c) \/ ReadCancelled(c) \/ DiscardTagFails(c)
             \/ AcquireFails(c)
  BY <1>4, <1>19 DEF ReadOk, ReadRefused, ReadFails, ReadCancelled, DiscardTagFails, AcquireFails, Tops
<1>20. CASE DiscardCopy(c)
  BY <1>4, <1>20 DEF DiscardCopy, Tops
<1>21. CASE DiscardTag(c)
  <2>1. ASSUME Begin(c, TRUE) PROVE LocalsOK'
    BY <2>1 DEF Begin, Goto, Tops
  <2>2. QED BY <1>4, <1>21, <2>1 DEF DiscardTag, Tops
<1>22. QED
  BY <1>1, <1>5, <1>6, <1>7, <1>8, <1>9, <1>10, <1>11, <1>12, <1>13, <1>14, <1>15,
     <1>16, <1>17, <1>18, <1>19, <1>20, <1>21
  DEF Step, Failure

LEMMA CallTypes ==
  ASSUME TypeOK, StageInv, NEW c \in Callers, GetFile(c) \/ Step(c) \/ Failure(c),
         UNCHANGED work
  PROVE  TypeOK'
<1>1. work \in Workloads /\ LocalsOK /\ HistoryOK /\ DiskOK
  BY TypeParts
<1>2. LocalsOK'
  BY LocalsStep
<1>3. ASSUME NEW kind, Fault(kind) PROVE faults' \in Nat
  BY <1>1, <1>3 DEF Fault, HistoryOK
<1>4. HistoryOK'
  <2>1. CASE GetFile(c)
    <3>1. ClientOf[c] \in Clients
      BY FileCacheAssumption
    <3>2. QED BY <1>1, <2>1, <3>1 DEF GetFile, HistoryOK, DiskOK
  <2>2. UNCHANGED begun \/ GetFile(c)
    BY DEF Step, LookCopy, AskSource, Compare, AcquireLock, StatSource, StatRejected,
       ResumePoint, ResumeDiscard, Stage, Seal, ValidateOk, ValidateRefused, Promote,
       Clean, CleanTag, Record, Release, ReadOk, ReadRefused, ReadFails, DiscardCopy, DiscardTag,
       Failure, AskFails, CompareUnread, AcquireFails, StatFails, ResumeFails,
       StageInterrupted, StageFails, SealFails, ValidateFails, PromoteFails, RecordFails,
       ReadCancelled, DiscardTagFails, Decide, history
  <2>3. faults' \in Nat
    <3>1. \/ UNCHANGED faults \/ GetFile(c) \/ \E kind \in {"io", "read", "crash", "damage"} : Fault(kind)
      BY DEF Step, LookCopy, AskSource, Compare, AcquireLock, StatSource, StatRejected,
       ResumePoint, ResumeDiscard, Stage, Seal, ValidateOk, ValidateRefused, Promote,
       Clean, CleanTag, Record, Release, ReadOk, ReadRefused, ReadFails, DiscardCopy, DiscardTag,
       Failure, AskFails, CompareUnread, AcquireFails, StatFails, ResumeFails,
       StageInterrupted, StageFails, SealFails, ValidateFails, PromoteFails, RecordFails,
       ReadCancelled, DiscardTagFails
    <3>2. QED BY <1>1, <1>3, <3>1, <2>1 DEF HistoryOK
  <2>4. bySize' \in [Callers -> BOOLEAN]
    <3>1. CASE LookCopy(c) \/ Compare(c) \/ CompareUnread(c)
      <4>1. \E b \in BOOLEAN : bySize' = [bySize EXCEPT ![c] = b]
        BY <3>1 DEF LookCopy, Compare, CompareUnread, Decide
      <4>2. QED BY <1>1, <4>1 DEF HistoryOK
    <3>2. CASE ~(LookCopy(c) \/ Compare(c) \/ CompareUnread(c))
      <4>1. UNCHANGED bySize
        BY <3>2 DEF Step, AskSource, AcquireLock, StatSource, StatRejected,
           ResumePoint, ResumeDiscard, Stage, Seal, ValidateOk, ValidateRefused, Promote,
           Clean, CleanTag, Record, Release, ReadOk, ReadRefused, ReadFails, DiscardCopy,
           DiscardTag, Failure, AskFails, AcquireFails, StatFails, ResumeFails,
           StageInterrupted, StageFails, SealFails, ValidateFails, PromoteFails,
           RecordFails, ReadCancelled, DiscardTagFails, GetFile, history
      <4>2. QED BY <1>1, <4>1 DEF HistoryOK
    <3>3. QED BY <3>1, <3>2
  <2>5. QED BY <1>1, <2>1, <2>2, <2>3, <2>4 DEF HistoryOK, begun
<1>5. DiskOK'
  <2> USE <1>1 DEF DiskOK
  <2>1. CASE \/ GetFile(c) \/ LookCopy(c) \/ AskSource(c) \/ Compare(c) \/ StatSource(c)
             \/ StatRejected(c) \/ ResumePoint(c) \/ ResumeDiscard(c) \/ ValidateOk(c)
             \/ ReadOk(c) \/ ReadRefused(c)
             \/ AskFails(c) \/ CompareUnread(c) \/ AcquireFails(c) \/ StatFails(c)
             \/ ResumeFails(c) \/ StageFails(c) \/ SealFails(c)
             \/ PromoteFails(c) \/ ReadFails(c) \/ ReadCancelled(c) \/ DiscardTagFails(c)
    <3>1. UNCHANGED <<src, disk, holders, rejected>>
      BY <2>1 DEF GetFile, LookCopy, AskSource, Compare, StatSource, StatRejected,
         ResumePoint, ResumeDiscard, ValidateOk, ReadOk, ReadRefused, ReadFails, AskFails,
         CompareUnread, AcquireFails, StatFails, ResumeFails, StageFails, SealFails,
         ValidateFails, PromoteFails, ReadCancelled, DiscardTagFails, Decide
    <3>2. QED BY <3>1 DEF disk
  <2>2. CASE AcquireLock(c) \/ Release(c)
    BY <2>2 DEF AcquireLock, Release, Lock!Acquire, Lock!Release, disk
  <2>3. ASSUME NEW n \in Nat, Write(c, Assembled(c, n)), pc[c] = "stage",
               UNCHANGED <<src, copy, tag, partTag, holders, rejected>>
        PROVE  DiskOK'
    <3>1. (IF off[c] > 0 THEN part ELSE <<>>) \in Seq(0 .. MaxVersion)
      <4>1. off[c] > 0 => part # None
        BY <2>3 DEF StageInv, Own
      <4>2. <<>> \in Seq(0 .. MaxVersion)
        OBVIOUS
      <4>3. off[c] > 0 => part \in Seq(0 .. MaxVersion)
        BY <4>1 DEF Contents
      <4>4. QED BY <4>2, <4>3
    <3>2. Assembled(c, n) \in Contents
      <4> DEFINE x == IF off[c] > 0 THEN part ELSE <<>>
      <4>1. x \in Seq(0 .. MaxVersion) /\ src \in Versions
        BY <3>1
      <4>2. Assembled(c, n) = x \o [i \in 1 .. n |-> src]
        BY DEF Assembled
      <4> HIDE DEF x
      <4>3. x \o [i \in 1 .. n |-> src] \in Seq(0 .. MaxVersion)
        BY <4>1, AssembledFacts
      <4>4. QED BY <4>2, <4>3 DEF Contents
    <3>3. QED BY <2>3, <3>2 DEF Write
  <2>4. CASE Stage(c) \/ StageInterrupted(c)
    <3>1. Served(c) \in Nat
      BY BodyFacts DEF Served, LocalsOK
    <3>2. \A n \in 0 .. Served(c) : n \in Nat
      BY <3>1
    <3>3. QED BY <2>3, <2>4, <3>1, <3>2 DEF Stage, StageInterrupted
  <2>5. ETag(ver[c]) \in Tags /\ ETag(src) \in Tags /\ NoTag \in Tags /\ None \in Contents
        /\ ver[c] \in Tags
    BY FileCacheAssumption DEF ETag, Tags, Versions, NoTag, Contents, LocalsOK
  <2>6. CASE Seal(c)
    BY <2>5, <2>6 DEF Seal
  <2>7. CASE ValidateRefused(c) \/ ValidateFails(c)
    BY <2>5, <2>7 DEF ValidateRefused, ValidateFails, Reject, disk
  <2>8. CASE Promote(c)
    BY <2>8 DEF Promote, Staged
  <2>9. CASE Clean(c) \/ CleanTag(c)
    BY <2>5, <2>9 DEF Clean, CleanTag
  <2>10. CASE Record(c)
    BY <2>5, <2>10 DEF Record
  <2>11. CASE RecordFails(c)
    BY <2>5, <2>11 DEF RecordFails, disk
  <2>12. CASE DiscardCopy(c)
    BY <2>5, <2>12 DEF DiscardCopy, Reject
  <2>13. CASE DiscardTag(c)
    BY <2>5, <2>13 DEF DiscardTag
  <2>14. QED
    BY <2>1, <2>2, <2>4, <2>6, <2>7, <2>8, <2>9, <2>10, <2>11, <2>12, <2>13 DEF Step, Failure
<1>6. QED
  BY <1>1, <1>2, <1>4, <1>5
  DEF TypeOK, LocalsOK, HistoryOK, DiskOK, Tops, Fetching, Lock!TypeOK
--------------------------------------------------------------------------------
(* The steps that fetch nothing.                                                *)

\* They take from the disk at most the copy or its tag, and end up outside a
\* fetch.
LEMMA QuietStep ==
  ASSUME IInv, TypeOK', LockInv', NEW c \in Callers,
         UNCHANGED <<src, part, partTag, resume>>,
         copy' \in {copy, None}, tag' \in {tag, NoTag},
         ver'[c] <= src, pc'[c] \notin Fetching,
         pc'[c] = "release" => after'[c] \in {"idle", "read"},
         \A d \in Callers : d # c =>
            /\ pc'[d] = pc[d] /\ after'[d] = after[d]
            /\ ver'[d] = ver[d] /\ off'[d] = off[d]
  PROVE  IInv'
<1> USE DEF IInv
<1>1. OrderInv'
  BY DEF OrderInv, NoTag, TypeOK, Versions
<1>2. Own(c)'
  BY DEF Own, Landed, Fetching
<1>3. ASSUME NEW d \in Callers, d # c PROVE Own(d)'
  <2>1. /\ pc'[d] = pc[d] /\ after'[d] = after[d] /\ ver'[d] = ver[d] /\ off'[d] = off[d]
    BY <1>3
  <2>2. tag <= ver[d] => tag' <= ver[d]
    <3>1. ver[d] \in 1 .. MaxVersion /\ MaxVersion \in Nat
      BY FileCacheAssumption DEF TypeOK, Versions
    <3>2. 0 <= ver[d]
      BY <3>1
    <3>3. QED BY <3>2 DEF NoTag
  <2>3. Own(d)
    BY DEF StageInv
  <2>4. Staged(d)' = Staged(d) /\ Beginning(part)' = Beginning(part) /\ Body(src)' = Body(src)
    BY <2>1 DEF Staged, Beginning, Body
  <2>5. Landed(d)' = Landed(d)
    BY <2>1 DEF Landed
  <2>6. /\ pc'[d] \in Fetching => tag' <= ver'[d]
        /\ pc'[d] = "release" => after'[d] \in {"idle", "read"}
        /\ pc'[d] \in {"clean", "cleanTag"} =>
             after'[d] \in {"stage", "failed", "record"} /\ (after'[d] = "stage" => off'[d] = 0)
    BY <2>1, <2>2, <2>3 DEF Own
  <2>7. pc'[d] = "stage" /\ off'[d] > 0 =>
          part' # None /\ Len(part') = off'[d] /\ (src' = ver'[d] => Beginning(part)')
    BY <2>1, <2>3, <2>4 DEF Own
  <2>8. pc'[d] \in {"seal", "validate", "promote"} =>
          Staged(d)' # None /\ (src' = ver'[d] => Staged(d)' = Body(src)')
    BY <2>1, <2>3, <2>4 DEF Own
  <2>9. Landed(d)' /\ src' = ver'[d] /\ copy' # None => copy' = Body(src)'
    BY <2>1, <2>3, <2>4, <2>5 DEF Own
  <2>10. QED BY <2>6, <2>7, <2>8, <2>9 DEF Own
<1>4. TagsVouch'
  <2>1. 0 # src
    BY DEF TypeOK, Versions
  <2>2. TagVouches'
    BY <2>1 DEF TagsVouch, TagVouches, NoTag
  <2>3. PartVouches'
    BY DEF TagsVouch, PartVouches
  <2>4. QED BY <2>2, <2>3 DEF TagsVouch
<1>5. QED BY <1>1, <1>2, <1>3, <1>4 DEF StageInv

\* A caller with the lock, on the disk or the source, on its own.
LEMMA HolderStep ==
  ASSUME IInv, TypeOK', NEW c \in Callers, Holding(c),
         UNCHANGED <<src, holders>>,
         \A d \in Callers : d # c =>
            /\ pc'[d] = pc[d] /\ phase'[d] = phase[d] /\ after'[d] = after[d]
            /\ ver'[d] = ver[d],
         Own(c)', OrderInv', TagsVouch'
  PROVE  IInv'
<1> USE DEF IInv
<1>1. c \in holders /\ \A d \in Callers : Holding(d) => d = c
  BY DEF LockInv
<1>2. LockInv'
  BY <1>1 DEF LockInv, Holding
<1>3. ASSUME NEW d \in Callers, d # c PROVE Own(d)'
  <2>1. pc'[d] \notin Fetching \union {"release"}
    BY <1>1, <1>3 DEF Holding
  <2>2. QED BY <2>1 DEF Own, Landed, Fetching
<1>4. QED BY <1>2, <1>3 DEF StageInv

\* What such steps do to a caller's own place.
LEMMA QuietCall ==
  ASSUME IInv, TypeOK', NEW c \in Callers,
         \/ GetFile(c) \/ LookCopy(c) \/ AskSource(c) \/ Compare(c) \/ AcquireLock(c)
         \/ StatRejected(c) \/ Release(c) \/ ReadOk(c) \/ ReadRefused(c)
         \/ DiscardCopy(c) \/ DiscardTag(c)
         \/ AskFails(c) \/ CompareUnread(c) \/ AcquireFails(c) \/ StatFails(c)
         \/ ResumeFails(c) \/ StageFails(c) \/ SealFails(c)
         \/ PromoteFails(c) \/ RecordFails(c) \/ ReadFails(c) \/ ReadCancelled(c) \/ DiscardTagFails(c)
  PROVE  IInv'
<1> USE DEF IInv
<1>1. LocalsOK /\ DiskOK
  BY TypeParts
<1>2. ver[c] <= src /\ src <= src
  BY DEF OrderInv, TypeOK, Versions
<1> DEFINE Others == \A d \in Callers : d # c =>
              /\ pc'[d] = pc[d] /\ phase'[d] = phase[d] /\ after'[d] = after[d]
              /\ ver'[d] = ver[d] /\ off'[d] = off[d]
           Place(l) == pc'[c] = l
           DiskKept == UNCHANGED <<src, copy, tag, part, partTag, resume>>
\* A step that keeps the lock as it was, from one place to another.
<1>3. ASSUME UNCHANGED <<src, part, partTag, resume, holders>>, Others,
             copy' \in {copy, None}, tag' \in {tag, NoTag}, ver'[c] <= src,
             pc'[c] \notin Fetching, pc'[c] = "release" => after'[c] \in {"idle", "read"},
             Holding(c)' => Holding(c)
      PROVE  IInv'
  <2>1. LockInv'
    BY <1>3 DEF LockInv, Holding
  <2>2. QED BY <1>3, <2>1, QuietStep
<1>4. ASSUME FetchFails(c), DiskKept, UNCHANGED holders, Holding(c) PROVE IInv'
  <2>1. pc'[c] = "look" /\ phase'[c] = "failed" /\ ver' = ver
    BY <1>1, <1>4 DEF FetchFails, Goto, LocalsOK
  <2>2. Others
    BY <1>1, <1>4 DEF FetchFails, Goto, LocalsOK
  <2>3. QED BY <1>2, <1>3, <1>4, <2>1, <2>2 DEF Fetching
<1>5. CASE \/ StatRejected(c) \/ StatFails(c) \/ ResumeFails(c) \/ StageFails(c)
           \/ SealFails(c) \/ PromoteFails(c) \/ RecordFails(c)
  <2>1. FetchFails(c) /\ UNCHANGED <<src, disk, holders>>
        /\ pc[c] \in {"stat", "resume", "stage", "seal", "promote", "record"}
    BY <1>5 DEF StatRejected, StatFails, ResumeFails, StageFails, SealFails, PromoteFails,
                RecordFails
  <2>2. QED BY <1>4, <2>1 DEF disk, Holding, Fetching
<1>6. ASSUME NotFresh(c), DiskKept, UNCHANGED <<holders, phase, ver, off>>,
             pc[c] \in {"look", "ask", "compare"}
      PROVE  IInv'
  <2>1. /\ Others /\ after'[c] = "idle"
        /\ pc'[c] = CASE phase[c] = "open" -> "lock" [] phase[c] = "locked" -> "stat"
                      [] phase[c] = "failed" -> "release"
    BY <1>1, <1>6 DEF NotFresh, Goto, LocalsOK
  <2>2. /\ phase[c] = "open" => pc'[c] = "lock"
        /\ phase[c] = "locked" => pc'[c] = "stat"
        /\ phase[c] = "failed" => pc'[c] = "release"
        /\ phase[c] \in {"open", "locked", "failed"}
    BY <1>1, <2>1 DEF LocalsOK
  <2>3. pc'[c] \in {"lock", "stat", "release"} /\ (pc'[c] # "lock" => phase[c] # "open")
    BY <2>2
  <2>4. pc'[c] \notin Fetching /\ (Holding(c)' => Holding(c))
    BY <1>6, <2>3 DEF Holding, Fetching
  <2>5. QED BY <1>2, <1>3, <1>6, <2>1, <2>4
<1>7. ASSUME NEW l, Goto(c, l), l \in Tops, UNCHANGED <<src, part, partTag, resume, holders>>,
             UNCHANGED <<phase, after, off>>, copy' \in {copy, None}, tag' \in {tag, NoTag},
             \A d \in Callers : d # c => ver'[d] = ver[d], ver'[c] <= src,
             l \in {"look", "ask", "compare"} => pc[c] \in {"look", "ask", "compare"}
      PROVE  IInv'
  <2>1. pc'[c] = l /\ \A d \in Callers : d # c => pc'[d] = pc[d]
    BY <1>1, <1>7 DEF Goto, LocalsOK
  <2>2. pc'[c] \notin Fetching /\ pc'[c] # "release" /\ (Holding(c)' => Holding(c))
    BY <1>7, <2>1 DEF Holding, Fetching, Tops
  <2>3. QED BY <1>3, <1>7, <2>1, <2>2
<1>8. ASSUME NEW again, Begin(c, again), UNCHANGED <<src, copy, part, partTag, resume, holders>>,
             tag' \in {tag, NoTag}
      PROVE  IInv'
  <2>1. pc'[c] = "look" /\ phase'[c] = "open" /\ ver' = ver /\ Others
    BY <1>1, <1>8 DEF Begin, Goto, LocalsOK
  <2>2. QED BY <1>2, <1>3, <1>8, <2>1 DEF Holding, Fetching
<1>9. CASE GetFile(c) \/ DiscardTag(c)
  <2>1. CASE GetFile(c)
    BY <1>8, <2>1 DEF GetFile, disk
  <2>2. CASE DiscardTag(c)
    <3>1. CASE Goto(c, "idle") /\ UNCHANGED locals
      BY <1>2, <1>7, <2>2, <3>1 DEF DiscardTag, locals, Tops
    <3>2. CASE Begin(c, TRUE)
      BY <1>8, <2>2, <3>2 DEF DiscardTag
    <3>3. QED BY <2>2, <3>1, <3>2 DEF DiscardTag
  <2>3. QED BY <1>9, <2>1, <2>2
<1>10. CASE LookCopy(c)
  <2>1. CASE copy = None
    BY <1>6, <1>10, <2>1 DEF LookCopy, disk
  <2>2. CASE copy # None
    BY <1>2, <1>7, <1>10, <2>2 DEF LookCopy, disk, Tops
  <2>3. QED BY <2>1, <2>2
<1>11. CASE AskSource(c)
  <2>1. ver'[c] = src /\ \A d \in Callers : d # c => ver'[d] = ver[d]
    BY <1>1, <1>11 DEF AskSource, LocalsOK
  <2>2. QED BY <1>2, <1>7, <1>11, <2>1 DEF AskSource, disk, Tops
<1>12. CASE AskFails(c)
  BY <1>6, <1>12 DEF AskFails, disk
<1>13. CASE Compare(c) \/ CompareUnread(c)
  <2>1. PICK recorded : Decide(c, recorded)
    BY <1>13 DEF Compare, CompareUnread
  <2>2. CASE NotFresh(c)
    BY <1>6, <2>1, <2>2 DEF Decide, disk
  <2>3. CASE Fresh(c)
    <3>1. /\ pc'[c] = IF phase[c] = "open" THEN "read" ELSE "release"
          /\ after'[c] = "read" /\ Others
      BY <1>1, <2>1, <2>3 DEF Fresh, Goto, Decide, LocalsOK
    <3>2. pc'[c] \notin Fetching /\ (Holding(c)' => Holding(c))
      BY <2>1, <3>1 DEF Decide, Holding, Fetching
    <3>3. QED BY <1>2, <1>3, <2>1, <3>1, <3>2 DEF Decide, disk
  <2>4. QED BY <2>1, <2>2, <2>3 DEF Decide
<1>14. CASE AcquireLock(c)
  <2>1. /\ holders = {} /\ holders' = {c} /\ pc'[c] = "look" /\ ver' = ver /\ Others
    BY <1>1, <1>14 DEF AcquireLock, Lock!Acquire, Goto, LocalsOK
  <2>2. LockInv'
    BY <2>1 DEF LockInv, Holding
  <2>3. QED BY <1>2, <1>14, <2>1, <2>2, QuietStep DEF AcquireLock, disk, Fetching
<1>15. CASE Release(c)
  <2>1. /\ holders' = holders \ {c} /\ pc'[c] = after[c] /\ UNCHANGED locals /\ Others
        /\ after[c] \in {"idle", "read"}
    BY <1>1, <1>15 DEF Release, Lock!Release, Goto, LocalsOK, StageInv, Own, locals
  <2>2. LockInv'
    BY <2>1 DEF LockInv, Holding, Fetching
  <2>3. QED BY <1>2, <1>15, <2>1, <2>2, QuietStep DEF Release, disk, Fetching, locals
<1>16. CASE ReadOk(c) \/ ReadRefused(c) \/ ReadFails(c) \/ ReadCancelled(c) \/ DiscardTagFails(c)
            \/ AcquireFails(c)
  BY <1>2, <1>7, <1>16
  DEF ReadOk, ReadRefused, ReadFails, ReadCancelled, DiscardTagFails, AcquireFails, disk, locals, Tops
<1>17. CASE DiscardCopy(c)
  BY <1>2, <1>7, <1>17 DEF DiscardCopy, locals, Tops
<1>18. QED
  BY <1>5, <1>9, <1>10, <1>11, <1>12, <1>13, <1>14, <1>15, <1>16, <1>17
--------------------------------------------------------------------------------
(* A fetch.                                                                     *)

\* Steps that leave the disk alone.
LEMMA AskingSteps ==
  ASSUME IInv, TypeOK', NEW c \in Callers,
         \/ StatSource(c) \/ ResumePoint(c) \/ ResumeDiscard(c)
         \/ ValidateOk(c) \/ ValidateRefused(c) \/ ValidateFails(c)
  PROVE  IInv'
<1> USE DEF IInv
<1>1. LocalsOK /\ DiskOK /\ Own(c) /\ FileCacheAssumption
  BY TypeParts, FileCacheAssumption DEF StageInv
<1>2. /\ Holding(c) /\ UNCHANGED <<src, disk, holders>>
      /\ \A d \in Callers : d # c =>
            /\ pc'[d] = pc[d] /\ phase'[d] = phase[d] /\ after'[d] = after[d]
            /\ ver'[d] = ver[d]
      /\ ver'[c] \in {ver[c], src}
  BY <1>1 DEF StatSource, ResumePoint, ResumeFrom, ResumeDiscard, ValidateOk, ValidateRefused,
     ValidateFails, Holding, Fetching, Goto, LocalsOK, locals
<1>3. OrderInv'
  <2>1. \A d \in Callers : ver'[d] <= src
    BY <1>2 DEF OrderInv, TypeOK, Versions
  <2>2. QED BY <1>2, <2>1 DEF OrderInv, disk
<1>4. TagsVouch'
  BY <1>2 DEF TagsVouch, TagVouches, PartVouches, Undamaged, Body, disk
<1>5. Body(src)' = Body(src) /\ Beginning(part)' = Beginning(part)
  BY <1>2 DEF Body, Beginning, disk
<1>6. Own(c)'
  <2>1. CASE StatSource(c)
    <3>1. pc'[c] = "resume" /\ ver'[c] = src
      BY <1>1, <2>1 DEF StatSource, Goto, LocalsOK
    <3>2. QED BY <1>2, <3>1 DEF Own, Landed, OrderInv, disk
  <2>2. CASE ResumeDiscard(c)
    <3>1. pc'[c] = "clean" /\ after'[c] = "stage" /\ off'[c] = 0 /\ ver'[c] = ver[c]
      BY <1>1, <2>2 DEF ResumeDiscard, Goto, LocalsOK
    <3>2. tag <= ver[c]
      BY <1>1, <2>2 DEF ResumeDiscard, Own, Fetching
    <3>3. QED BY <1>2, <3>1, <3>2 DEF Own, Landed, disk
  <2>3. CASE ResumePoint(c)
    <3>1. tag <= ver[c] /\ ver'[c] = ver[c]
      BY <1>1, <2>3 DEF ResumePoint, Own, Fetching
    <3>2. pc'[c] = "stage"
      BY <1>1, <2>3 DEF ResumePoint, ResumeFrom, Goto, LocalsOK
    <3>3. \/ off'[c] = 0
          \/ /\ part # None /\ Len(part) = off'[c]
             /\ partTag # NoTag /\ partTag = ETag(ver[c])
      BY <1>1, <2>3 DEF ResumePoint, ResumeFrom, Resumable, LocalsOK
    <3>4. off'[c] > 0 => part # None /\ Len(part) = off'[c] /\ (src = ver[c] => Beginning(part))
      BY <3>3 DEF ETag, NoTag, TagsVouch, PartVouches, Beginning
    <3>5. QED BY <1>2, <1>5, <3>1, <3>2, <3>4 DEF Own, Landed, disk
  <2>4. CASE ValidateOk(c)
    <3>1. pc'[c] = "promote" /\ pc[c] = "validate" /\ ver'[c] = ver[c]
          /\ off'[c] = off[c]
      BY <1>1, <2>4 DEF ValidateOk, Goto, LocalsOK, locals
    <3>2. Staged(c)' = Staged(c)
      BY <1>2, <3>1 DEF Staged, disk
    <3>3. QED BY <1>1, <1>2, <1>5, <3>1, <3>2 DEF Own, Landed, Fetching, disk
  <2>5. CASE ValidateRefused(c) \/ ValidateFails(c)
    <3>1. pc'[c] = "clean" /\ after'[c] = "failed" /\ pc[c] = "validate" /\ ver'[c] = ver[c]
      BY <1>1, <2>5 DEF ValidateRefused, ValidateFails, Goto, LocalsOK
    <3>2. QED BY <1>1, <1>2, <3>1 DEF Own, Landed, Fetching, disk
  <2>6. QED BY <2>1, <2>2, <2>3, <2>4, <2>5
<1>7. QED BY <1>2, <1>3, <1>4, <1>6, HolderStep

\* What the transfer puts together: the whole version, if the source still
\* serves the one asked for.
LEMMA StagedIsWhole ==
  ASSUME IInv, NEW c \in Callers, pc[c] = "stage", NEW n \in 0 .. Served(c)
  PROVE  /\ Assembled(c, n) \in Seq(0 .. MaxVersion)
         /\ src = ver[c] \/ off[c] = 0 =>
              /\ Beginning(Assembled(c, n))
              /\ n = Served(c) => Assembled(c, n) = Body(src)
<1> DEFINE x == IF off[c] > 0 THEN part ELSE <<>>
<1>1. src \in Versions /\ Size[src] \in Nat /\ off[c] \in Nat /\ part \in Contents
  BY BodyFacts DEF IInv, TypeOK
<1>2. /\ Served(c) \in Nat /\ n \in Nat /\ n <= Served(c)
      /\ off[c] <= Size[src] => Served(c) = Size[src] - off[c]
  BY <1>1 DEF Served
<1>3. x \in Seq(0 .. MaxVersion) /\ Len(x) = off[c]
  <2>1. CASE off[c] = 0
    BY <2>1
  <2>2. CASE off[c] > 0
    BY <1>1, <2>2 DEF IInv, StageInv, Own, Contents
  <2>3. QED BY <1>1, <2>1, <2>2
<1>4. Assembled(c, n) = x \o [i \in 1 .. n |-> src]
  BY DEF Assembled
<1>5. src = ver[c] \/ off[c] = 0 =>
        off[c] <= Size[src] /\ \A i \in 1 .. Len(x) : x[i] = src
  <2>1. CASE off[c] = 0
    BY <1>1, <2>1
  <2>2. CASE off[c] > 0
    BY <1>1, <2>2 DEF IInv, StageInv, Own, Beginning
  <2>3. QED BY <1>1, <2>1, <2>2
<1> HIDE DEF x
<1>6. /\ Assembled(c, n) \in Seq(0 .. MaxVersion) /\ Len(Assembled(c, n)) = off[c] + n
      /\ (\A i \in 1 .. Len(x) : x[i] = src) =>
           \A i \in 1 .. off[c] + n : Assembled(c, n)[i] = src
  <2>1. /\ x \o [i \in 1 .. n |-> src] \in Seq(0 .. MaxVersion)
        /\ Len(x \o [i \in 1 .. n |-> src]) = Len(x) + n
        /\ (\A i \in 1 .. Len(x) : x[i] = src) =>
             \A i \in 1 .. Len(x) + n : (x \o [j \in 1 .. n |-> src])[i] = src
    BY <1>1, <1>2, <1>3, AssembledFacts
  <2>2. QED BY <1>3, <1>4, <2>1
<1>7. ASSUME src = ver[c] \/ off[c] = 0
      PROVE  /\ Beginning(Assembled(c, n))
             /\ n = Served(c) => Assembled(c, n) = Body(src)
  <2>1. /\ Len(Assembled(c, n)) <= Size[src] /\ (n = Served(c) => Len(Assembled(c, n)) = Size[src])
    BY <1>1, <1>2, <1>5, <1>6, <1>7
  <2>2. \A i \in 1 .. Len(Assembled(c, n)) : Assembled(c, n)[i] = src
    BY <1>5, <1>6, <1>7
  <2>3. QED BY <1>1, <1>6, <2>1, <2>2, WholeIsBody DEF Beginning
<1>8. QED BY <1>6, <1>7

\* The transfer, whole or not.
LEMMA TransferSteps ==
  ASSUME IInv, TypeOK', NEW c \in Callers, Stage(c) \/ StageInterrupted(c)
  PROVE  IInv'
<1> USE DEF IInv
<1>1. LocalsOK /\ DiskOK /\ Own(c)
  BY TypeParts DEF StageInv
<1>2. /\ pc[c] = "stage" /\ UNCHANGED <<src, copy, tag, partTag, holders, ver, off, after>>
      /\ \A d \in Callers : d # c => pc'[d] = pc[d] /\ phase'[d] = phase[d]
      /\ Holding(c) /\ tag <= ver[c]
  <2>1. /\ pc[c] = "stage" /\ UNCHANGED <<src, copy, tag, partTag, holders, ver, off, after>>
        /\ \A d \in Callers : d # c => pc'[d] = pc[d] /\ phase'[d] = phase[d]
    <3>1. CASE Stage(c)
      BY <1>1, <3>1 DEF Stage, Goto, LocalsOK, locals
    <3>2. CASE StageInterrupted(c)
      BY <1>1, <3>2 DEF StageInterrupted, FetchFails, Goto, LocalsOK
    <3>3. QED BY <3>1, <3>2
  <2>2. QED BY <1>1, <2>1 DEF Holding, Fetching, Own
<1>3. PICK n \in 0 .. Served(c) :
        /\ Write(c, Assembled(c, n))
        /\ \/ pc'[c] = "look"
           \/ pc'[c] = "seal" /\ n = Served(c)
  <2>1. Served(c) \in Nat
    BY BodyFacts DEF Served, TypeOK
  <2>2. CASE Stage(c)
    BY <1>1, <2>1, <2>2 DEF Stage, Goto, LocalsOK
  <2>3. CASE StageInterrupted(c)
    BY <1>1, <2>3 DEF StageInterrupted, FetchFails, Goto, LocalsOK
  <2>4. QED BY <2>2, <2>3
<1>4. /\ Assembled(c, n) \in Seq(0 .. MaxVersion)
      /\ src = ver[c] \/ off[c] = 0 =>
           /\ Beginning(Assembled(c, n))
           /\ n = Served(c) => Assembled(c, n) = Body(src)
  BY <1>2, StagedIsWhole
<1>5. OrderInv'
  BY <1>2 DEF OrderInv
<1>6. Body(src)' = Body(src)
  BY <1>2 DEF Body
<1>7. TagsVouch'
  <2>1. TagVouches'
    BY <1>2, <1>6 DEF TagsVouch, TagVouches, Undamaged
  <2>2. PartVouches'
    <3>1. CASE off[c] > 0
      BY <1>2, <1>3, <3>1 DEF Write, TagsVouch, PartVouches
    <3>2. CASE ~(off[c] > 0)
      BY <1>1, <1>2, <1>3, <1>4, <3>2 DEF Write, PartVouches, Beginning, LocalsOK
    <3>3. QED BY <3>1, <3>2
  <2>3. QED BY <2>1, <2>2 DEF TagsVouch
<1>8. Own(c)'
  <2>1. CASE pc'[c] = "look"
    BY <2>1 DEF Own, Landed, Fetching
  <2>2. CASE pc'[c] = "seal" /\ n = Served(c)
    <3>1. Staged(c)' = Assembled(c, n)
      BY <1>2, <1>3 DEF Staged, Write
    <3>2. Staged(c)' # None /\ (src = ver[c] => Staged(c)' = Body(src))
      BY <1>4, <2>2, <3>1, NoneIsNoContent
    <3>3. QED BY <1>2, <1>6, <2>2, <3>2 DEF Own, Landed, Fetching
  <2>3. QED BY <1>3, <2>1, <2>2
<1>9. QED BY <1>2, <1>5, <1>7, <1>8, HolderStep

\* The seal, the promotion and the cleaning up.
LEMMA LandingSteps ==
  ASSUME IInv, TypeOK', NEW c \in Callers,
         Seal(c) \/ Promote(c) \/ Clean(c) \/ CleanTag(c) \/ Record(c)
  PROVE  IInv'
<1> USE DEF IInv
<1>1. LocalsOK /\ DiskOK /\ Own(c) /\ src \in Nat
  BY TypeParts DEF StageInv, DiskOK, Versions
<1>2. /\ Holding(c) /\ UNCHANGED <<src, holders, ver, off>>
      /\ pc[c] \in Fetching /\ tag <= ver[c] /\ ver[c] <= src /\ ver[c] \in 1 .. MaxVersion
      /\ \A d \in Callers : d # c =>
            pc'[d] = pc[d] /\ phase'[d] = phase[d] /\ after'[d] = after[d]
  <2>1. pc[c] \in {"seal", "promote", "clean", "cleanTag", "record"}
        /\ UNCHANGED <<src, holders, ver, off>>
    BY DEF Seal, Promote, Clean, CleanTag, Record, FetchFails, locals
  <2>2. \A d \in Callers : d # c =>
            pc'[d] = pc[d] /\ phase'[d] = phase[d] /\ after'[d] = after[d]
    <3>1. CASE Seal(c) \/ Promote(c) \/ Clean(c) \/ Record(c)
      BY <1>1, <3>1 DEF Seal, Promote, Clean, Record, Goto, LocalsOK, locals
    <3>2. CASE CleanTag(c)
      BY <1>1, <3>2 DEF CleanTag, FetchFails, Goto, LocalsOK, locals
    <3>3. QED BY <3>1, <3>2
  <2>3. Holding(c) /\ pc[c] \in Fetching /\ tag <= ver[c]
    BY <1>1, <2>1 DEF Holding, Fetching, Own
  <2>4. ver[c] <= src /\ ver[c] \in 1 .. MaxVersion
    BY <1>1 DEF OrderInv, LocalsOK, Versions
  <2>5. QED BY <2>1, <2>2, <2>3, <2>4
<1>3. Body(src)' = Body(src)
  BY <1>2 DEF Body
<1>4. ETag(ver[c]) \in {ver[c], 0} /\ (ETag(ver[c]) = src => src = ver[c]) /\ ETag(ver[c]) <= src
  BY <1>1, <1>2 DEF ETag, NoTag, DiskOK, Versions
<1>5. ASSUME OrderInv', TagsVouch', Own(c)' PROVE IInv'
  BY <1>2, <1>5, HolderStep
<1>6. CASE Seal(c)
  <2>1. /\ pc[c] = "seal" /\ UNCHANGED <<copy, tag, part, resume, after>>
        /\ pc'[c] \in {"validate", "promote"}
        /\ partTag' = partTag \/ (off[c] = 0 /\ partTag' = ETag(ver[c]))
    BY <1>1, <1>6 DEF Seal, Goto, LocalsOK, locals
  <2>2. OrderInv'
    BY <1>2, <1>4, <2>1 DEF OrderInv
  <2>3. Staged(c)' = Staged(c) /\ (off[c] = 0 => Staged(c) = part)
    BY <1>1, <1>2, <2>1 DEF Staged, LocalsOK
  <2>4. Own(c)'
    BY <1>1, <1>2, <1>3, <2>1, <2>3 DEF Own, Landed, Fetching
  <2>5. TagVouches'
    BY <1>2, <1>3, <2>1 DEF TagsVouch, TagVouches, Undamaged
  <2>6. PartVouches'
    <3>1. CASE partTag' = partTag
      BY <1>2, <2>1, <3>1 DEF TagsVouch, PartVouches
    <3>2. CASE off[c] = 0 /\ partTag' = ETag(ver[c])
      <4>1. partTag' = src => part = Body(src)
        BY <1>1, <1>4, <2>1, <2>3, <3>2 DEF Own
      <4>2. src \in Versions
        BY <1>1 DEF DiskOK
      <4>3. QED BY <1>2, <2>1, <4>1, <4>2, BodyFacts DEF PartVouches
    <3>3. QED BY <2>1, <3>1, <3>2
  <2>7. QED BY <1>5, <2>2, <2>4, <2>5, <2>6 DEF TagsVouch
<1>7. CASE Promote(c)
  <2>1. /\ pc[c] = "promote" /\ UNCHANGED <<tag, part, partTag, resume>>
        /\ copy' = Staged(c) /\ pc'[c] = "clean" /\ after'[c] = "record"
    BY <1>1, <1>7 DEF Promote, Goto, LocalsOK
  <2>2. OrderInv'
    BY <1>2, <2>1 DEF OrderInv
  <2>3. src = ver[c] => copy' = Body(src)
    BY <1>1, <2>1 DEF Own
  <2>4. Own(c)'
    BY <1>2, <1>3, <2>1, <2>3 DEF Own, Landed, Fetching
  <2>5. TagVouches'
    <3>1. tag = src => src = ver[c]
      BY <1>1, <1>2
    <3>2. QED BY <1>2, <1>3, <2>1, <2>3, <3>1 DEF TagVouches
  <2>6. PartVouches'
    BY <1>2, <2>1 DEF TagsVouch, PartVouches
  <2>7. QED BY <1>5, <2>2, <2>4, <2>5, <2>6 DEF TagsVouch
<1>8. ASSUME UNCHANGED <<copy, tag>>, part' \in {part, None}, partTag' \in {partTag, NoTag}, Own(c)'
      PROVE  IInv'
  <2>1. OrderInv'
    BY <1>1, <1>2, <1>8 DEF OrderInv, NoTag
  <2>2. TagVouches'
    BY <1>2, <1>3, <1>8 DEF TagsVouch, TagVouches, Undamaged
  <2>3. PartVouches'
    BY <1>1, <1>2, <1>8 DEF TagsVouch, PartVouches, NoTag, DiskOK, Versions
  <2>4. QED BY <1>5, <1>8, <2>1, <2>2, <2>3 DEF TagsVouch
<1>9. CASE Clean(c)
  <2>1. /\ pc[c] = "clean" /\ UNCHANGED <<copy, tag, partTag, after>>
        /\ part' \in {part, None} /\ pc'[c] = "cleanTag"
    BY <1>1, <1>9 DEF Clean, Goto, LocalsOK, locals
  <2>2. Own(c)'
    BY <1>1, <1>2, <1>3, <2>1 DEF Own, Landed, Fetching
  <2>3. QED BY <1>8, <2>1, <2>2
<1>10. CASE CleanTag(c)
  <2>1. /\ pc[c] = "cleanTag" /\ UNCHANGED <<copy, tag, part>>
        /\ partTag' \in {partTag, NoTag}
        /\ after[c] \in {"stage", "failed", "record"} /\ (after[c] = "stage" => off[c] = 0)
        /\ after'[c] = after[c]
        /\ pc'[c] = IF after[c] = "failed" THEN "look" ELSE after[c]
    BY <1>1, <1>10 DEF CleanTag, FetchFails, Goto, LocalsOK, locals, Own
  <2>2. Own(c)'
    BY <1>1, <1>2, <1>3, <2>1 DEF Own, Landed, Fetching
  <2>3. QED BY <1>8, <2>1, <2>2
<1>11. CASE Record(c)
  <2>1. /\ pc[c] = "record" /\ UNCHANGED <<copy, part, partTag>>
        /\ tag' = tag \/ tag' = ETag(ver[c])
        /\ pc'[c] = "release" /\ after'[c] = "read"
    BY <1>1, <1>11 DEF Record, Goto, LocalsOK
  <2>2. OrderInv'
    BY <1>2, <1>4, <2>1 DEF OrderInv
  <2>3. Own(c)'
    BY <2>1 DEF Own, Landed, Fetching
  <2>4. TagVouches'
    <3>1. src = ver[c] /\ copy # None => copy = Body(src)
      BY <1>1, <2>1 DEF Own, Landed
    <3>2. CASE tag' = tag
      BY <1>2, <1>3, <2>1, <3>2 DEF TagsVouch, TagVouches, Undamaged
    <3>3. CASE tag' = ETag(ver[c])
      BY <1>2, <1>3, <1>4, <2>1, <3>1, <3>3 DEF TagVouches
    <3>4. QED BY <2>1, <3>2, <3>3
  <2>5. PartVouches'
    BY <1>2, <2>1 DEF TagsVouch, PartVouches
  <2>6. QED BY <1>5, <2>2, <2>3, <2>4, <2>5 DEF TagsVouch
<1>12. QED BY <1>6, <1>7, <1>9, <1>10, <1>11
--------------------------------------------------------------------------------
(* The world outside.                                                           *)

LEMMA WorldStep ==
  ASSUME IInv, UNCHANGED work, Publish \/ Damage \/ \E k \in Clients : Crash(k)
  PROVE  IInv'
<1> USE DEF IInv
<1>1. LocalsOK /\ HistoryOK /\ DiskOK /\ work \in Workloads
  BY TypeParts
<1>2. CASE Publish
  <2>1. /\ src' = src + 1 /\ src' \in Versions /\ src \in Nat
        /\ UNCHANGED <<work, disk, holders, rejected, pc, locals, history, faults>>
    BY <1>1, <1>2, FileCacheAssumption DEF Publish, DiskOK, Versions
  <2>2. TypeOK'
    BY <2>1 DEF TypeOK, Lock!TypeOK, disk, locals, history, begun
  <2>3. \A v \in Tags : v <= src => v <= src' /\ v # src'
    BY <1>1, <2>1 DEF Tags
  <2>4. /\ tag \in Tags /\ partTag \in Tags /\ \A c \in Callers : ver[c] \in Tags
    BY <1>1 DEF DiskOK, LocalsOK, Tags, Versions
  <2>5. /\ tag # src' /\ partTag # src' /\ tag <= src' /\ partTag <= src'
        /\ \A c \in Callers : ver[c] <= src' /\ ver[c] # src'
    BY <2>3, <2>4 DEF OrderInv
  <2>6. LockInv' /\ OrderInv'
    BY <2>1, <2>5 DEF LockInv, Holding, OrderInv, disk, locals
  <2>7. TagsVouch'
    BY <2>1, <2>5 DEF TagsVouch, TagVouches, PartVouches, disk
  <2>8. StageInv'
    <3>1. ASSUME NEW c \in Callers PROVE Own(c)'
      <4>1. Own(c) /\ Staged(c)' = Staged(c)
        BY <2>1 DEF StageInv, Staged, disk, locals
      <4>2. QED BY <2>1, <2>5, <4>1 DEF Own, Landed, disk, locals
    <3>2. QED BY <3>1 DEF StageInv
  <2>9. QED BY <2>2, <2>6, <2>7, <2>8
<1>3. CASE Damage
  <2>1. /\ \A c \in Callers : pc[c] = "idle"
        /\ copy \in Seq(0 .. MaxVersion) /\ copy' = Damaged(copy) /\ faults' \in Nat
        /\ UNCHANGED <<work, src, tag, part, partTag, resume, holders, rejected, pc, locals,
                        history>>
    BY <1>1, <1>3 DEF Damage, Fault, DiskOK, Contents, HistoryOK
  <2>2. Damaged(copy) \in Seq(0 .. MaxVersion) /\ (Undamaged(Damaged(copy)) => Damaged(copy) = copy)
    BY <2>1, DamagedFacts
  <2>3. TypeOK'
    BY <2>1, <2>2 DEF TypeOK, Lock!TypeOK, Contents, locals, history, begun
  <2>4. LockInv' /\ OrderInv'
    BY <2>1 DEF LockInv, Holding, OrderInv, locals
  <2>5. StageInv'
    BY <2>1 DEF StageInv, Own, Landed, Fetching
  <2>6. TagVouches'
    <3>1. Undamaged(copy)' => copy' = copy
      BY <2>1, <2>2 DEF Undamaged
    <3>2. copy # None /\ Body(src)' = Body(src)
      BY <2>1, NoneIsNoContent DEF Body
    <3>3. QED BY <2>1, <3>1, <3>2 DEF TagsVouch, TagVouches, Undamaged
  <2>7. PartVouches'
    BY <2>1 DEF TagsVouch, PartVouches
  <2>8. QED BY <2>3, <2>4, <2>5, <2>6, <2>7 DEF TagsVouch
<1>4. ASSUME NEW k \in Clients, Crash(k) PROVE IInv'
  <2> DEFINE gone == {c \in Callers : ClientOf[c] = k}
  <2>1. /\ pc' = [c \in Callers |-> IF c \in gone THEN "idle" ELSE pc[c]]
        /\ holders' = holders \ gone /\ faults' \in Nat
        /\ rejected' = [rejected EXCEPT ![k] = NoTag]
        /\ UNCHANGED <<work, src, disk, locals, history>>
    BY <1>1, <1>4 DEF Crash, Lock!Crash, Fault, HistoryOK
  <2>2. TypeOK'
    <3>1. pc' \in [Callers -> Tops \union Fetching \union {"stat", "release"}]
      BY <1>1, <2>1 DEF LocalsOK, Tops
    <3>2. rejected' \in [Clients -> Tags] /\ holders' \subseteq Callers
      BY <1>1, <2>1, FileCacheAssumption DEF DiskOK, Tags, NoTag
    <3>3. QED
      BY <2>1, <3>1, <3>2
      DEF TypeOK, Tops, Fetching, disk, locals, history, begun, Lock!TypeOK
  <2>3. LockInv'
    BY <2>1 DEF LockInv, Holding, Fetching, locals
  <2>4. OrderInv' /\ TagsVouch'
    BY <2>1 DEF OrderInv, TagsVouch, TagVouches, PartVouches, Undamaged, Body, disk, locals
  <2>5. ASSUME NEW c \in Callers PROVE Own(c)'
    <3>1. CASE c \in gone
      BY <2>1, <3>1 DEF Own, Landed, Fetching
    <3>2. CASE c \notin gone
      <4>1. Own(c) /\ pc'[c] = pc[c]
        BY <2>1, <3>2 DEF StageInv
      <4>2. Staged(c)' = Staged(c) /\ Body(src)' = Body(src) /\ Beginning(part)' = Beginning(part)
        BY <2>1 DEF Staged, Body, Beginning, disk, locals
      <4>3. QED BY <2>1, <4>1, <4>2 DEF Own, Landed, disk, locals
    <3>3. QED BY <3>1, <3>2
  <2>6. QED BY <2>2, <2>3, <2>4, <2>5 DEF StageInv
<1>5. QED BY <1>2, <1>3, <1>4
--------------------------------------------------------------------------------
LEMMA NextIInv == IInv /\ [Next]_vars => IInv'
<1> SUFFICES ASSUME IInv, [Next]_vars PROVE IInv'
  OBVIOUS
<1>1. ASSUME NEW c \in Callers, GetFile(c) \/ Step(c) \/ Failure(c), UNCHANGED work
      PROVE  IInv'
  <2>1. TypeOK'
    BY <1>1, CallTypes DEF IInv
  <2>2. CASE GetFile(c)
    BY <2>1, <2>2, QuietCall
  <2>3. CASE Step(c)
    BY <2>1, <2>3, QuietCall, AskingSteps, TransferSteps, LandingSteps DEF Step
  <2>4. CASE Failure(c)
    BY <2>1, <2>4, QuietCall, AskingSteps, TransferSteps DEF Failure
  <2>5. QED BY <1>1, <2>2, <2>3, <2>4
<1>2. CASE Publish \/ Damage \/ \E k \in Clients : Crash(k)
  <2>1. UNCHANGED work
    BY DEF Next, vars
  <2>2. QED BY <1>2, <2>1, WorldStep
<1>3. CASE UNCHANGED vars
  BY <1>3 DEF vars, disk, locals, history, begun, IInv, TypeOK, Lock!TypeOK, LockInv, Holding,
     OrderInv, StageInv, Own, Landed, Staged, Beginning, Body, TagsVouch, TagVouches,
     PartVouches, Undamaged
<1>4. QED BY <1>1, <1>2, <1>3 DEF Next

\* Whoever is fetching has the lock, what it has staged is the version it asked
\* for as long as the source serves it, and the recorded tags vouch for what they
\* lie beside.
THEOREM Invariant == Spec => []IInv
<1>1. QED BY InitIInv, NextIInv, PTL DEF Spec

\* The state of disk, source and callers is what it is declared to be.
THEOREM TypeCorrect == Spec => []TypeOK
<1>1. IInv => TypeOK
  BY DEF IInv
<1>2. QED BY <1>1, Invariant, PTL

\* The ETags on disk never vouch for other content than the version they name.
THEOREM TagsCorrect == Spec => []TagsVouch
<1>1. IInv => TagsVouch
  BY DEF IInv
<1>2. QED BY <1>1, Invariant, PTL
--------------------------------------------------------------------------------
(* Where no read refuses a copy.                                                *)

\* Nobody discards; whoever counts on a copy has one, and what is promoted has
\* been validated.
Kept(c) ==
    /\ pc[c] \notin {"discard", "discardTag"}
    /\ pc[c] \in {"ask", "compare", "read"} => copy # None
    /\ pc[c] = "release" /\ after[c] = "read" => copy # None
    /\ Landed(c) => copy # None
    /\ pc[c] = "promote" => Accepted(Staged(c), Valid)

KeptInv ==
    NothingRefused =>
        /\ copy # None => Accepted(copy, Valid)
        /\ \A c \in Callers : Kept(c)

LEMMA AcceptedIsSome ==
  ASSUME NEW x, Accepted(x, Valid)
  PROVE  x # None /\ (Valid \subseteq Readable => Accepted(x, Readable))
<1>1. PICK v \in Valid : x = Body(v)
  BY DEF Accepted
<1>2. v \in Versions
  BY FileCacheAssumption
<1>3. x # None
  BY <1>1, <1>2, BodyFacts, NoneIsNoContent
<1>4. QED BY <1>3 DEF Accepted

\* What a caller's step takes from the copy, from the staged objects and from
\* the other callers.
LEMMA CallFrame ==
  ASSUME IInv, NEW c \in Callers, GetFile(c) \/ Step(c) \/ Failure(c)
  PROVE  /\ \A d \in Callers : d # c =>
              pc'[d] = pc[d] /\ after'[d] = after[d] /\ off'[d] = off[d] /\ ok'[d] = ok[d]
         /\ UNCHANGED <<part, resume>> \/ Holding(c)
         /\ \/ UNCHANGED copy
            \/ pc[c] = "promote" /\ Promote(c)
            \/ pc[c] = "discard"
<1>1. LocalsOK
  BY TypeParts DEF IInv
<1>2. UNCHANGED <<part, resume>> \/ Holding(c)
  <2>1. UNCHANGED <<part, resume>> \/ pc[c] \in {"stage", "clean"}
    BY DEF GetFile, Step, LookCopy, AskSource, Compare, AcquireLock, StatSource, StatRejected,
       ResumePoint, ResumeDiscard, Stage, Seal, ValidateOk, ValidateRefused, Promote,
       Clean, CleanTag, Record, Release, ReadOk, ReadRefused, ReadFails, DiscardCopy, DiscardTag,
       Failure, AskFails, CompareUnread, AcquireFails, StatFails, ResumeFails,
       StageInterrupted, StageFails, SealFails, ValidateFails, PromoteFails, RecordFails,
       ReadCancelled, DiscardTagFails, Decide, disk
  <2>2. QED BY <2>1 DEF Holding, Fetching
<1>3. UNCHANGED copy \/ (pc[c] = "promote" /\ Promote(c)) \/ pc[c] = "discard"
  BY DEF GetFile, Step, LookCopy, AskSource, Compare, AcquireLock, StatSource, StatRejected,
     ResumePoint, ResumeDiscard, Stage, Seal, ValidateOk, ValidateRefused, Promote,
     Clean, CleanTag, Record, Release, ReadOk, ReadRefused, ReadFails, DiscardCopy, DiscardTag,
     Failure, AskFails, CompareUnread, AcquireFails, StatFails, ResumeFails,
     StageInterrupted, StageFails, SealFails, ValidateFails, PromoteFails, RecordFails,
     ReadCancelled, DiscardTagFails, Decide, disk
<1>4. ASSUME NEW d \in Callers, d # c
      PROVE  pc'[d] = pc[d] /\ after'[d] = after[d] /\ off'[d] = off[d] /\ ok'[d] = ok[d]
  <2> USE <1>1, <1>4 DEF LocalsOK, Goto, locals
  <2>1. ASSUME \/ \E l : Goto(c, l) /\ UNCHANGED <<after, off, ok>>
               \/ FetchFails(c)
               \/ NotFresh(c) /\ UNCHANGED <<off, ok>>
               \/ \E again : Begin(c, again)
        PROVE  pc'[d] = pc[d] /\ after'[d] = after[d] /\ off'[d] = off[d] /\ ok'[d] = ok[d]
    BY <2>1 DEF FetchFails, NotFresh, Begin
  <2>2. CASE \/ GetFile(c) \/ AskSource(c) \/ AcquireLock(c) \/ StatSource(c) \/ Stage(c)
             \/ StatRejected(c) \/ Seal(c) \/ ValidateOk(c) \/ Clean(c) \/ CleanTag(c)
             \/ Release(c) \/ ReadOk(c) \/ ReadRefused(c) \/ DiscardCopy(c) \/ DiscardTag(c)
    BY <2>1, <2>2 DEF GetFile, AskSource, AcquireLock, StatSource, Stage, StatRejected, Seal,
       ValidateOk, Clean, CleanTag, Release, ReadOk, ReadRefused, ReadFails, DiscardCopy, DiscardTag
  <2>3. CASE LookCopy(c) \/ Compare(c) \/ CompareUnread(c) \/ AskFails(c)
    BY <2>1, <2>3 DEF LookCopy, Compare, CompareUnread, Decide, AskFails, Fresh, NotFresh
  <2>4. CASE ResumePoint(c) \/ ResumeDiscard(c) \/ ValidateRefused(c) \/ Promote(c) \/ Record(c)
             \/ ValidateFails(c)
    BY <2>4 DEF ResumePoint, ResumeFrom, ResumeDiscard, ValidateRefused, Promote, Record,
       ValidateFails
  <2>5. CASE Failure(c) /\ ~(CompareUnread(c) \/ AskFails(c) \/ ValidateFails(c))
    BY <2>1, <2>5 DEF Failure, AcquireFails, StatFails, ResumeFails, StageInterrupted,
       StageFails, SealFails, PromoteFails, RecordFails, ReadFails, ReadCancelled,
       DiscardTagFails
  <2>6. QED BY <2>2, <2>3, <2>4, <2>5 DEF Step, Failure
<1>5. QED BY <1>2, <1>3, <1>4

\* The caller's own part: where it stands after its step.
LEMMA CallKept ==
  ASSUME IInv, NothingRefused, KeptInv, NEW c \in Callers,
         GetFile(c) \/ Step(c) \/ Failure(c)
  PROVE  Kept(c)'
<1>1. /\ LocalsOK /\ Own(c) /\ Kept(c) /\ (copy # None => Accepted(copy, Valid))
      /\ pc[c] \notin {"discard", "discardTag"} /\ work.validated
  BY TypeParts DEF IInv, StageInv, KeptInv, Kept, NothingRefused
<1> USE <1>1 DEF LocalsOK, Goto, locals, disk
<1>2. ASSUME pc'[c] \notin {"discard", "discardTag", "ask", "compare", "read", "record", "promote"},
             pc'[c] = "release" => after'[c] # "read",
             pc'[c] \in {"clean", "cleanTag"} => after'[c] # "record"
      PROVE  Kept(c)'
  BY <1>2 DEF Kept, Landed
<1>3. ASSUME FetchFails(c) \/ NotFresh(c) PROVE Kept(c)'
  BY <1>2, <1>3 DEF FetchFails, NotFresh
<1>4. CASE GetFile(c)
  BY <1>2, <1>4 DEF GetFile, Begin
<1>5. CASE LookCopy(c)
  BY <1>3, <1>5 DEF LookCopy, Kept, Landed
<1>6. CASE AskSource(c)
  BY <1>6 DEF AskSource, Kept, Landed
<1>7. CASE Compare(c) \/ CompareUnread(c)
  <2>1. pc[c] = "compare" /\ UNCHANGED copy /\ (Fresh(c) \/ NotFresh(c))
    BY <1>7 DEF Compare, CompareUnread, Decide
  <2>2. CASE Fresh(c)
    BY <2>1, <2>2 DEF Fresh, Kept, Landed
  <2>3. QED BY <1>3, <2>1, <2>2
<1>8. CASE AcquireLock(c) \/ StatSource(c) \/ Stage(c)
  BY <1>2, <1>8 DEF AcquireLock, StatSource, Stage
<1>9. CASE ResumePoint(c) \/ ResumeDiscard(c)
  BY <1>2, <1>9 DEF ResumePoint, ResumeFrom, ResumeDiscard
<1>10. CASE Seal(c)
  BY <1>2, <1>10 DEF Seal
<1>11. CASE ValidateOk(c)
  <2>1. pc'[c] = "promote" /\ Accepted(Staged(c), Valid) /\ Staged(c)' = Staged(c)
    BY <1>11 DEF ValidateOk, Staged
  <2>2. Accepted(Staged(c), Valid)'
    BY <2>1 DEF Accepted, Body
  <2>3. QED BY <2>1, <2>2 DEF Kept, Landed
<1>12. CASE ValidateRefused(c) \/ ValidateFails(c)
  BY <1>2, <1>12 DEF ValidateRefused, ValidateFails
<1>13. CASE Promote(c)
  <2>1. copy' = Staged(c) /\ pc'[c] = "clean"
    BY <1>13 DEF Promote
  <2>2. copy' # None
    BY <1>13, <2>1, AcceptedIsSome DEF Promote, Kept
  <2>3. QED BY <2>1, <2>2 DEF Kept
<1>14. CASE Clean(c)
  BY <1>14 DEF Clean, Kept, Landed
<1>15. CASE CleanTag(c)
  <2>1. /\ pc[c] = "cleanTag" /\ UNCHANGED copy
        /\ FetchFails(c) \/ (pc'[c] = after[c] /\ UNCHANGED after)
    BY <1>15 DEF CleanTag
  <2>2. CASE pc'[c] = after[c] /\ UNCHANGED after
    BY <2>1, <2>2 DEF Own, Kept, Landed
  <2>3. QED BY <1>3, <2>1, <2>2
<1>16. CASE Record(c)
  BY <1>16 DEF Record, Kept, Landed
<1>17. CASE Release(c)
  <2>1. /\ pc[c] = "release" /\ UNCHANGED <<copy, after>>
        /\ pc'[c] = after[c] /\ after[c] \in {"idle", "read"}
    BY <1>17 DEF Release, Own
  <2>2. QED BY <2>1 DEF Kept, Landed
<1>18. CASE ReadOk(c) \/ ReadCancelled(c) \/ AcquireFails(c)
  BY <1>2, <1>18 DEF ReadOk, ReadCancelled, AcquireFails
<1>19. CASE ReadRefused(c) \/ ReadFails(c)
  <2>1. pc[c] = "read" => copy # None
    BY <1>1 DEF Kept
  <2>2. CASE ReadRefused(c)
    BY <1>1, <2>1, <2>2, AcceptedIsSome DEF ReadRefused, NothingRefused
  <2>3. CASE ReadFails(c)
    BY <2>3 DEF ReadFails, Fault, NothingRefused
  <2>4. QED BY <1>19, <2>2, <2>3
<1>20. CASE AskFails(c) \/ StatRejected(c) \/ StatFails(c) \/ ResumeFails(c) \/ StageInterrupted(c)
            \/ StageFails(c) \/ SealFails(c) \/ PromoteFails(c) \/ RecordFails(c)
  BY <1>3, <1>20 DEF AskFails, StatRejected, StatFails, ResumeFails, StageInterrupted,
     StageFails, SealFails, PromoteFails, RecordFails
<1>21. CASE DiscardCopy(c) \/ DiscardTag(c) \/ DiscardTagFails(c)
  BY <1>21 DEF DiscardCopy, DiscardTag, DiscardTagFails
<1>22. QED
  BY <1>4, <1>5, <1>6, <1>7, <1>8, <1>9, <1>10, <1>11, <1>12, <1>13, <1>14, <1>15,
     <1>16, <1>17, <1>18, <1>19, <1>20, <1>21
  DEF Step, Failure

LEMMA KeptStep ==
  ASSUME IInv, KeptInv, [Next]_vars
  PROVE  KeptInv' /\ (NothingRefused /\ copy # None => copy' # None)
<1>1. UNCHANGED work
  BY DEF Next, vars
<1> SUFFICES ASSUME NothingRefused
             PROVE  /\ copy' # None => Accepted(copy, Valid)'
                    /\ \A c \in Callers : Kept(c)'
                    /\ copy # None => copy' # None
  BY <1>1 DEF KeptInv, NothingRefused
<1>2. /\ copy # None => Accepted(copy, Valid)
      /\ \A c \in Callers : Kept(c)
  BY DEF KeptInv
<1>3. ASSUME NEW x, Accepted(x, Valid), copy' = x PROVE Accepted(copy, Valid)'
  BY <1>3 DEF Accepted, Body
<1>4. ASSUME NEW c \in Callers, GetFile(c) \/ Step(c) \/ Failure(c)
      PROVE  /\ copy' # None => Accepted(copy, Valid)'
             /\ \A d \in Callers : Kept(d)'
             /\ copy # None => copy' # None
  <2>1. /\ \A d \in Callers : d # c =>
              pc'[d] = pc[d] /\ after'[d] = after[d] /\ off'[d] = off[d]
        /\ UNCHANGED <<part, resume>> \/ Holding(c)
        /\ UNCHANGED copy \/ (pc[c] = "promote" /\ copy' = Staged(c))
    BY <1>2, <1>4, CallFrame DEF Kept, Promote
  <2>2. copy' = copy \/ Accepted(copy', Valid)
    BY <1>2, <2>1 DEF Kept
  <2>3. copy' # None => Accepted(copy, Valid)'
    BY <1>2, <1>3, <2>2
  <2>4. copy # None => copy' # None
    BY <2>2, AcceptedIsSome
  <2>5. Kept(c)'
    BY <1>4, CallKept
  <2>6. ASSUME NEW d \in Callers, d # c PROVE Kept(d)'
    <3>1. Kept(d) /\ pc'[d] = pc[d] /\ after'[d] = after[d] /\ off'[d] = off[d]
      BY <1>2, <2>1, <2>6
    <3>2. ASSUME pc[d] = "promote" PROVE Accepted(Staged(d), Valid)'
      <4>1. ~Holding(c)
        BY <2>6, <3>2 DEF IInv, LockInv, Holding, Fetching
      <4>2. Staged(d)' = Staged(d)
        BY <2>1, <3>1, <4>1 DEF Staged
      <4>3. QED BY <3>1, <3>2, <4>2 DEF Kept, Accepted, Body
    <3>3. QED BY <2>4, <3>1, <3>2 DEF Kept, Landed
  <2>7. QED BY <2>3, <2>4, <2>5, <2>6
<1>5. ASSUME UNCHANGED <<copy, part, resume, off, after>>,
             \A c \in Callers : pc'[c] \in {pc[c], "idle"}
      PROVE  /\ copy' # None => Accepted(copy, Valid)'
             /\ \A c \in Callers : Kept(c)'
             /\ copy # None => copy' # None
  <2>1. ASSUME NEW c \in Callers PROVE Kept(c)'
    <3>1. Kept(c) /\ Staged(c)' = Staged(c) /\ pc'[c] \in {pc[c], "idle"}
      BY <1>2, <1>5 DEF Staged
    <3>2. Accepted(Staged(c), Valid) => Accepted(Staged(c), Valid)'
      BY <3>1 DEF Accepted, Body
    <3>3. QED BY <1>5, <3>1, <3>2 DEF Kept, Landed
  <2>2. QED BY <1>2, <1>3, <1>5, <2>1
<1>6. CASE Publish
  BY <1>5, <1>6 DEF Publish, disk, locals
<1>7. CASE Damage
  BY <1>7 DEF Damage, Fault, NothingRefused
<1>8. ASSUME NEW k \in Clients, Crash(k)
      PROVE  /\ UNCHANGED <<copy, part, resume, off, after>>
             /\ \A c \in Callers : pc'[c] \in {pc[c], "idle"}
  BY <1>8 DEF Crash, disk, locals
<1>9. CASE UNCHANGED vars
  BY <1>5, <1>9 DEF vars, disk, locals
<1>10. QED BY <1>4, <1>5, <1>6, <1>7, <1>8, <1>9 DEF Next

\* With a validator and no damage, nothing takes a copy away once there is one:
\* readers without the lock never meet one to discard, and promotion replaces it
\* whole.
THEOREM CopyStays == Spec => CopyKept
<1>1. Init => KeptInv
  BY DEF Init, KeptInv, Kept, Landed
<1>2. IInv /\ KeptInv /\ [Next]_vars => KeptInv'
  BY KeptStep
<1>3. IInv /\ KeptInv /\ [Next]_vars =>
        [NothingRefused /\ copy # None => copy' # None]_vars
  BY KeptStep
<1>4. QED BY <1>1, <1>2, <1>3, Invariant, PTL DEF Spec, CopyKept
--------------------------------------------------------------------------------
(* A caller alone with the cache, and the version it refused.                   *)

\* In a fetch that has not been given up.
Trying(c) == /\ pc[c] \in Fetching
             /\ ~(pc[c] \in {"clean", "cleanTag"} /\ after[c] = "failed")

\* Callers that have no work stay idle, and a caller alone that may still change
\* the record of rejections fetched something that was not on it.
Refusal(c) ==
    /\ pc[c] # "idle" => c \in work.callers
    /\ ok[c] => pc[c] \in {"idle", "release", "read", "discard", "discardTag"}
    /\ Alone(c) /\ \/ Trying(c)
                   \/ ok[c] /\ pc[c] \in {"release", "read", "discard"}
         => rejected[ClientOf[c]] # src

RefusalInv ==
    /\ \A k \in Clients : rejected[k] <= src
    /\ \A c \in Callers : Refusal(c)

\* Which steps change the record, and to what.
LEMMA RecordFrame ==
  ASSUME IInv, NEW c \in Callers, GetFile(c) \/ Step(c) \/ Failure(c)
  PROVE  /\ UNCHANGED src
         /\ \/ UNCHANGED rejected
            \/ /\ Trying(c) /\ Reject(c) /\ ~Trying(c)' /\ UNCHANGED ok
               /\ pc[c] = "validate" /\ pc'[c] = "clean"
               /\ ~Accepted(Staged(c), Valid) \/ Fault("read")
            \/ /\ pc[c] = "discard" /\ ok[c] /\ Reject(c)
               /\ pc'[c] \in {"idle", "discardTag"}
            \/ /\ Trying(c)
               /\ rejected' = [rejected EXCEPT ![ClientOf[c]] = NoTag]
<1> LocalsOK
  BY TypeParts DEF IInv
<1>1. UNCHANGED src
  BY DEF GetFile, Step, LookCopy, AskSource, Compare, AcquireLock, StatSource, StatRejected,
     ResumePoint, ResumeDiscard, Stage, Seal, ValidateOk, ValidateRefused, Promote,
     Clean, CleanTag, Record, Release, ReadOk, ReadRefused, ReadFails, DiscardCopy, DiscardTag,
     Failure, AskFails, CompareUnread, AcquireFails, StatFails, ResumeFails,
     StageInterrupted, StageFails, SealFails, ValidateFails, PromoteFails, RecordFails,
     ReadCancelled, DiscardTagFails, Decide
<1>2. \/ UNCHANGED rejected \/ ValidateRefused(c) \/ (ValidateFails(c) /\ Fault("read") /\ Reject(c))
      \/ Record(c) \/ RecordFails(c) \/ DiscardCopy(c)
  BY DEF GetFile, Step, LookCopy, AskSource, Compare, AcquireLock, StatSource, StatRejected,
     ResumePoint, ResumeDiscard, Stage, Seal, ValidateOk, Promote, Clean, CleanTag,
     Release, ReadOk, ReadRefused, ReadFails, DiscardTag, Failure, AskFails, CompareUnread,
     AcquireFails, StatFails, ResumeFails, StageInterrupted, StageFails, SealFails,
     ValidateFails, PromoteFails, ReadCancelled, DiscardTagFails, Decide
<1>3. CASE ValidateRefused(c) \/ (ValidateFails(c) /\ Fault("read") /\ Reject(c))
  BY <1>1, <1>3 DEF ValidateRefused, ValidateFails, Trying, Fetching, Goto, LocalsOK
<1>4. CASE Record(c) \/ RecordFails(c)
  BY <1>1, <1>4 DEF Record, RecordFails, Trying, Fetching
<1>5. CASE DiscardCopy(c)
  BY <1>1, <1>5 DEF DiscardCopy, Goto, LocalsOK
<1>6. QED BY <1>1, <1>2, <1>3, <1>4, <1>5

LEMMA CallerAtWork ==
  ASSUME NEW c \in Callers, Refusal(c), GetFile(c) \/ Step(c) \/ Failure(c)
  PROVE  c \in work.callers
  BY DEF Refusal, GetFile, Step, LookCopy, AskSource, Compare, AcquireLock, StatSource,
     StatRejected, ResumePoint, ResumeDiscard, Stage, Seal, ValidateOk, ValidateRefused,
     Promote, Clean, CleanTag, Record, Release, ReadOk, ReadRefused, ReadFails, DiscardCopy, DiscardTag,
     Failure, AskFails, CompareUnread, AcquireFails, StatFails, ResumeFails,
     StageInterrupted, StageFails, SealFails, ValidateFails, PromoteFails, RecordFails,
     ReadCancelled, DiscardTagFails, Decide

\* A caller's place and whether it downloaded, after a step that leaves the record
\* alone.
LEMMA CallRefusal ==
  ASSUME IInv, NEW c \in Callers, Refusal(c), GetFile(c) \/ Step(c) \/ Failure(c)
  PROVE  /\ ok'[c] => pc'[c] \in {"idle", "release", "read", "discard", "discardTag"}
         /\ Trying(c)' => Trying(c) \/ StatSource(c)
         /\ ok'[c] /\ pc'[c] \in {"release", "read", "discard"} =>
              Record(c) \/ (ok[c] /\ pc[c] \in {"release", "read"})
<1>1. LocalsOK /\ Own(c)
  BY TypeParts DEF IInv, StageInv
<1> USE <1>1 DEF LocalsOK, Goto, locals
<1> DEFINE Goal == /\ ok'[c] => pc'[c] \in {"idle", "release", "read", "discard", "discardTag"}
                   /\ Trying(c)' => Trying(c) \/ StatSource(c)
                   /\ ok'[c] /\ pc'[c] \in {"release", "read", "discard"} =>
                        Record(c) \/ (ok[c] /\ pc[c] \in {"release", "read"})
<1>3. ASSUME ~ok'[c], Trying(c)' => Trying(c) \/ StatSource(c) PROVE Goal
  BY <1>3
<1>4. ASSUME ~ok[c], FetchFails(c) \/ (NotFresh(c) /\ UNCHANGED ok) PROVE Goal
  BY <1>3, <1>4 DEF FetchFails, NotFresh, Trying, Fetching
<1>5. CASE GetFile(c)
  BY <1>3, <1>5 DEF GetFile, Begin, Trying, Fetching
<1>6. CASE \/ LookCopy(c) \/ AskSource(c) \/ AcquireLock(c) \/ AskFails(c) \/ AcquireFails(c)
           \/ StatRejected(c) \/ StatFails(c)
  <2>1. ~ok[c]
    BY <1>6 DEF Refusal, LookCopy, AskSource, AcquireLock, AskFails, AcquireFails, StatRejected,
       StatFails
  <2>2. QED
    BY <1>3, <1>4, <1>6, <2>1 DEF LookCopy, AskSource, AcquireLock, AskFails, AcquireFails,
       StatRejected, StatFails, Trying, Fetching
<1>7. CASE Compare(c) \/ CompareUnread(c)
  <2>1. pc[c] = "compare" /\ ~ok[c] /\ UNCHANGED ok /\ (Fresh(c) \/ NotFresh(c))
    BY <1>7 DEF Refusal, Compare, CompareUnread, Decide
  <2>2. CASE Fresh(c)
    BY <1>3, <2>1, <2>2 DEF Fresh, Trying, Fetching
  <2>3. QED BY <1>4, <2>1, <2>2
<1>8. CASE \/ StatSource(c) \/ ResumePoint(c) \/ ResumeDiscard(c) \/ Stage(c) \/ Seal(c)
           \/ ValidateOk(c) \/ ValidateRefused(c) \/ Promote(c) \/ Clean(c) \/ CleanTag(c)
           \/ ResumeFails(c) \/ StageInterrupted(c) \/ StageFails(c) \/ SealFails(c)
           \/ ValidateFails(c) \/ PromoteFails(c) \/ RecordFails(c)
  <2>1. ~ok[c] /\ (Trying(c)' => Trying(c) \/ StatSource(c))
    BY <1>8 DEF Refusal, Trying, Fetching, FetchFails, ResumeFrom, Own, StatSource,
       ResumePoint, ResumeDiscard, Stage, Seal, ValidateOk, ValidateRefused, Promote, Clean,
       CleanTag, ResumeFails, StageInterrupted,
       StageFails, SealFails, ValidateFails, PromoteFails, RecordFails
  <2>2. UNCHANGED ok
    BY <1>8 DEF StatSource, ResumePoint, ResumeDiscard, Stage, Seal, ValidateOk,
       ValidateRefused, Promote, Clean, CleanTag, ResumeFails, StageInterrupted, StageFails,
       SealFails, ValidateFails, PromoteFails, RecordFails, FetchFails
  <2>3. QED BY <1>3, <2>1, <2>2
<1>9. CASE Record(c)
  BY <1>9 DEF Record, Trying, Fetching
<1>10. CASE Release(c)
  <2>1. pc[c] = "release" /\ UNCHANGED ok /\ pc'[c] \in {"idle", "read"}
    BY <1>10 DEF Release, Own
  <2>2. QED BY <2>1 DEF Trying, Fetching
<1>11. CASE ReadOk(c) \/ ReadRefused(c) \/ ReadFails(c) \/ ReadCancelled(c)
  BY <1>11 DEF ReadOk, ReadRefused, ReadFails, ReadCancelled, Trying, Fetching
<1>12. CASE DiscardCopy(c) \/ DiscardTagFails(c)
  BY <1>12 DEF DiscardCopy, DiscardTagFails, Trying, Fetching
<1>13. CASE DiscardTag(c)
  <2>1. CASE Begin(c, TRUE)
    BY <1>3, <2>1 DEF Begin, Trying, Fetching
  <2>2. CASE pc'[c] = "idle"
    BY <2>2 DEF Trying, Fetching
  <2>3. QED BY <1>13, <2>1, <2>2 DEF DiscardTag
<1>14. QED
  BY <1>5, <1>6, <1>7, <1>8, <1>9, <1>10, <1>11, <1>12, <1>13 DEF Step, Failure

\* What a step of a caller may do to its client's record.
LEMMA RecordStep ==
  ASSUME IInv, RefusalInv, NEW c \in Callers, GetFile(c) \/ Step(c) \/ Failure(c)
  PROVE  /\ UNCHANGED src
         /\ \A k \in Clients : k # ClientOf[c] => rejected'[k] = rejected[k]
         /\ rejected'[ClientOf[c]] \in {rejected[ClientOf[c]], NoTag, ver[c]}
         /\ Alone(c) /\ rejected[ClientOf[c]] = src => UNCHANGED rejected
<1>1. DiskOK /\ LocalsOK /\ Refusal(c)
  BY TypeParts DEF IInv, RefusalInv
<1>2. UNCHANGED src
  BY RecordFrame
<1>3. \/ UNCHANGED rejected \/ Reject(c)
      \/ rejected' = [rejected EXCEPT ![ClientOf[c]] = NoTag]
  BY RecordFrame
<1>4. ClientOf[c] \in Clients
  BY FileCacheAssumption
<1>5. Alone(c) /\ rejected[ClientOf[c]] = src => UNCHANGED rejected
  BY <1>1, RecordFrame DEF Refusal
<1>6. QED BY <1>1, <1>2, <1>3, <1>4, <1>5 DEF DiskOK, Reject

LEMMA RefusalStep ==
  ASSUME IInv, RefusalInv, [Next]_vars
  PROVE  /\ RefusalInv'
         /\ \A c \in Callers :
              /\ Alone(c) /\ rejected[ClientOf[c]] = src
              /\ rejected'[ClientOf[c]] # rejected[ClientOf[c]]
              => Crash(ClientOf[c])
<1>1. /\ LocalsOK /\ DiskOK /\ src \in Nat
      /\ \A k \in Clients : rejected[k] \in 0 .. MaxVersion /\ rejected[k] <= src
      /\ \A c \in Callers : Refusal(c) /\ ver[c] <= src /\ ClientOf[c] \in Clients
  BY TypeParts, FileCacheAssumption
  DEF IInv, RefusalInv, OrderInv, DiskOK, Tags, Versions
<1>2. UNCHANGED work
  BY DEF Next, vars
<1>3. ASSUME NEW c \in Callers, GetFile(c) \/ Step(c) \/ Failure(c)
      PROVE  /\ RefusalInv'
             /\ \A d \in Callers : Alone(d) /\ rejected[ClientOf[d]] = src
                  => rejected'[ClientOf[d]] = rejected[ClientOf[d]]
  <2>1. /\ UNCHANGED src
        /\ \A k \in Clients : k # ClientOf[c] => rejected'[k] = rejected[k]
        /\ rejected'[ClientOf[c]] \in {rejected[ClientOf[c]], NoTag, ver[c]}
        /\ Alone(c) /\ rejected[ClientOf[c]] = src => UNCHANGED rejected
    BY <1>3, RecordStep
  <2>2. /\ c \in work.callers
        /\ ok'[c] => pc'[c] \in {"idle", "release", "read", "discard", "discardTag"}
        /\ Trying(c)' => Trying(c) \/ StatSource(c)
        /\ ok'[c] /\ pc'[c] \in {"release", "read", "discard"} =>
             Record(c) \/ (ok[c] /\ pc[c] \in {"release", "read"})
    BY <1>1, <1>3, CallRefusal, CallerAtWork
  <2>3. \A d \in Callers : Alone(d) => d = c
    BY <2>2 DEF Alone
  <2>4. \A k \in Clients : rejected'[k] <= src'
    BY <1>1, <2>1 DEF NoTag
  <2>5. ASSUME NEW d \in Callers, d # c PROVE Refusal(d)'
    <3>1. pc'[d] = pc[d] /\ ok'[d] = ok[d] /\ ~Alone(d)
      BY <1>3, <2>3, <2>5, CallFrame
    <3>2. QED BY <1>1, <1>2, <3>1 DEF Refusal, Alone
  <2>6. Refusal(c)'
    <3>1. ASSUME Alone(c),
                 \/ Trying(c)'
                 \/ ok'[c] /\ pc'[c] \in {"release", "read", "discard"}
          PROVE  rejected'[ClientOf[c]] # src'
      <4>1. CASE StatSource(c)
        BY <4>1 DEF StatSource
      <4>2. CASE Record(c)
        BY <1>1, <2>1, <4>2 DEF Record, NoTag, DiskOK, Versions
      <4>3. CASE Trying(c) \/ (ok[c] /\ pc[c] \in {"release", "read"})
        <5>1. rejected[ClientOf[c]] # src
          BY <1>1, <3>1, <4>3 DEF Refusal
        <5>2. CASE UNCHANGED rejected
          BY <2>1, <5>1, <5>2
        <5>3. CASE rejected' = [rejected EXCEPT ![ClientOf[c]] = NoTag]
          BY <1>1, <2>1, <5>3 DEF NoTag, DiskOK, Versions
        <5>4. ~(Trying(c) /\ ~Trying(c)' /\ pc'[c] = "clean")
          BY <3>1
        <5>5. pc[c] # "discard"
          BY <4>3 DEF Trying, Fetching
        <5>6. QED BY <1>3, <5>2, <5>3, <5>4, <5>5, RecordFrame
      <4>4. QED BY <2>2, <3>1, <4>1, <4>2, <4>3
    <3>2. QED BY <1>2, <2>2, <3>1 DEF Refusal, Alone
  <2>7. QED BY <2>1, <2>3, <2>4, <2>5, <2>6 DEF RefusalInv
<1>4. ASSUME UNCHANGED <<rejected, ok, after>>, src' \in {src, src + 1},
             \A c \in Callers : pc'[c] = pc[c]
      PROVE  RefusalInv'
  <2>1. ASSUME NEW c \in Callers PROVE Refusal(c)'
    <3>1. Refusal(c) /\ pc'[c] = pc[c] /\ Trying(c)' = Trying(c) /\ Alone(c)' = Alone(c)
      BY <1>1, <1>2, <1>4 DEF Trying, Alone
    <3>2. rejected[ClientOf[c]] # src => rejected'[ClientOf[c]] # src'
      BY <1>1, <1>4
    <3>3. QED BY <1>2, <1>4, <3>1, <3>2 DEF Refusal
  <2>2. QED BY <1>1, <1>4, <2>1 DEF RefusalInv
<1>5. CASE Publish
  BY <1>4, <1>5 DEF Publish, locals
<1>6. CASE Damage
  BY <1>4, <1>6 DEF Damage, locals
<1>7. ASSUME NEW k \in Clients, Crash(k)
      PROVE  RefusalInv' /\ \A c \in Callers : ClientOf[c] # k =>
                                rejected'[ClientOf[c]] = rejected[ClientOf[c]]
  <2>1. /\ UNCHANGED <<src, ok, after>> /\ rejected' = [rejected EXCEPT ![k] = NoTag]
        /\ \A c \in Callers : pc'[c] \in {pc[c], "idle"} /\ (ClientOf[c] = k => pc'[c] = "idle")
    BY <1>7 DEF Crash, locals
  <2>2. \A h \in Clients : rejected'[h] = IF h = k THEN NoTag ELSE rejected[h]
    BY <1>1, <2>1 DEF DiskOK
  <2>3. ASSUME NEW c \in Callers PROVE Refusal(c)'
    <3>1. CASE pc'[c] = "idle"
      BY <1>1, <2>1, <3>1 DEF Refusal, Trying, Fetching
    <3>2. CASE pc'[c] # "idle"
      <4>1. /\ pc'[c] = pc[c] /\ rejected'[ClientOf[c]] = rejected[ClientOf[c]] /\ Refusal(c)
            /\ Trying(c)' = Trying(c) /\ Alone(c)' = Alone(c)
        BY <1>1, <1>2, <2>1, <2>2, <3>2 DEF Trying, Alone
      <4>2. QED BY <1>2, <2>1, <4>1 DEF Refusal
    <3>3. QED BY <3>1, <3>2
  <2>4. QED BY <1>1, <2>1, <2>2, <2>3 DEF RefusalInv, NoTag
<1>8. CASE UNCHANGED vars
  BY <1>4, <1>8 DEF vars, locals
<1>9. ASSUME UNCHANGED rejected \/ (\E c \in Callers : GetFile(c) \/ Step(c) \/ Failure(c))
             \/ (\E k \in Clients : Crash(k)),
             NEW c \in Callers, Alone(c), rejected[ClientOf[c]] = src,
             rejected'[ClientOf[c]] # rejected[ClientOf[c]]
      PROVE  Crash(ClientOf[c])
  BY <1>3, <1>7, <1>9
<1>10. UNCHANGED rejected \/ (\E c \in Callers : GetFile(c) \/ Step(c) \/ Failure(c))
       \/ (\E k \in Clients : Crash(k))
  BY DEF Next, Publish, Damage, vars
<1>11. QED BY <1>3, <1>5, <1>6, <1>7, <1>8, <1>9, <1>10 DEF Next

\* A caller alone with the cache goes on refusing a version it refused until the
\* source serves another or its process ends, whatever fails meanwhile.
THEOREM RefusalStands == Spec => RejectionLasts
<1>1. Init => RefusalInv
  BY FileCacheAssumption DEF Init, RefusalInv, Refusal, Trying, Fetching, NoTag
<1>2. IInv /\ RefusalInv /\ [Next]_vars => RefusalInv'
  BY RefusalStep
<1>3. IInv /\ RefusalInv /\ [Next]_vars =>
        [\A c \in Callers : LET k == ClientOf[c] IN
           Alone(c) /\ rejected[k] = src /\ rejected'[k] # rejected[k] => Crash(k)]_vars
  BY RefusalStep
<1>4. QED BY <1>1, <1>2, <1>3, Invariant, PTL DEF Spec, RejectionLasts
--------------------------------------------------------------------------------
(* What a call may read, however the versions' sizes compare.                   *)

\* Past the answer of the source, short of the promotion of what it serves.
Promoting(c) == \/ pc[c] \in {"resume", "stage", "seal", "validate", "promote"}
                \/ pc[c] \in {"clean", "cleanTag"} /\ after[c] = "stage"

\* No copy of a version before v will be read from now on: there is none, and
\* nobody is about to promote one.
Floor(v) ==
    /\ v <= src
    /\ \A u \in Versions : copy = Body(u) => u >= v
    /\ \A c \in Callers : Promoting(c) => ver[c] >= v

AtLeast(x, v) == \A i \in 1 .. Len(x) : x[i] >= v

\* What is about to be promoted.
Newer(c) ==
    /\ pc[c] = "stage" /\ off[c] > 0 => AtLeast(part, ver[c])
    /\ pc[c] \in {"seal", "validate", "promote"} => AtLeast(Staged(c), ver[c])

\* It has its copy and goes to read it.
Reading(c) == pc[c] = "read" \/ (pc[c] = "release" /\ after[c] = "read")

\* What a caller has been told bounds what it will read, unless it went by sizes.
Current(c) ==
    /\ pc[c] = "compare" \/ Promoting(c) \/ Landed(c) => ver[c] >= start[c]
    /\ Landed(c) => Floor(ver[c])
    /\ ~bySize[c] /\ Reading(c) => Floor(start[c])

PartGrows == part # None => AtLeast(part, partTag)

CurrentInv ==
    /\ Floor(tag) /\ PartGrows
    /\ \A c \in Callers : start[c] <= src /\ Newer(c) /\ Current(c)

\* What a caller's step leaves of the others' and of its own answers.
LEMMA CallLocals ==
  ASSUME IInv, NEW c \in Callers, GetFile(c) \/ Step(c) \/ Failure(c)
  PROVE  /\ UNCHANGED src
         /\ \A d \in Callers : d # c => /\ size'[d] = size[d] /\ ver'[d] = ver[d]
                                        /\ phase'[d] = phase[d] /\ second'[d] = second[d]
                                        /\ start'[d] = start[d] /\ calm'[d] = calm[d]
                                        /\ barred'[d] = barred[d] /\ bySize'[d] = bySize[d]
         /\ UNCHANGED <<start, calm, barred>> \/ GetFile(c)
         /\ UNCHANGED ver \/ AskSource(c) \/ StatSource(c)
         /\ UNCHANGED size \/ LookCopy(c)
<1>1. LocalsOK /\ HistoryOK
  BY TypeParts DEF IInv
<1>2. UNCHANGED src /\ (UNCHANGED <<start, calm, barred>> \/ GetFile(c))
  BY DEF GetFile, Step, LookCopy, AskSource, Compare, AcquireLock, StatSource, StatRejected,
     ResumePoint, ResumeDiscard, Stage, Seal, ValidateOk, ValidateRefused, Promote,
     Clean, CleanTag, Record, Release, ReadOk, ReadRefused, ReadFails, DiscardCopy, DiscardTag,
     Failure, AskFails, CompareUnread, AcquireFails, StatFails, ResumeFails,
     StageInterrupted, StageFails, SealFails, ValidateFails, PromoteFails, RecordFails,
     ReadCancelled, DiscardTagFails, Decide, history, begun
<1>3. /\ UNCHANGED ver \/ AskSource(c) \/ StatSource(c)
      /\ UNCHANGED size \/ LookCopy(c)
  BY DEF GetFile, Begin, FetchFails, Step, LookCopy, AskSource, Compare, AcquireLock,
     StatSource, StatRejected, ResumePoint, ResumeDiscard, Stage, Seal, ValidateOk,
     ValidateRefused, Promote, Clean, CleanTag, Record, Release, ReadOk, ReadRefused, ReadFails,
     DiscardCopy, DiscardTag, Failure, AskFails, CompareUnread, AcquireFails, StatFails,
     ResumeFails, StageInterrupted, StageFails, SealFails, ValidateFails, PromoteFails,
     RecordFails, ReadCancelled, DiscardTagFails, Decide, locals
<1>4. /\ AskSource(c) \/ StatSource(c) => ver' = [ver EXCEPT ![c] = src]
      /\ LookCopy(c) => UNCHANGED size \/ size' = [size EXCEPT ![c] = Len(copy)]
      /\ GetFile(c) => /\ start' = [start EXCEPT ![c] = src]
                       /\ calm' = [calm EXCEPT ![c] = faults]
                       /\ barred' = [barred EXCEPT ![c] = rejected[ClientOf[c]]]
  BY DEF AskSource, StatSource, LookCopy, GetFile
<1>5. \/ UNCHANGED <<phase, second>>
      \/ \E l \in {"open", "locked", "failed"} : phase' = [phase EXCEPT ![c] = l] /\ UNCHANGED second
      \/ \E again \in BOOLEAN : Begin(c, again)
  <2>1. CASE \/ GetFile(c) \/ AcquireLock(c) \/ StatRejected(c) \/ CleanTag(c) \/ DiscardTag(c)
             \/ StatFails(c) \/ ResumeFails(c) \/ StageInterrupted(c) \/ StageFails(c)
             \/ SealFails(c) \/ PromoteFails(c) \/ RecordFails(c)
    BY <2>1 DEF GetFile, AcquireLock, StatRejected, CleanTag, DiscardTag, StatFails,
       ResumeFails, StageInterrupted, StageFails, SealFails, PromoteFails, RecordFails,
       FetchFails, locals
  <2>2. CASE ~(\/ GetFile(c) \/ AcquireLock(c) \/ StatRejected(c) \/ CleanTag(c) \/ DiscardTag(c)
               \/ StatFails(c) \/ ResumeFails(c) \/ StageInterrupted(c) \/ StageFails(c)
               \/ SealFails(c) \/ PromoteFails(c) \/ RecordFails(c))
    BY <2>2 DEF Step, LookCopy, AskSource, Compare, StatSource,
       ResumePoint, ResumeDiscard, Stage, Seal, ValidateOk, ValidateRefused, Promote,
       Clean, Record, Release, ReadOk, ReadRefused, ReadFails, DiscardCopy,
       Failure, AskFails, CompareUnread, AcquireFails, ValidateFails,
       ReadCancelled, DiscardTagFails, Decide, locals
  <2>3. QED BY <2>1, <2>2
<1>6. ASSUME NEW d \in Callers, d # c
      PROVE  phase'[d] = phase[d] /\ second'[d] = second[d]
  BY <1>1, <1>5, <1>6 DEF LocalsOK, Begin
<1>7. ASSUME NEW d \in Callers, d # c
      PROVE  /\ size'[d] = size[d] /\ ver'[d] = ver[d]
             /\ start'[d] = start[d] /\ calm'[d] = calm[d] /\ barred'[d] = barred[d]
  BY <1>1, <1>2, <1>3, <1>4, <1>7 DEF LocalsOK, HistoryOK
<1>8. ASSUME NEW d \in Callers, d # c PROVE bySize'[d] = bySize[d]
  <2>1. CASE LookCopy(c) \/ Compare(c) \/ CompareUnread(c)
    <3>1. \E b \in BOOLEAN : bySize' = [bySize EXCEPT ![c] = b]
      BY <2>1 DEF LookCopy, Compare, CompareUnread, Decide
    <3>2. QED BY <1>1, <1>8, <3>1 DEF HistoryOK
  <2>2. CASE ~(LookCopy(c) \/ Compare(c) \/ CompareUnread(c))
    <3>1. UNCHANGED bySize
      BY <2>2 DEF GetFile, Step, AskSource, AcquireLock, StatSource, StatRejected,
         ResumePoint, ResumeDiscard, Stage, Seal, ValidateOk, ValidateRefused, Promote,
         Clean, CleanTag, Record, Release, ReadOk, ReadRefused, ReadFails, DiscardCopy,
         DiscardTag, Failure, AskFails, AcquireFails, StatFails, ResumeFails,
         StageInterrupted, StageFails, SealFails, ValidateFails, PromoteFails,
         RecordFails, ReadCancelled, DiscardTagFails, history
    <3>2. QED BY <3>1
  <2>3. QED BY <2>1, <2>2
<1>9. QED BY <1>2, <1>3, <1>6, <1>7, <1>8

\* Which steps make a caller promote, or end it.
LEMMA CallPromoting ==
  ASSUME IInv, NEW c \in Callers, GetFile(c) \/ Step(c) \/ Failure(c)
  PROVE  Promoting(c)' => StatSource(c) \/ (Promoting(c) /\ UNCHANGED ver)
<1>1. LocalsOK /\ Own(c)
  BY TypeParts DEF IInv, StageInv
<1> USE <1>1 DEF LocalsOK, Goto, locals
<1>2. CASE \/ GetFile(c) \/ LookCopy(c) \/ AskSource(c) \/ AskFails(c) \/ Compare(c)
           \/ CompareUnread(c) \/ AcquireLock(c) \/ AcquireFails(c) \/ StatRejected(c)
           \/ StatFails(c) \/ ResumeFails(c) \/ StageInterrupted(c) \/ StageFails(c)
           \/ SealFails(c) \/ PromoteFails(c) \/ RecordFails(c)
  <2>1. pc'[c] \in {"look", "ask", "compare", "read", "release", "lock", "stat", "idle"}
    BY <1>2 DEF GetFile, Begin, LookCopy, AskSource, AskFails, Compare, CompareUnread,
       Decide, Fresh, NotFresh, AcquireLock, AcquireFails, StatRejected, StatFails,
       ResumeFails, StageInterrupted, StageFails, SealFails, PromoteFails, RecordFails,
       FetchFails
  <2>2. QED BY <2>1 DEF Promoting
<1>3. CASE ResumePoint(c) \/ ResumeDiscard(c) \/ Stage(c) \/ Seal(c) \/ ValidateOk(c) \/ Clean(c)
  BY <1>3 DEF ResumePoint, ResumeFrom, ResumeDiscard, Stage, Seal, ValidateOk, Clean, Promoting
<1>4. CASE ValidateRefused(c) \/ ValidateFails(c) \/ Promote(c)
  BY <1>4 DEF ValidateRefused, ValidateFails, Promote, Promoting
<1>5. CASE CleanTag(c)
  <2>1. CASE FetchFails(c)
    BY <2>1 DEF FetchFails, Promoting
  <2>2. CASE pc'[c] = after[c] /\ UNCHANGED <<after, ver>> /\ after[c] # "failed"
    BY <1>5, <2>2 DEF CleanTag, Own, Promoting
  <2>3. QED BY <1>5, <2>1, <2>2 DEF CleanTag
<1>6. CASE \/ Record(c) \/ Release(c) \/ ReadOk(c) \/ ReadRefused(c) \/ ReadFails(c) \/ ReadCancelled(c)
           \/ DiscardCopy(c) \/ DiscardTag(c) \/ DiscardTagFails(c)
  <2>1. pc'[c] \in {"release", "idle", "read", "discard", "discardTag", "look"}
    BY <1>6 DEF Record, Release, Own, ReadOk, ReadRefused, ReadFails, ReadCancelled, DiscardCopy,
       DiscardTag, Begin, DiscardTagFails
  <2>2. QED BY <2>1 DEF Promoting
<1>7. QED BY <1>2, <1>3, <1>4, <1>5, <1>6 DEF Step, Failure

\* One caller at a time promotes, and it has the lock.
LEMMA OnePromotes ==
  ASSUME IInv, NEW c \in Callers, NEW d \in Callers, c # d, Holding(c)
  PROVE  ~Promoting(d) /\ ~Landed(d)
  BY DEF IInv, LockInv, Holding, Promoting, Landed, Fetching

LEMMA BodyAtLeast ==
  ASSUME NEW v \in Versions, NEW n \in Nat, AtLeast(Body(v), n)
  PROVE  v >= n
<1>1. 1 \in 1 .. Len(Body(v)) /\ Body(v)[1] = v
  BY BodyFacts
<1>2. QED BY <1>1 DEF AtLeast

LEMMA FloorStays ==
  ASSUME IInv, CurrentInv, [Next]_vars, NEW v \in Nat, Floor(v)
  PROVE  Floor(v)'
<1>1. /\ LocalsOK /\ DiskOK /\ src \in Nat /\ v <= src
      /\ \A c \in Callers : ver[c] \in Nat /\ (Promoting(c) => ver[c] >= v) /\ Newer(c)
  BY TypeParts, FileCacheAssumption
  DEF IInv, Floor, CurrentInv, LocalsOK, DiskOK, Versions
<1>2. ASSUME src' \in {src, src + 1}, copy' \in {copy, None},
             \A c \in Callers : Promoting(c)' => ver'[c] >= v
      PROVE  Floor(v)'
  <2>1. ASSUME NEW u \in Versions, copy' = Body(u) PROVE u >= v
    BY <1>2, <2>1, BodyFacts, NoneIsNoContent DEF Floor
  <2>2. QED BY <1>1, <1>2, <2>1 DEF Floor, Body
<1>3. ASSUME NEW c \in Callers, GetFile(c) \/ Step(c) \/ Failure(c)
      PROVE  Floor(v)'
  <2>1. \A d \in Callers : Promoting(d)' => ver'[d] >= v
    <3>1. ASSUME NEW d \in Callers, d # c, Promoting(d)' PROVE ver'[d] >= v
      BY <1>1, <1>3, <3>1, CallFrame, CallLocals DEF Promoting
    <3>2. ASSUME Promoting(c)' PROVE ver'[c] >= v
      BY <1>1, <1>3, <3>2, CallPromoting DEF StatSource, LocalsOK
    <3>3. QED BY <3>1, <3>2
  <2>2. src' = src
    BY <1>3, CallLocals
  <2>3. CASE pc[c] = "promote" /\ Promote(c)
    <3>1. copy' = Staged(c) /\ ver[c] >= v /\ AtLeast(Staged(c), ver[c])
      BY <1>1, <2>3 DEF Promote, Promoting, Newer
    <3>2. ASSUME NEW u \in Versions, copy' = Body(u) PROVE u >= v
      <4>1. u >= ver[c]
        BY <1>1, <3>1, <3>2, BodyAtLeast
      <4>2. QED BY <1>1, <3>1, <4>1 DEF Versions
    <3>3. QED BY <1>1, <2>1, <2>2, <3>2 DEF Floor, Body
  <2>4. CASE UNCHANGED copy
    BY <1>2, <2>1, <2>2, <2>4
  <2>5. CASE pc[c] = "discard"
    <3>1. copy' \in {copy, None}
      BY <1>3, <2>5 DEF GetFile, Step, LookCopy, AskSource, Compare, AcquireLock, StatSource,
         StatRejected, ResumePoint, ResumeDiscard, Stage, Seal, ValidateOk, ValidateRefused,
         Promote, Clean, CleanTag, Record, Release, ReadOk, ReadRefused, ReadFails, DiscardCopy,
         DiscardTag, Failure, AskFails, CompareUnread, AcquireFails, StatFails, ResumeFails,
         StageInterrupted, StageFails, SealFails, ValidateFails, PromoteFails, RecordFails,
         ReadCancelled, DiscardTagFails, Decide
    <3>2. QED BY <1>2, <2>1, <2>2, <3>1
  <2>6. QED BY <1>3, <2>3, <2>4, <2>5, CallFrame
<1>4. ASSUME UNCHANGED <<copy, ver, after>>, src' \in {src, src + 1},
             \A c \in Callers : pc'[c] \in {pc[c], "idle"}
      PROVE  Floor(v)'
  BY <1>1, <1>2, <1>4 DEF Promoting
<1>5. CASE Publish
  BY <1>4, <1>5 DEF Publish, disk, locals
<1>6. CASE Damage
  <2>1. /\ copy' = Damaged(copy) /\ copy \in Seq(0 .. MaxVersion)
        /\ UNCHANGED <<src, pc, after, ver>>
    BY <1>1, <1>6 DEF Damage, DiskOK, Contents, locals
  <2>2. ASSUME NEW u \in Versions, copy' = Body(u) PROVE FALSE
    <3>1. 1 \in 1 .. Len(copy') /\ copy'[1] = u /\ u # 0
      BY <2>2, BodyFacts DEF Versions
    <3>2. Len(copy) \in Nat /\ Damaged(copy) = [i \in 1 .. Len(copy) |-> 0]
      BY <2>1 DEF Damaged
    <3>3. QED BY <2>1, <3>1, <3>2
  <2>3. QED BY <1>1, <2>1, <2>2 DEF Floor, Body, Promoting
<1>7. ASSUME NEW k \in Clients, Crash(k) PROVE Floor(v)'
  BY <1>4, <1>7 DEF Crash, disk, locals
<1>8. CASE UNCHANGED vars
  BY <1>4, <1>8 DEF vars, disk, locals
<1>9. QED BY <1>3, <1>5, <1>6, <1>7, <1>8 DEF Next

LEMMA LowerFloor ==
  ASSUME TypeOK, NEW v \in Nat, Floor(v), NEW u \in Nat, u <= v
  PROVE  Floor(u)
<1>1. src \in Nat /\ \A c \in Callers : ver[c] \in Nat
  BY TypeParts, FileCacheAssumption DEF DiskOK, LocalsOK, Versions
<1>2. \A w \in Versions : w \in Nat
  BY DEF Versions
<1>3. QED BY <1>1, <1>2 DEF Floor

\* Once promoted, a copy is all there is to read.
LEMMA PromotedFloor ==
  ASSUME IInv, NEW c \in Callers, Promote(c), NEW v \in Nat, v <= src,
         \A u \in Versions : Staged(c) = Body(u) => u >= v
  PROVE  Floor(v)'
<1>1. LocalsOK
  BY TypeParts DEF IInv
<1>2. ~Promoting(c)'
  BY <1>1 DEF Promote, Goto, Promoting, LocalsOK
<1>3. ASSUME NEW d \in Callers, d # c PROVE ~Promoting(d)'
  <2>1. pc'[d] = pc[d] /\ after'[d] = after[d]
    BY <1>3, CallFrame DEF Step
  <2>2. ~Promoting(d)
    BY <1>3, OnePromotes DEF Promote, Holding, Fetching
  <2>3. QED BY <2>1, <2>2 DEF Promoting
<1>4. copy' = Staged(c) /\ src' = src
  BY DEF Promote
<1>5. QED BY <1>2, <1>3, <1>4 DEF Floor, Body

LEMMA AssembledAtLeast ==
  ASSUME NEW x \in Seq(0 .. MaxVersion), NEW n \in Nat, NEW v \in Versions, NEW m \in Nat,
         AtLeast(x, m), v >= m
  PROVE  AtLeast(x \o [i \in 1 .. n |-> v], m)
<1> DEFINE y == [i \in 1 .. n |-> v]
<1>1. y \in Seq(0 .. MaxVersion) /\ Len(y) = n /\ \A i \in 1 .. n : y[i] = v
  BY FileCacheAssumption DEF Versions
<1> HIDE DEF y
<1>2. /\ Len(x \o y) = Len(x) + n
      /\ \A i \in 1 .. Len(x) + n : (x \o y)[i] = IF i <= Len(x) THEN x[i] ELSE y[i - Len(x)]
  BY <1>1
<1>3. ASSUME NEW i \in 1 .. Len(x) + n PROVE (x \o y)[i] >= m
  BY <1>1, <1>2, <1>3 DEF AtLeast, Versions
<1>4. QED BY <1>2, <1>3 DEF AtLeast, y

\* What a transfer puts together is no older than what the caller asked about.
LEMMA AssembledNewer ==
  ASSUME IInv, CurrentInv, NEW c \in Callers, pc[c] = "stage", NEW n \in 0 .. Served(c)
  PROVE  /\ Assembled(c, n) \in Seq(0 .. MaxVersion) /\ AtLeast(Assembled(c, n), ver[c])
         /\ off[c] = 0 => AtLeast(Assembled(c, n), partTag)
<1> DEFINE x == IF off[c] > 0 THEN part ELSE <<>>
<1>1. /\ src \in Versions /\ src \in Nat /\ ver[c] \in Nat /\ partTag \in Nat
      /\ ver[c] <= src /\ partTag <= src /\ off[c] \in Nat /\ part \in Contents
      /\ Size[src] \in Nat \ {0}
  BY TypeParts, FileCacheAssumption
  DEF IInv, OrderInv, DiskOK, LocalsOK, Tags, Versions
<1>2. off[c] > 0 => part # None /\ AtLeast(part, ver[c])
  BY DEF IInv, StageInv, Own, CurrentInv, Newer
<1>3. x \in Seq(0 .. MaxVersion) /\ AtLeast(x, ver[c])
  <2>1. CASE off[c] > 0
    BY <1>1, <1>2, <2>1 DEF Contents
  <2>2. CASE ~(off[c] > 0)
    <3>1. x = <<>> /\ off[c] = 0
      BY <1>1, <2>2
    <3>2. <<>> \in Seq(0 .. MaxVersion) /\ Len(<<>>) = 0
      OBVIOUS
    <3> HIDE DEF x
    <3>3. QED BY <3>1, <3>2 DEF AtLeast
  <2>3. QED BY <2>1, <2>2
<1>4. off[c] = 0 => AtLeast(x, partTag)
  BY <1>1 DEF AtLeast
<1>5. Assembled(c, n) = x \o [i \in 1 .. n |-> src]
  BY DEF Assembled
<1>6. n \in Nat
  BY <1>1 DEF Served
<1> HIDE DEF x
<1>7. Assembled(c, n) \in Seq(0 .. MaxVersion)
  <2> DEFINE y == x \o [i \in 1 .. n |-> src]
  <2>1. y \in Seq(0 .. MaxVersion)
    BY <1>1, <1>3, <1>6, AssembledFacts
  <2>2. Assembled(c, n) = y
    BY <1>5
  <2> HIDE DEF y
  <2>3. QED BY <2>1, <2>2
<1>8. AtLeast(Assembled(c, n), ver[c])
  BY <1>1, <1>3, <1>5, <1>6, AssembledAtLeast
<1>9. off[c] = 0 => AtLeast(Assembled(c, n), partTag)
  BY <1>1, <1>3, <1>4, <1>5, <1>6, AssembledAtLeast
<1>10. QED BY <1>7, <1>8, <1>9

\* What a caller's step stages.
LEMMA CallNewer ==
  ASSUME IInv, CurrentInv, NEW c \in Callers, GetFile(c) \/ Step(c) \/ Failure(c)
  PROVE  Newer(c)' /\ PartGrows'
<1>1. LocalsOK /\ DiskOK /\ Own(c) /\ Newer(c) /\ PartGrows
  BY TypeParts DEF IInv, StageInv, CurrentInv
<1>2. /\ UNCHANGED src /\ ver[c] \in Nat /\ src \in Versions /\ src \in Nat /\ src <= src
      /\ Size[src] \in Nat \ {0} /\ ver[c] <= src
  BY <1>1, CallLocals, FileCacheAssumption DEF LocalsOK, DiskOK, Versions, IInv, OrderInv
<1> USE <1>1, <1>2 DEF LocalsOK, Goto, locals, disk
<1>3. ASSUME part' \in {part, None}, partTag' \in {partTag, NoTag} PROVE PartGrows'
  <2>1. CASE part' = None
    BY <2>1 DEF PartGrows
  <2>2. CASE part' = part /\ part # None
    <3>1. \A i \in 1 .. Len(part) : part[i] \in Nat
      <4>1. part \in Seq(0 .. MaxVersion) /\ MaxVersion \in Nat
        BY <2>2, FileCacheAssumption DEF DiskOK, Contents
      <4>2. QED BY <4>1
    <3>2. AtLeast(part, partTag) /\ AtLeast(part, 0)
      BY <2>2, <3>1 DEF PartGrows, AtLeast
    <3>3. QED BY <1>3, <2>2, <3>2 DEF PartGrows, NoTag, AtLeast
  <2>3. QED BY <1>3, <2>1, <2>2
<1>4. ASSUME pc'[c] \notin {"stage", "seal", "validate", "promote"},
             part' \in {part, None}, partTag' \in {partTag, NoTag}
      PROVE  Newer(c)' /\ PartGrows'
  BY <1>3, <1>4 DEF Newer
<1>5. ASSUME Staged(c)' = Staged(c), UNCHANGED ver,
             pc[c] \in {"seal", "validate", "promote"},
             pc'[c] \in {"validate", "promote"}
      PROVE  Newer(c)'
  <2>1. AtLeast(Staged(c), ver[c])
    BY <1>5 DEF Newer
  <2>2. QED BY <1>5, <2>1 DEF Newer, AtLeast
<1>6. CASE \/ GetFile(c) \/ LookCopy(c) \/ AskSource(c) \/ AskFails(c) \/ Compare(c)
           \/ CompareUnread(c) \/ AcquireLock(c) \/ AcquireFails(c) \/ StatSource(c)
           \/ StatRejected(c) \/ StatFails(c) \/ ResumeDiscard(c) \/ ResumeFails(c)
           \/ StageFails(c) \/ SealFails(c) \/ PromoteFails(c) \/ RecordFails(c)
           \/ ValidateRefused(c) \/ ValidateFails(c) \/ Promote(c) \/ Clean(c)
           \/ Record(c) \/ Release(c) \/ ReadOk(c) \/ ReadRefused(c) \/ ReadFails(c) \/ ReadCancelled(c)
           \/ DiscardCopy(c) \/ DiscardTag(c) \/ DiscardTagFails(c)
  <2>1. part' \in {part, None} /\ UNCHANGED partTag
    BY <1>6 DEF GetFile, LookCopy, AskSource, AskFails, Compare, CompareUnread, Decide,
       AcquireLock, AcquireFails, StatSource, StatRejected, StatFails, ResumeDiscard,
       ResumeFails, StageFails, SealFails, PromoteFails, RecordFails, ValidateRefused,
       ValidateFails, Promote, Clean, Record, Release, ReadOk, ReadRefused, ReadFails, ReadCancelled,
       DiscardCopy, DiscardTag, DiscardTagFails
  <2>2. pc'[c] \notin {"stage", "seal", "validate", "promote"}
    BY <1>6 DEF GetFile, Begin, LookCopy, AskSource, AskFails, Compare, CompareUnread, Decide,
       Fresh, NotFresh, FetchFails, Own,
       AcquireLock, AcquireFails, StatSource, StatRejected, StatFails, ResumeDiscard,
       ResumeFails, StageFails, SealFails, PromoteFails, RecordFails, ValidateRefused,
       ValidateFails, Promote, Clean, Record, Release, ReadOk, ReadRefused, ReadFails, ReadCancelled,
       DiscardCopy, DiscardTag, DiscardTagFails
  <2>3. QED BY <1>4, <2>1, <2>2
<1>7. CASE ResumePoint(c)
  <2>1. pc'[c] = "stage" /\ UNCHANGED <<part, partTag, ver>>
    BY <1>7 DEF ResumePoint, ResumeFrom
  <2>2. ASSUME off'[c] > 0 PROVE AtLeast(part, ver[c])
    <3>1. part # None /\ Resumable(c)
      BY <1>7, <2>2 DEF ResumePoint, ResumeFrom
    <3>2. partTag = ver[c]
      BY <3>1 DEF Resumable, ETag
    <3>3. QED BY <3>1, <3>2 DEF PartGrows
  <2>3. Newer(c)'
    BY <2>1, <2>2 DEF Newer, AtLeast
  <2>4. QED BY <1>3, <2>1, <2>3
<1>8. CASE Stage(c)
  <2> DEFINE x == Assembled(c, Served(c))
  <2>1. Served(c) \in 0 .. Served(c)
    BY DEF Served
  <2>2. AtLeast(x, ver[c]) /\ (off[c] = 0 => AtLeast(x, partTag))
    BY <1>8, <2>1, AssembledNewer DEF Stage
  <2> HIDE DEF x
  <2>3. /\ Write(c, x) /\ pc'[c] = "seal" /\ UNCHANGED <<partTag, ver, off>>
    BY <1>8 DEF Stage, x
  <2>4. Staged(c)' = x
    BY <2>3 DEF Staged, Write
  <2>5. Newer(c)'
    BY <2>2, <2>3, <2>4 DEF Newer, AtLeast
  <2>6. PartGrows'
    <3>1. CASE off[c] > 0
      BY <1>3, <2>3, <3>1 DEF Write
    <3>2. CASE off[c] = 0
      BY <2>2, <2>3, <3>2 DEF Write, PartGrows, AtLeast
    <3>3. QED BY <3>1, <3>2
  <2>7. QED BY <2>5, <2>6
<1>9. CASE StageInterrupted(c)
  <2>1. PICK n \in 0 .. Served(c) : Write(c, Assembled(c, n))
    BY <1>9 DEF StageInterrupted
  <2> DEFINE x == Assembled(c, n)
  <2>2. off[c] = 0 => AtLeast(x, partTag)
    BY <1>9, <2>1, AssembledNewer DEF StageInterrupted
  <2>3. Write(c, x)
    BY <2>1
  <2> HIDE DEF x
  <2>4. pc'[c] = "look" /\ UNCHANGED partTag
    BY <1>9 DEF StageInterrupted, FetchFails
  <2>5. Newer(c)'
    BY <2>4 DEF Newer
  <2>6. PartGrows'
    <3>1. CASE off[c] > 0
      BY <1>3, <2>3, <2>4, <3>1 DEF Write
    <3>2. CASE off[c] = 0
      BY <2>2, <2>3, <2>4, <3>2 DEF Write, PartGrows, AtLeast
    <3>3. QED BY <3>1, <3>2
  <2>7. QED BY <2>5, <2>6
<1>10. CASE Seal(c)
  <2>1. /\ pc[c] = "seal" /\ pc'[c] \in {"validate", "promote"}
        /\ UNCHANGED <<part, resume, off, ver>>
        /\ partTag' = IF off[c] = 0 /\ HasETag THEN ETag(ver[c]) ELSE partTag
    BY <1>10 DEF Seal
  <2>2. Staged(c)' = Staged(c)
    BY <2>1 DEF Staged
  <2>3. Newer(c)'
    BY <1>5, <2>1, <2>2
  <2>4. CASE off[c] = 0 /\ HasETag
    <3>1. partTag' = ver[c] /\ AtLeast(part, ver[c])
      BY <2>1, <2>4 DEF ETag, Newer, Staged
    <3>2. QED BY <2>1, <2>3, <3>1 DEF PartGrows, AtLeast
  <2>5. CASE ~(off[c] = 0 /\ HasETag)
    BY <1>3, <2>1, <2>3, <2>5
  <2>6. QED BY <2>4, <2>5
<1>11. CASE ValidateOk(c)
  <2>1. /\ pc[c] = "validate" /\ pc'[c] = "promote"
        /\ UNCHANGED <<part, partTag, resume, off, ver>>
    BY <1>11 DEF ValidateOk
  <2>2. Staged(c)' = Staged(c)
    BY <2>1 DEF Staged
  <2>3. QED BY <1>3, <1>5, <2>1, <2>2
<1>12. CASE CleanTag(c)
  <2>1. UNCHANGED part /\ partTag' \in {partTag, NoTag}
    BY <1>12 DEF CleanTag
  <2>2. CASE FetchFails(c)
    BY <1>4, <2>1, <2>2 DEF FetchFails
  <2>3. CASE pc'[c] = after[c] /\ UNCHANGED off
    BY <1>3, <1>12, <2>1, <2>3 DEF CleanTag, Own, Newer
  <2>4. QED BY <1>12, <2>2, <2>3 DEF CleanTag
<1>13. QED
  BY <1>6, <1>7, <1>8, <1>9, <1>10, <1>11, <1>12 DEF Step, Failure

\* What a caller's step lets it count on.
LEMMA CallCurrent ==
  ASSUME IInv, CurrentInv, [Next]_vars,
         NEW c \in Callers, GetFile(c) \/ Step(c) \/ Failure(c)
  PROVE  start'[c] <= src' /\ Current(c)'
<1>1. /\ LocalsOK /\ HistoryOK /\ DiskOK /\ Own(c) /\ Current(c) /\ Newer(c)
      /\ start[c] <= src /\ TypeOK
  BY TypeParts DEF IInv, StageInv, CurrentInv
<1>2. /\ UNCHANGED src /\ ver[c] \in Versions /\ ver[c] \in Nat /\ src \in Nat
      /\ start[c] \in Nat /\ ver[c] <= src
  BY <1>1, CallLocals, FileCacheAssumption
  DEF LocalsOK, HistoryOK, DiskOK, Versions, IInv, OrderInv
<1>3. \A v \in Nat : Floor(v) => Floor(v)'
  BY FloorStays
<1>4. start'[c] <= src'
  <2>1. CASE GetFile(c)
    <3>1. start' = [start EXCEPT ![c] = src] /\ src' = src
      BY <1>2, <2>1 DEF GetFile
    <3>2. start \in [Callers -> Versions]
      BY <1>1 DEF HistoryOK
    <3>3. QED BY <1>2, <3>1, <3>2
  <2>2. CASE UNCHANGED start
    BY <1>1, <1>2, <2>2
  <2>3. QED BY <2>1, <2>2, CallLocals
<1> SUFFICES Current(c)'
  BY <1>4
<1> USE <1>1, <1>2 DEF LocalsOK, Goto, locals, disk
<1>5. ASSUME pc'[c] # "compare", ~Promoting(c)', ~Landed(c)', ~Reading(c)'
      PROVE  Current(c)'
  BY <1>5 DEF Current
<1>6. ASSUME pc'[c] \in {"idle", "look", "lock", "stat", "discard", "discardTag"}
      PROVE  Current(c)'
  BY <1>5, <1>6 DEF Promoting, Landed, Reading
<1>7. ASSUME NotFresh(c) PROVE Current(c)'
  BY <1>5, <1>7 DEF NotFresh, Promoting, Landed, Reading
<1>8. ASSUME Floor(ver[c]), ver[c] >= start[c], UNCHANGED <<ver, start>>,
             Landed(c)' \/ pc'[c] \in {"read", "release"}
      PROVE  Current(c)'
  <2>1. Floor(ver[c])' /\ Floor(start[c])'
    <3>1. Floor(start[c])
      BY <1>8, LowerFloor
    <3>2. QED BY <1>3, <1>8, <3>1
  <2>2. ver'[c] >= start'[c]
    BY <1>8
  <2>3. QED BY <2>1, <2>2 DEF Current
<1>9. CASE \/ GetFile(c) \/ AcquireLock(c) \/ AcquireFails(c) \/ StatRejected(c) \/ StatFails(c)
           \/ ResumeFails(c) \/ StageInterrupted(c) \/ StageFails(c) \/ SealFails(c)
           \/ PromoteFails(c) \/ RecordFails(c) \/ ReadOk(c) \/ ReadRefused(c)
           \/ ReadFails(c) \/ ReadCancelled(c) \/ DiscardCopy(c) \/ DiscardTag(c) \/ DiscardTagFails(c)
  <2>1. pc'[c] \in {"idle", "look", "lock", "stat", "discard", "discardTag"}
    BY <1>9 DEF GetFile, Begin, AcquireLock, AcquireFails, StatRejected, StatFails,
       ResumeFails, StageInterrupted, StageFails, SealFails, PromoteFails, RecordFails,
       FetchFails, ReadOk, ReadRefused, ReadFails, ReadCancelled, DiscardCopy, DiscardTag,
       DiscardTagFails
  <2>2. QED BY <1>6, <2>1
<1>10. CASE LookCopy(c)
  <2>1. CASE copy = None
    BY <1>7, <1>10, <2>1 DEF LookCopy
  <2>2. CASE copy # None
    BY <1>5, <1>10, <2>2 DEF LookCopy, Promoting, Landed, Reading
  <2>3. QED BY <2>1, <2>2
<1>11. CASE AskSource(c)
  <2>1. pc'[c] = "compare" /\ ver'[c] = src /\ UNCHANGED start
    BY <1>11 DEF AskSource, history, begun
  <2>2. QED BY <2>1 DEF Current, Promoting, Landed, Reading
<1>12. CASE Compare(c) \/ CompareUnread(c)
  <2>1. PICK recorded \in {tag, NoTag} : Decide(c, recorded)
    BY <1>12 DEF Compare, CompareUnread
  <2>2. CASE ~Unchanged(c, recorded)
    BY <1>7, <2>1, <2>2 DEF Decide
  <2>3. CASE Unchanged(c, recorded)
    <3>1. /\ pc[c] = "compare" /\ UNCHANGED <<ver, start>> /\ pc'[c] \in {"read", "release"}
      BY <2>1, <2>3 DEF Decide, Fresh, history, begun
    <3>2. ver[c] >= start[c]
      BY <3>1 DEF Current
    <3>3. CASE TwoETags(c, recorded)
      <4>1. tag = ver[c]
        BY <2>1, <2>3, <3>3 DEF Unchanged, TwoETags, ETag
      <4>2. Floor(ver[c])
        BY <4>1 DEF CurrentInv
      <4>3. QED BY <1>8, <3>1, <3>2, <4>2
    <3>4. CASE ~TwoETags(c, recorded)
      <4>1. bySize' = [bySize EXCEPT ![c] = TRUE]
        BY <2>1, <2>3, <3>4 DEF Decide
      <4>2. bySize'[c]
        BY <4>1 DEF HistoryOK
      <4>3. QED BY <3>1, <4>2 DEF Current, Promoting, Landed
    <3>5. QED BY <3>3, <3>4
  <2>4. QED BY <2>2, <2>3
<1>13. CASE AskFails(c)
  BY <1>7, <1>13 DEF AskFails
<1>14. ASSUME Promoting(c)' PROVE Current(c)'
  <2>1. UNCHANGED start
    BY <1>14, CallLocals DEF GetFile, Begin, Promoting
  <2>2. ver'[c] >= start'[c]
    BY <1>14, <2>1, CallPromoting DEF StatSource, Current
  <2>3. QED BY <1>14, <2>2 DEF Current, Promoting, Landed, Reading
<1>15. CASE \/ StatSource(c) \/ ResumePoint(c) \/ ResumeDiscard(c) \/ Stage(c) \/ Seal(c)
            \/ ValidateOk(c)
  <2>1. Promoting(c)'
    BY <1>15 DEF StatSource, ResumePoint, ResumeFrom, ResumeDiscard, Stage, Seal, ValidateOk,
       Promoting
  <2>2. QED BY <1>14, <2>1
<1>16. CASE ValidateRefused(c) \/ ValidateFails(c)
  <2>1. pc'[c] = "clean" /\ after'[c] = "failed"
    BY <1>16 DEF ValidateRefused, ValidateFails
  <2>2. QED BY <1>5, <2>1 DEF Promoting, Landed, Reading
<1>17. CASE Promote(c)
  <2>1. /\ pc[c] = "promote" /\ pc'[c] = "clean" /\ after'[c] = "record"
        /\ UNCHANGED <<ver, start>>
    BY <1>17 DEF Promote, history, begun
  <2>2. ver[c] >= start[c] /\ AtLeast(Staged(c), ver[c])
    BY <2>1 DEF Current, Promoting, Newer
  <2>3. \A u \in Versions : Staged(c) = Body(u) => u >= ver[c]
    BY <2>2, BodyAtLeast
  <2>4. Floor(ver[c])'
    <3>1. \A v \in Nat : v = ver[c] => Floor(v)'
      BY <1>17, <2>3, PromotedFloor
    <3>2. QED BY <2>1, <3>1
  <2>5. QED BY <2>1, <2>2, <2>4 DEF Current, Promoting, Landed, Reading
<1>18. CASE Clean(c) \/ CleanTag(c)
  <2>1. UNCHANGED <<ver, start, after>> \/ FetchFails(c)
    BY <1>18 DEF Clean, CleanTag, history, begun
  <2>2. CASE FetchFails(c)
    BY <1>6, <2>2 DEF FetchFails
  <2>3. CASE ~FetchFails(c)
    <3>1. /\ pc[c] \in {"clean", "cleanTag"} /\ UNCHANGED <<ver, start, after>>
          /\ pc'[c] \in {"cleanTag", after[c]}
      BY <1>18, <2>1, <2>3 DEF Clean, CleanTag
    <3>2. after[c] \in {"stage", "failed", "record"}
      BY <3>1 DEF Own
    <3>3. CASE after[c] = "stage"
      BY <1>14, <3>1, <3>3 DEF Promoting
    <3>4. CASE after[c] = "failed"
      BY <1>18, <2>3, <3>1, <3>4, <1>5 DEF Clean, CleanTag, Promoting, Landed, Reading
    <3>5. CASE after[c] = "record"
      <4>1. Landed(c) /\ Landed(c)'
        BY <3>1, <3>5 DEF Landed
      <4>2. QED BY <1>8, <3>1, <4>1 DEF Current
    <3>6. QED BY <3>2, <3>3, <3>4, <3>5
  <2>4. QED BY <2>2, <2>3
<1>19. CASE Record(c)
  <2>1. Landed(c) /\ pc'[c] = "release" /\ UNCHANGED <<ver, start>>
    BY <1>19 DEF Record, Landed, history, begun
  <2>2. QED BY <1>8, <2>1 DEF Current
<1>20. CASE Release(c)
  <2>1. /\ pc[c] = "release" /\ pc'[c] = after[c] /\ UNCHANGED <<start, after, bySize>>
        /\ after[c] \in {"idle", "read"}
    BY <1>20 DEF Release, Own, history, begun
  <2>2. CASE after[c] = "idle"
    BY <1>6, <2>1, <2>2
  <2>3. CASE after[c] = "read"
    <3>1. ~bySize[c] => Floor(start[c])
      BY <2>1, <2>3 DEF Current, Reading
    <3>2. ~bySize[c] => \A v \in Nat : v = start[c] => Floor(v)'
      BY <1>3, <3>1
    <3>3. QED BY <2>1, <2>3, <3>2 DEF Current, Promoting, Landed
  <2>4. QED BY <2>1, <2>2, <2>3
<1>21. Current(c)'
  BY <1>9, <1>10, <1>11, <1>12, <1>13, <1>15, <1>16, <1>17, <1>18, <1>19, <1>20
  DEF Step, Failure
<1>22. QED BY <1>21

\* A caller that takes no step counts on what it did before.
LEMMA StillCurrent ==
  ASSUME IInv, CurrentInv, [Next]_vars, NEW d \in Callers, pc'[d] \in {pc[d], "idle"},
         after'[d] = after[d], off'[d] = off[d], ver'[d] = ver[d], bySize'[d] = bySize[d],
         start'[d] = start[d], src' \in {src, src + 1},
         pc[d] \in {"stage", "seal", "validate", "promote"} => UNCHANGED <<part, resume>>
  PROVE  start'[d] <= src' /\ Newer(d)' /\ Current(d)'
<1>1. /\ src \in Nat /\ start[d] \in Nat /\ start[d] <= src /\ ver[d] \in Nat
      /\ Newer(d) /\ Current(d) /\ \A w \in Versions : w \in Nat
  BY TypeParts, FileCacheAssumption
  DEF IInv, CurrentInv, LocalsOK, HistoryOK, DiskOK, Versions
<1>2. start'[d] <= src' /\ \A w \in Versions : w <= src => w <= src'
  BY <1>1
<1>3. \A v \in Nat : Floor(v) => Floor(v)'
  BY FloorStays
<1>4. Newer(d)'
  <2>1. CASE pc[d] = "stage" /\ pc'[d] = pc[d]
    <3>1. UNCHANGED part /\ (off[d] > 0 => AtLeast(part, ver[d]))
      BY <1>1, <2>1 DEF Newer
    <3>2. QED BY <2>1, <3>1 DEF Newer, AtLeast
  <2>2. CASE pc[d] \in {"seal", "validate", "promote"} /\ pc'[d] = pc[d]
    <3>1. Staged(d)' = Staged(d)
      BY <2>2 DEF Staged
    <3>2. AtLeast(Staged(d), ver[d])
      BY <1>1, <2>2 DEF Newer
    <3>3. \A i \in 1 .. Len(Staged(d)') : Staged(d)'[i] >= ver'[d]
      BY <3>1, <3>2 DEF AtLeast
    <3>4. QED BY <2>2, <3>3 DEF Newer, AtLeast
  <2>3. QED BY <2>1, <2>2 DEF Newer
<1>5. Current(d)'
  <2>1. CASE pc'[d] = "idle"
    BY <2>1 DEF Current, Promoting, Landed, Reading
  <2>2. CASE pc'[d] = pc[d]
    <3>1. Promoting(d)' = Promoting(d) /\ Landed(d)' = Landed(d) /\ Reading(d)' = Reading(d)
      BY <2>2 DEF Promoting, Landed, Reading
    <3>2. Landed(d) => Floor(ver[d])'
      <4>1. Landed(d) => Floor(ver[d])
        BY <1>1 DEF Current
      <4>2. ASSUME Landed(d) PROVE \A v \in Nat : v = ver[d] => Floor(v)'
        BY <1>3, <4>1, <4>2
      <4>3. QED BY <1>1, <4>2
    <3>3. ~bySize[d] /\ Reading(d) => Floor(start[d])'
      <4>1. ~bySize[d] /\ Reading(d) => Floor(start[d])
        BY <1>1 DEF Current
      <4>2. ASSUME ~bySize[d], Reading(d) PROVE \A v \in Nat : v = start[d] => Floor(v)'
        BY <1>3, <4>1, <4>2
      <4>3. QED BY <1>1, <4>2
    <3>4. QED BY <1>1, <2>2, <3>1, <3>2, <3>3 DEF Current
  <2>3. QED BY <2>1, <2>2
<1>6. QED BY <1>2, <1>4, <1>5

\* What is recorded of the copy after a caller's step.
LEMMA CallCopy ==
  ASSUME IInv, CurrentInv, [Next]_vars,
         NEW c \in Callers, GetFile(c) \/ Step(c) \/ Failure(c)
  PROVE  Floor(tag)'
<1>1. /\ \A d \in Callers : ver[d] \in Nat
      /\ tag \in Nat /\ Newer(c) /\ Current(c) /\ src \in Nat
      /\ \A w \in Versions : w \in Nat
  BY TypeParts, FileCacheAssumption
  DEF IInv, CurrentInv, LocalsOK, DiskOK, Tags, Versions
<1>2. \A v \in Nat : Floor(v) => Floor(v)'
  BY FloorStays
<1>3. Floor(tag)'
  <2>1. PICK v \in Nat : tag' = v /\ Floor(v)
    <3>1. CASE Record(c)
      <4>1. Floor(ver[c]) /\ Floor(tag) /\ tag' \in {tag, ver[c]}
        BY <1>1, <3>1 DEF Record, ETag, Current, CurrentInv, Landed
      <4>2. QED BY <1>1, <4>1
    <3>2. CASE ~Record(c)
      <4>1. tag' \in {tag, NoTag}
        BY <3>2 DEF GetFile, Step, LookCopy, AskSource, Compare, AcquireLock, StatSource,
           StatRejected, ResumePoint, ResumeDiscard, Stage, Seal, ValidateOk, ValidateRefused,
           Promote, Clean, CleanTag, Release, ReadOk, ReadRefused, ReadFails, DiscardCopy,
           DiscardTag, Failure, AskFails, CompareUnread, AcquireFails, StatFails, ResumeFails,
           StageInterrupted, StageFails, SealFails, ValidateFails, PromoteFails, RecordFails,
           ReadCancelled, DiscardTagFails, Decide, disk
      <4>2. Floor(tag) /\ Floor(NoTag)
        BY <1>1, LowerFloor DEF CurrentInv, NoTag, IInv
      <4>3. QED BY <1>1, <4>1, <4>2 DEF NoTag
    <3>3. QED BY <3>1, <3>2
  <2>2. Floor(v)'
    BY <1>2, <2>1
  <2>3. QED BY <2>1, <2>2
<1>4. QED BY <1>3

LEMMA CurrentStep ==
  ASSUME IInv, CurrentInv, [Next]_vars
  PROVE  CurrentInv'
<1>1. src \in Nat /\ src \in Versions /\ tag \in Nat
  BY TypeParts, FileCacheAssumption DEF IInv, DiskOK, Tags, Versions
<1>2. ASSUME NEW c \in Callers, GetFile(c) \/ Step(c) \/ Failure(c) PROVE CurrentInv'
  <2>1. Floor(tag)'
    BY <1>2, CallCopy
  <2>2. PartGrows' /\ Newer(c)' /\ start'[c] <= src' /\ Current(c)'
    BY <1>2, CallNewer, CallCurrent
  <2>3. ASSUME NEW d \in Callers, d # c
        PROVE  start'[d] <= src' /\ Newer(d)' /\ Current(d)'
    <3>1. /\ pc'[d] = pc[d] /\ after'[d] = after[d] /\ off'[d] = off[d] /\ ver'[d] = ver[d]
          /\ bySize'[d] = bySize[d] /\ start'[d] = start[d] /\ src' = src
          /\ UNCHANGED <<part, resume>> \/ Holding(c)
      BY <1>2, <2>3, CallFrame, CallLocals
    <3>2. pc[d] \in {"stage", "seal", "validate", "promote"} => ~Holding(c)
      BY <2>3, OnePromotes DEF Promoting
    <3>3. QED BY <3>1, <3>2, StillCurrent
  <2>4. QED BY <2>1, <2>2, <2>3 DEF CurrentInv
<1>3. ASSUME UNCHANGED <<tag, part, partTag, resume, after, off, ver, bySize, start>>,
             src' \in {src, src + 1},
             \A d \in Callers : pc'[d] \in {pc[d], "idle"}
      PROVE  CurrentInv'
  <2>1. Floor(tag)'
    <3>1. \A v \in Nat : v = tag => Floor(v)'
      BY FloorStays DEF CurrentInv
    <3>2. QED BY <1>1, <1>3, <3>1
  <2>2. PartGrows'
    BY <1>3 DEF CurrentInv, PartGrows, AtLeast
  <2>3. \A d \in Callers : start'[d] <= src' /\ Newer(d)' /\ Current(d)'
    BY <1>3, StillCurrent
  <2>4. QED BY <2>1, <2>2, <2>3 DEF CurrentInv
<1>4. CASE Publish
  BY <1>1, <1>3, <1>4 DEF Publish, disk, locals, history, begun
<1>5. CASE Damage
  BY <1>1, <1>3, <1>5 DEF Damage, locals, history, begun
<1>6. ASSUME NEW k \in Clients, Crash(k) PROVE CurrentInv'
  BY <1>1, <1>3, <1>6 DEF Crash, disk, locals, history, begun
<1>7. CASE UNCHANGED vars
  BY <1>1, <1>3, <1>7 DEF vars, disk, locals, history, begun
<1>8. QED BY <1>2, <1>4, <1>5, <1>6, <1>7 DEF Next

\* A call reads nothing older than what the source served when it began, unless
\* an ETag was missing and its copy had the size of what the source then served:
\* whatever the versions' sizes, no crash, failure, concurrent discard or change of
\* the source in the middle of a transfer opens another way to an old copy.
THEOREM AnswersAreCurrent == Spec => AnswersCurrent
<1>1. Init => CurrentInv
  <2> SUFFICES ASSUME Init PROVE CurrentInv
    OBVIOUS
  <2>1. Floor(0) /\ Floor(1)
    BY BodyFacts, NoneIsNoContent DEF Init, Floor, Promoting, Versions
  <2>2. QED
    BY <2>1 DEF Init, CurrentInv, PartGrows, Newer, Current, Promoting, Landed, Reading, NoTag
<1>2. IInv /\ CurrentInv /\ [Next]_vars => CurrentInv'
  BY CurrentStep
<1>3. IInv /\ CurrentInv /\ [Next]_vars =>
        [\A c \in Callers : ReadOk(c) /\ ~bySize[c] =>
           \E v \in Versions : v >= start[c] /\ copy = Body(v)]_vars
  <2> SUFFICES ASSUME IInv, CurrentInv, NEW c \in Callers, ReadOk(c), ~bySize[c]
               PROVE  \E v \in Versions : v >= start[c] /\ copy = Body(v)
    OBVIOUS
  <2>1. PICK v \in Readable : copy = Body(v)
    BY DEF ReadOk, Accepted
  <2>2. v \in Versions
    BY FileCacheAssumption
  <2>3. Floor(start[c])
    BY DEF CurrentInv, Current, Reading, ReadOk
  <2>4. QED BY <2>1, <2>2, <2>3 DEF Floor
<1>4. QED BY <1>1, <1>2, <1>3, Invariant, PTL DEF Spec, AnswersCurrent
--------------------------------------------------------------------------------
(* A caller alone with the cache, and a call during which nothing goes wrong.   *)

\* What a caller alone downloads stays as it landed.
Untouched(c) ==
    Alone(c) =>
      /\ Landed(c) => copy # None
      /\ ok[c] /\ ver[c] = src /\ pc[c] \in {"release", "read"} => copy = Body(src)

\* What Heals asks of the source: the version it serves is acceptable, is the one
\* it served when the call began, and was not on record as rejected then.
Offered(c) == src = start[c] /\ Acceptable(src) /\ barred[c] # src

Healing(c) == Alone(c) /\ pc[c] # "idle" /\ faults = calm[c] /\ Offered(c)

\* It fetches what the source serves, without failing, and only a copy that was
\* there before can be refused, once.
Mended(c) ==
    /\ phase[c] # "failed" /\ (pc[c] \in {"clean", "cleanTag"} => after[c] # "failed")
    /\ rejected[ClientOf[c]] # src
    /\ pc[c] = "validate" => work.validated
    /\ pc[c] \in Fetching => ver[c] = src
    /\ pc[c] \in {"ask", "compare", "release", "read", "discard"} => copy # None
    /\ pc[c] = "discardTag" => copy = None
    /\ pc[c] = "release" => after[c] = "read"
    /\ ok[c] => pc[c] \in {"release", "read"} /\ ver[c] = src
    /\ second[c] => /\ pc[c] \notin {"ask", "compare", "discard", "discardTag"}
                    /\ pc[c] \in {"look", "lock", "stat"} \/ Promoting(c) => copy = None
                    /\ pc[c] \in {"release", "read"} => copy = Body(src)

HealInv ==
    \A c \in Callers : /\ calm[c] <= faults /\ start[c] <= src
                       /\ Untouched(c) /\ (Healing(c) => Mended(c))

\* A step after which there were no more faults than before the call is no fault.
LEMMA CalmStep ==
  ASSUME TypeOK, NEW c \in Callers, calm[c] <= faults, Step(c) \/ Failure(c)
  PROVE  /\ pc[c] # "idle" /\ faults' \in Nat /\ faults <= faults'
         /\ faults' = calm[c] =>
              Step(c) /\ ~Fault("io") /\ ~Fault("read") /\ faults' = faults
<1>1. faults \in Nat /\ calm[c] \in Nat
  BY TypeParts DEF HistoryOK
<1>2. Failure(c) => Fault("io") \/ Fault("read")
  BY DEF Failure, AskFails, CompareUnread, AcquireFails, StatFails, ResumeFails,
     StageInterrupted, StageFails, SealFails, ValidateFails, PromoteFails, RecordFails,
     ReadFails, ReadCancelled, DiscardTagFails
<1>3. Step(c) => UNCHANGED faults \/ Fault("io")
  BY DEF Step, LookCopy, AskSource, Compare, AcquireLock, StatSource, StatRejected,
     ResumePoint, ResumeDiscard, Stage, Seal, ValidateOk, ValidateRefused, Promote,
     Clean, CleanTag, Record, Release, ReadOk, ReadRefused, ReadFails, DiscardCopy, DiscardTag
<1>4. Fault("io") \/ Fault("read") => faults' = faults + 1
  BY DEF Fault
<1>5. pc[c] # "idle"
  BY DEF Step, LookCopy, AskSource, Compare, AcquireLock, StatSource, StatRejected,
     ResumePoint, ResumeDiscard, Stage, Seal, ValidateOk, ValidateRefused, Promote,
     Clean, CleanTag, Record, Release, ReadOk, ReadRefused, ReadFails, DiscardCopy, DiscardTag, Decide,
     Failure, AskFails, CompareUnread, AcquireFails, StatFails, ResumeFails,
     StageInterrupted, StageFails, SealFails, ValidateFails, PromoteFails, RecordFails,
     ReadFails, ReadCancelled, DiscardTagFails
<1>6. QED BY <1>1, <1>2, <1>3, <1>4, <1>5

\* Where a caller's step leaves a copy it landed.
LEMMA LandedStep ==
  ASSUME IInv, NEW c \in Callers, GetFile(c) \/ Step(c) \/ Failure(c)
  PROVE  /\ Landed(c)' => Promote(c) \/ (Landed(c) /\ UNCHANGED copy)
         /\ pc[c] \in {"release", "read"} => UNCHANGED <<copy, ver>>
<1>1. LocalsOK /\ Own(c)
  BY TypeParts DEF IInv, StageInv
<1> USE <1>1 DEF LocalsOK, Goto, locals
<1>2. CASE pc[c] \in {"release", "read"}
  <2>1. Release(c) \/ ReadOk(c) \/ ReadRefused(c) \/ ReadFails(c) \/ ReadCancelled(c)
    BY <1>2 DEF GetFile, Step, LookCopy, AskSource, Compare, AcquireLock, StatSource,
       StatRejected, ResumePoint, ResumeDiscard, Stage, Seal, ValidateOk, ValidateRefused,
       Promote, Clean, CleanTag, Record, DiscardCopy, DiscardTag, Decide, Failure, AskFails,
       CompareUnread, AcquireFails, StatFails, ResumeFails, StageInterrupted, StageFails,
       SealFails, ValidateFails, PromoteFails, RecordFails, DiscardTagFails
  <2>2. UNCHANGED <<copy, ver>> /\ pc'[c] \in {"idle", "read", "discard"}
    BY <2>1 DEF Release, ReadOk, ReadRefused, ReadFails, ReadCancelled, Own, disk
  <2>3. ~Landed(c)'
    BY <2>2 DEF Landed
  <2>4. QED BY <2>2, <2>3
<1>3. CASE Clean(c) \/ CleanTag(c)
  <2>1. Landed(c)' => Landed(c)
    BY <1>3 DEF Clean, CleanTag, FetchFails, Own, Landed
  <2>2. UNCHANGED copy /\ pc[c] \notin {"release", "read"}
    BY <1>3 DEF Clean, CleanTag
  <2>3. QED BY <2>1, <2>2
<1>4. CASE Promote(c)
  BY <1>4 DEF Promote
<1>5. CASE pc[c] \notin {"release", "read"} /\ ~(Clean(c) \/ CleanTag(c) \/ Promote(c))
  <2>1. CASE Promoting(c)'
    BY <1>5, <2>1 DEF Promoting, Landed
  <2>2. CASE ~Promoting(c)'
    <3>1. CASE ValidateRefused(c) \/ ValidateFails(c)
      BY <1>5, <3>1 DEF ValidateRefused, ValidateFails, Landed
    <3>2. CASE \/ GetFile(c) \/ LookCopy(c) \/ AskSource(c) \/ AskFails(c) \/ Compare(c)
               \/ CompareUnread(c) \/ AcquireLock(c) \/ AcquireFails(c) \/ StatRejected(c)
               \/ StatFails(c) \/ ResumeFails(c) \/ StageInterrupted(c) \/ StageFails(c)
               \/ SealFails(c) \/ PromoteFails(c) \/ RecordFails(c)
      <4>1. pc'[c] \in {"look", "ask", "compare", "read", "release", "lock", "stat", "idle"}
        BY <3>2 DEF GetFile, Begin, LookCopy, AskSource, AskFails, Compare, CompareUnread,
           Decide, Fresh, NotFresh, AcquireLock, AcquireFails, StatRejected, StatFails,
           ResumeFails, StageInterrupted, StageFails, SealFails, PromoteFails, RecordFails,
           FetchFails
      <4>2. QED BY <1>5, <4>1 DEF Landed
    <3>3. CASE StatSource(c) \/ ResumePoint(c) \/ ResumeDiscard(c) \/ Stage(c) \/ Seal(c)
               \/ ValidateOk(c)
      BY <2>2, <3>3 DEF StatSource, ResumePoint, ResumeFrom, ResumeDiscard, Stage, Seal,
         ValidateOk, Promoting
    <3>4. CASE Record(c) \/ DiscardCopy(c) \/ DiscardTag(c) \/ DiscardTagFails(c)
      <4>1. pc'[c] \in {"release", "idle", "discardTag", "look"}
        BY <3>4 DEF Record, DiscardCopy, DiscardTag, Begin, DiscardTagFails
      <4>2. QED BY <1>5, <4>1 DEF Landed
    <3>5. CASE Release(c) \/ ReadOk(c) \/ ReadRefused(c) \/ ReadFails(c) \/ ReadCancelled(c)
      BY <1>5, <3>5 DEF Release, ReadOk, ReadRefused, ReadFails, ReadCancelled
    <3>6. QED BY <1>5, <3>1, <3>2, <3>3, <3>4, <3>5 DEF Step, Failure
  <2>3. QED BY <2>1, <2>2
<1>6. QED BY <1>2, <1>3, <1>4, <1>5

LEMMA CallUntouched ==
  ASSUME IInv, RefusalInv, NEW c \in Callers, Untouched(c), UNCHANGED work,
         GetFile(c) \/ Step(c) \/ Failure(c)
  PROVE  Untouched(c)'
<1> SUFFICES ASSUME Alone(c) PROVE Untouched(c)'
  BY DEF Untouched, Alone
<1>1. /\ LocalsOK /\ DiskOK /\ Own(c) /\ Refusal(c) /\ ver[c] \in Versions
      /\ ClientOf[c] \in Clients /\ src \in Versions /\ src # NoTag
  BY TypeParts, FileCacheAssumption
  DEF IInv, StageInv, RefusalInv, LocalsOK, DiskOK, Versions, NoTag
<1>2. UNCHANGED src
  BY CallLocals
<1>3. Landed(c)' => copy' # None
  <2>1. CASE Promote(c)
    BY <1>1, <2>1 DEF Promote, Own
  <2>2. QED BY <2>1, LandedStep DEF Untouched
<1>4. ASSUME ok'[c], ver'[c] = src', pc'[c] \in {"release", "read"}
      PROVE  copy' = Body(src)
  <2>1. Record(c) \/ (ok[c] /\ pc[c] \in {"release", "read"})
    BY <1>1, <1>4, CallRefusal
  <2>2. CASE Record(c)
    <3>1. Landed(c) /\ UNCHANGED <<copy, ver>>
      BY <2>2 DEF Record, Landed
    <3>2. ver[c] = src => copy = Body(src)
      BY <1>1, <3>1 DEF Own, Untouched
    <3>3. QED BY <1>2, <1>4, <3>1, <3>2
  <2>3. CASE ok[c] /\ pc[c] \in {"release", "read"}
    <3>1. UNCHANGED <<copy, ver>>
      BY <2>3, LandedStep
    <3>2. ver[c] = src => copy = Body(src)
      BY <2>3 DEF Untouched
    <3>3. QED BY <1>2, <1>4, <3>1, <3>2
  <2>4. QED BY <2>1, <2>2, <2>3
<1>5. Body(src)' = Body(src)
  BY <1>2 DEF Body
<1>6. QED BY <1>2, <1>3, <1>4, <1>5 DEF Untouched

\* Its steps, one by one.
LEMMA StepMended ==
  ASSUME IInv, RefusalInv, NEW c \in Callers, Untouched(c), Healing(c), Mended(c),
         Step(c), ~Fault("io"), ~Fault("read"), UNCHANGED work
  PROVE  /\ Mended(c)' \/ pc'[c] = "idle"
         /\ pc'[c] = "idle" => ReadOk(c)
<1>1. /\ LocalsOK /\ DiskOK /\ Own(c) /\ Refusal(c) /\ UNCHANGED src /\ src \in Versions
      /\ Alone(c) /\ Body(src) # None /\ Accepted(Body(src), Readable)
      /\ work.validated => Accepted(Body(src), Valid)
  BY TypeParts, CallLocals, BodyFacts, NoneIsNoContent
  DEF IInv, StageInv, RefusalInv, DiskOK, Healing, Offered, Acceptable, Accepted
<1>2. Body(src)' = Body(src)
  BY <1>1 DEF Body
<1>a. pc[c] = "validate" => Accepted(Staged(c), Valid)
  BY <1>1 DEF Own, Mended, Fetching
<1>b. rejected'[ClientOf[c]] # src'
  <2>1. ClientOf[c] \in Clients /\ src # NoTag /\ rejected[ClientOf[c]] # src
    BY <1>1, FileCacheAssumption DEF Versions, NoTag, Mended
  <2>2. ~(pc[c] = "discard" /\ ok[c])
    BY DEF Mended
  <2>3. \/ UNCHANGED rejected
        \/ rejected' = [rejected EXCEPT ![ClientOf[c]] = NoTag]
    BY <1>a, <2>2, RecordFrame
  <2>4. QED BY <1>1, <2>1, <2>3 DEF DiskOK
<1>c. pc'[c] = "validate" => work'.validated
  BY <1>1 DEF Step, LookCopy, AskSource, Compare, Decide, Fresh, NotFresh, AcquireLock,
     StatSource, StatRejected, ResumePoint, ResumeFrom, ResumeDiscard, Stage, Seal,
     ValidateOk, ValidateRefused, Promote, Clean, CleanTag, Record, Release, ReadOk,
     ReadRefused, DiscardCopy, DiscardTag, Begin, FetchFails, Own, LocalsOK, Goto
<1> DEFINE Goal == (Mended(c)' \/ pc'[c] = "idle") /\ (pc'[c] = "idle" => ReadOk(c))
<1> SUFFICES Goal
  OBVIOUS
<1> USE <1>1, <1>2, <1>b, <1>c DEF LocalsOK, Goto, locals, disk
<1>3. ASSUME NotFresh(c), UNCHANGED <<phase, ver, ok, second, copy>>,
             pc[c] \in {"look", "compare"}, second[c] => copy = None
      PROVE  Goal
  <2>1. pc'[c] \in {"lock", "stat"}
    BY <1>3 DEF NotFresh, Mended
  <2>2. QED BY <1>3, <2>1 DEF Mended, Fetching
<1>4. CASE LookCopy(c)
  <2>1. CASE copy = None
    BY <1>3, <1>4, <2>1 DEF LookCopy
  <2>2. CASE copy # None
    <3>1. pc[c] = "look" /\ pc'[c] = "ask" /\ UNCHANGED <<phase, ver, ok, second, copy>>
      BY <1>4, <2>2 DEF LookCopy
    <3>2. QED BY <2>2, <3>1 DEF Mended, Fetching
  <2>3. QED BY <2>1, <2>2
<1>5. CASE AskSource(c)
  <2>1. pc[c] = "ask" /\ pc'[c] = "compare" /\ UNCHANGED <<phase, ok, second, copy>>
    BY <1>5 DEF AskSource
  <2>2. QED BY <2>1 DEF Mended, Fetching
<1>6. CASE Compare(c)
  <2>1. pc[c] = "compare" /\ UNCHANGED <<phase, ver, ok, second, copy>> /\ copy # None
        /\ ~second[c] /\ ~ok[c]
    BY <1>6 DEF Compare, Decide, Mended
  <2>2. CASE Fresh(c)
    <3>1. pc'[c] \in {"read", "release"} /\ after'[c] = "read"
      BY <2>2 DEF Fresh
    <3>2. QED BY <2>1, <3>1 DEF Mended, Fetching
  <2>3. QED BY <1>3, <1>6, <2>1, <2>2 DEF Compare, Decide
<1>7. CASE AcquireLock(c)
  <2>1. /\ pc[c] = "lock" /\ pc'[c] = "look" /\ phase'[c] = "locked"
        /\ UNCHANGED <<ver, ok, second, copy>>
    BY <1>7 DEF AcquireLock
  <2>2. QED BY <2>1 DEF Mended, Fetching
<1>8. CASE StatSource(c)
  <2>1. /\ pc[c] = "stat" /\ pc'[c] = "resume" /\ ver'[c] = src
        /\ UNCHANGED <<phase, ok, second, copy>>
    BY <1>8 DEF StatSource
  <2>2. QED BY <2>1 DEF Mended
<1>9. ~StatRejected(c)
  BY DEF StatRejected, Mended
<1>10. CASE ResumePoint(c) \/ ResumeDiscard(c) \/ Stage(c) \/ Seal(c) \/ ValidateOk(c)
  <2>1. /\ Promoting(c) /\ pc[c] \notin {"clean", "cleanTag"}
        /\ UNCHANGED <<phase, ver, ok, second, copy>>
    BY <1>10 DEF ResumePoint, ResumeFrom, ResumeDiscard, Stage, Seal, ValidateOk, Promoting
  <2>2. /\ pc'[c] \in {"stage", "seal", "validate", "promote", "clean"}
        /\ pc'[c] = "clean" => after'[c] = "stage"
    BY <1>10 DEF ResumePoint, ResumeFrom, ResumeDiscard, Stage, Seal, ValidateOk
  <2>3. ver[c] = src /\ phase[c] # "failed" /\ (second[c] => copy = None) /\ ~ok[c]
    BY <2>1 DEF Mended, Promoting, Fetching
  <2>4. QED BY <2>1, <2>2, <2>3 DEF Mended, Fetching
<1>11. ~ValidateRefused(c)
  BY <1>a DEF ValidateRefused
<1>12. CASE Promote(c)
  <2>1. /\ pc[c] = "promote" /\ pc'[c] = "clean" /\ after'[c] = "record"
        /\ UNCHANGED <<phase, ver, ok, second>>
    BY <1>12 DEF Promote
  <2>2. QED BY <2>1 DEF Mended, Fetching, Promoting
<1>13. CASE Clean(c)
  <2>1. /\ pc[c] = "clean" /\ pc'[c] = "cleanTag"
        /\ UNCHANGED <<phase, after, ver, ok, second, copy>>
    BY <1>13 DEF Clean
  <2>2. QED BY <2>1 DEF Mended, Fetching, Promoting
<1>14. CASE CleanTag(c)
  <2>1. pc[c] = "cleanTag" /\ after[c] \in {"stage", "record"}
    BY <1>14 DEF CleanTag, Own, Mended
  <2>2. pc'[c] = after[c] /\ UNCHANGED <<phase, after, ver, ok, second, copy>>
    BY <1>14, <2>1 DEF CleanTag
  <2>3. QED BY <2>1, <2>2 DEF Mended, Fetching, Promoting
<1>15. CASE Record(c)
  <2>1. /\ Landed(c) /\ pc[c] = "record" /\ pc'[c] = "release" /\ after'[c] = "read"
        /\ UNCHANGED <<phase, ver, second, copy>>
    BY <1>15 DEF Record, Landed
  <2>2. ver[c] = src /\ phase[c] # "failed"
    BY <2>1 DEF Mended, Fetching
  <2>3. copy = Body(src)
    BY <2>1, <2>2 DEF Own, Untouched
  <2>4. QED BY <2>1, <2>2, <2>3 DEF Mended, Fetching, Promoting
<1>16. CASE Release(c)
  <2>1. /\ pc[c] = "release" /\ pc'[c] = after[c] /\ after[c] = "read"
        /\ UNCHANGED <<phase, ver, ok, second, copy>>
    BY <1>16 DEF Release, Mended
  <2>2. QED BY <2>1 DEF Mended, Fetching, Promoting
<1>17. CASE ReadOk(c)
  BY <1>17 DEF ReadOk
<1>18. CASE ReadRefused(c)
  <2>1. /\ pc[c] = "read" /\ pc'[c] = "discard" /\ ~Accepted(copy, Readable)
        /\ UNCHANGED <<phase, ver, ok, second, copy>>
    BY <1>18 DEF ReadRefused
  <2>2. ~ok[c] /\ ~second[c]
    BY <2>1 DEF Mended, Untouched
  <2>3. QED BY <2>1, <2>2 DEF Mended, Fetching, Promoting
<1>19. CASE DiscardCopy(c)
  <2>1. /\ pc[c] = "discard" /\ copy # None /\ copy' = None /\ pc'[c] = "discardTag"
        /\ UNCHANGED <<phase, ver, ok, second>>
    BY <1>19 DEF DiscardCopy, Mended
  <2>2. QED BY <2>1 DEF Mended, Fetching, Promoting
<1>20. CASE DiscardTag(c)
  <2>1. pc[c] = "discardTag" /\ ~ok[c] /\ ~second[c] /\ copy = None /\ UNCHANGED copy
    BY <1>20 DEF DiscardTag, Mended
  <2>2. pc'[c] = "look" /\ phase'[c] = "open" /\ ~ok'[c]
    BY <1>20, <2>1 DEF DiscardTag, Begin
  <2>3. QED BY <2>1, <2>2 DEF Mended, Fetching, Promoting
<1> HIDE DEF Goal
<1>21. QED
  BY <1>4, <1>5, <1>6, <1>7, <1>8, <1>9, <1>10, <1>11, <1>12, <1>13, <1>14, <1>15,
     <1>16, <1>17, <1>18, <1>19, <1>20
  DEF Step

\* A call of the caller, and what it leaves of HealInv.
LEMMA CallHeals ==
  ASSUME IInv, RefusalInv, HealInv, UNCHANGED work, NEW c \in Callers,
         GetFile(c) \/ Step(c) \/ Failure(c)
  PROVE  /\ HealInv'
         /\ \A d \in Callers : Alone(d) /\ pc[d] # "idle" /\ pc'[d] = "idle"
              /\ faults' = calm[d] /\ Offered(d) => ReadOk(d)
<1>1. /\ LocalsOK /\ HistoryOK /\ TypeOK /\ Refusal(c) /\ src \in Nat
      /\ calm[c] <= faults /\ start[c] <= src /\ Untouched(c)
      /\ Healing(c) => Mended(c)
  BY TypeParts DEF IInv, RefusalInv, HealInv, DiskOK, Versions
<1>2. UNCHANGED src /\ (UNCHANGED <<start, calm, barred>> \/ GetFile(c))
  BY CallLocals
<1>3. faults \in Nat /\ faults' \in Nat /\ faults <= faults'
  <2>1. GetFile(c) => faults' = faults
    BY DEF GetFile
  <2>2. QED BY <1>1, <2>1, CalmStep DEF HistoryOK
<1>4. \A d \in Callers : Alone(d) => d = c
  BY <1>1, CallerAtWork DEF Alone
<1>5. Untouched(c)'
  BY <1>1, CallUntouched
<1>6. ASSUME GetFile(c)
      PROVE  /\ pc[c] = "idle" /\ calm'[c] <= faults' /\ start'[c] <= src'
             /\ Healing(c)' => Mended(c)'
  <2>1. /\ pc[c] = "idle" /\ pc'[c] = "look" /\ phase'[c] = "open" /\ ~ok'[c] /\ ~second'[c]
        /\ start'[c] = src /\ calm'[c] = faults /\ faults' = faults
        /\ UNCHANGED rejected /\ barred'[c] = rejected[ClientOf[c]]
    BY <1>1, <1>6 DEF GetFile, Begin, Goto, LocalsOK, HistoryOK
  <2>2. Offered(c)' => Mended(c)'
    BY <2>1 DEF Mended, Fetching, Offered
  <2>3. calm'[c] <= faults' /\ start'[c] <= src'
    BY <1>1, <1>2, <1>3, <2>1
  <2>4. QED BY <2>1, <2>2, <2>3 DEF Healing
<1>7. ASSUME Step(c) \/ Failure(c), UNCHANGED <<start, calm, barred>>
      PROVE  /\ calm'[c] <= faults' /\ start'[c] <= src'
             /\ Healing(c)' => Mended(c)'
             /\ Alone(c) /\ pc[c] # "idle" /\ pc'[c] = "idle" /\ faults' = calm[c]
                /\ Offered(c) => ReadOk(c)
  <2>1. calm[c] \in Nat /\ pc[c] # "idle"
    BY <1>1, <1>7, CalmStep DEF HistoryOK
  <2>2. ASSUME Alone(c), faults' = calm[c], Offered(c)
        PROVE  /\ Mended(c)' \/ pc'[c] = "idle"
               /\ pc'[c] = "idle" => ReadOk(c)
    <3>1. Step(c) /\ ~Fault("io") /\ ~Fault("read") /\ faults' = faults
      BY <1>1, <1>7, <2>2, CalmStep
    <3>2. Healing(c) /\ Mended(c)
      BY <1>1, <2>1, <2>2, <3>1 DEF Healing
    <3>3. QED BY <1>1, <2>2, <3>1, <3>2, StepMended
  <2>3. Healing(c)' => Alone(c) /\ faults' = calm[c] /\ Offered(c) /\ pc'[c] # "idle"
    BY <1>2, <1>7 DEF Healing, Offered, Acceptable, Alone
  <2>4. calm'[c] <= faults' /\ start'[c] <= src'
    BY <1>1, <1>2, <1>3, <1>7, <2>1
  <2>5. QED BY <2>2, <2>3, <2>4
<1>8. ASSUME NEW d \in Callers, d # c
      PROVE  /\ calm'[d] <= faults' /\ start'[d] <= src' /\ ~Alone(d) /\ ~Alone(d)'
  <2>1. start'[d] = start[d] /\ calm'[d] = calm[d] /\ ~Alone(d)
    BY <1>4, <1>8, CallLocals
  <2>2. calm[d] \in Nat /\ calm[d] <= faults /\ start[d] <= src
    BY <1>1, <1>8 DEF HistoryOK, HealInv
  <2>3. calm'[d] <= faults' /\ start'[d] <= src'
    BY <1>2, <1>3, <2>1, <2>2
  <2>4. QED BY <2>1, <2>3 DEF Alone
<1>9. /\ calm'[c] <= faults' /\ start'[c] <= src' /\ (Healing(c)' => Mended(c)')
      /\ Alone(c) /\ pc[c] # "idle" /\ pc'[c] = "idle" /\ faults' = calm[c]
         /\ Offered(c) => ReadOk(c)
  BY <1>2, <1>6, <1>7
<1>10. \A d \in Callers : d # c => Untouched(d)' /\ ~Healing(d)'
  BY <1>8 DEF Untouched, Healing
<1>11. HealInv'
  BY <1>5, <1>8, <1>9, <1>10 DEF HealInv
<1>12. QED BY <1>4, <1>9, <1>11

LEMMA HealStep ==
  ASSUME IInv, RefusalInv, HealInv, [Next]_vars
  PROVE  /\ HealInv'
         /\ \A c \in Callers : Alone(c) /\ pc[c] # "idle" /\ pc'[c] = "idle"
              /\ faults' = calm[c] /\ Offered(c) => ReadOk(c)
<1>1. /\ DiskOK /\ HistoryOK /\ src \in Nat \ {0} /\ UNCHANGED work
      /\ \A k \in Clients : rejected[k] \in Nat /\ rejected[k] <= src
      /\ \A c \in Callers : /\ ver[c] \in Nat /\ ver[c] <= src /\ start[c] \in Nat
                            /\ start[c] <= src /\ calm[c] \in Nat /\ calm[c] <= faults
                            /\ ClientOf[c] \in Clients
  <2>1. LocalsOK /\ DiskOK /\ HistoryOK
    BY TypeParts DEF IInv
  <2>2. src \in Nat \ {0} /\ \A k \in Clients : rejected[k] \in Nat /\ rejected[k] <= src
    BY <2>1 DEF RefusalInv, DiskOK, Tags, Versions
  <2>3. \A c \in Callers : /\ ver[c] \in Nat /\ ver[c] <= src
                          /\ start[c] \in Nat /\ calm[c] \in Nat
    BY <2>1 DEF IInv, OrderInv, LocalsOK, HistoryOK, Versions
  <2>4. UNCHANGED work
    BY DEF Next, vars
  <2>5. \A c \in Callers : ClientOf[c] \in Clients
    BY FileCacheAssumption
  <2>6. QED BY <2>1, <2>2, <2>3, <2>4, <2>5 DEF HealInv
<1> DEFINE Returns == \A c \in Callers : Alone(c) /\ pc[c] # "idle" /\ pc'[c] = "idle"
              /\ faults' = calm[c] /\ Offered(c) => ReadOk(c)
<1> SUFFICES HealInv' /\ Returns
  OBVIOUS
<1>2. ASSUME NEW c \in Callers, GetFile(c) \/ Step(c) \/ Failure(c)
      PROVE  HealInv' /\ Returns
  BY <1>1, <1>2, CallHeals
<1>3. CASE Publish
  <2>1. /\ src' = src + 1 /\ UNCHANGED <<copy, rejected, pc, after, ver, ok, start, calm, faults>>
    BY <1>3 DEF Publish, disk, locals, history, begun
  <2>2. ASSUME NEW c \in Callers
        PROVE  /\ calm'[c] <= faults' /\ start'[c] <= src' /\ start'[c] # src'
               /\ ver'[c] # src'
    BY <1>1, <2>1
  <2>3. \A c \in Callers : Untouched(c)' /\ ~Healing(c)'
    BY <1>1, <2>1, <2>2 DEF HealInv, Untouched, Healing, Offered, Alone, Landed
  <2>4. QED BY <2>1, <2>2, <2>3 DEF HealInv
<1>4. CASE Damage
  <2>1. UNCHANGED <<src, rejected, pc, start, calm>> /\ \A c \in Callers : pc'[c] = "idle"
    BY <1>4 DEF Damage, locals, history, begun
  <2>2. faults' \in Nat /\ faults <= faults'
    BY <1>1, <1>4 DEF Damage, Fault, HistoryOK
  <2>3. ASSUME NEW c \in Callers PROVE calm'[c] <= faults' /\ start'[c] <= src'
    <3>1. calm[c] \in Nat /\ calm[c] <= faults /\ faults \in Nat /\ start[c] <= src
      BY <1>1 DEF HistoryOK
    <3>2. QED BY <2>1, <2>2, <3>1
  <2>4. \A c \in Callers : Untouched(c)' /\ ~Healing(c)'
    BY <1>1, <2>1 DEF HealInv, Untouched, Healing, Offered, Alone, Landed
  <2>5. QED BY <2>1, <2>3, <2>4 DEF HealInv
<1>5. ASSUME NEW k \in Clients, Crash(k) PROVE HealInv' /\ Returns
  <2>1. /\ UNCHANGED <<src, copy, after, ver, ok, start, calm>> /\ faults' = faults + 1
        /\ rejected' = [rejected EXCEPT ![k] = NoTag]
        /\ \A c \in Callers : pc'[c] \in {pc[c], "idle"}
    BY <1>5 DEF Crash, Fault, disk, locals, history, begun
  <2>2. ASSUME NEW c \in Callers
        PROVE  calm'[c] <= faults' /\ start'[c] <= src' /\ faults' # calm[c]
    BY <1>1, <2>1 DEF HistoryOK
  <2>3. \A c \in Callers : rejected'[ClientOf[c]] \in {rejected[ClientOf[c]], NoTag}
    BY <1>1, <2>1 DEF DiskOK
  <2>4. \A c \in Callers : ~Healing(c)'
    BY <2>1, <2>2 DEF Healing
  <2>5. Body(src)' = Body(src)
    BY <2>1 DEF Body
  <2>6. \A c \in Callers : Untouched(c)'
    BY <1>1, <2>1, <2>3, <2>5 DEF HealInv, Untouched, Alone, Landed, NoTag
  <2>7. QED BY <2>2, <2>4, <2>6 DEF HealInv
<1>6. CASE UNCHANGED vars
  <2>1. UNCHANGED <<src, copy, rejected, pc, phase, after, ver, ok, second, start, calm,
                    barred, faults>>
    BY <1>6 DEF vars, disk, locals, history, begun
  <2>2. Body(src)' = Body(src)
    BY <2>1 DEF Body
  <2>3. QED
    BY <1>1, <2>1, <2>2
    DEF HealInv, Untouched, Healing, Offered, Acceptable, Mended, Alone, Landed, Promoting
<1>7. QED BY <1>2, <1>3, <1>4, <1>5, <1>6 DEF Next

\* A call alone with the cache, during which nothing fails and nothing is published,
\* ends with a good copy read, whatever the calls before it left on disk, if the
\* source serves a version the caller accepts and no earlier call put that version
\* on record as rejected.
THEOREM CacheHeals == Spec => Heals
<1>1. Init => HealInv
  <2> SUFFICES ASSUME Init PROVE HealInv
    OBVIOUS
  <2>1. /\ pc = [c \in Callers |-> "idle"] /\ rejected = [k \in Clients |-> 0] /\ src = 1
        /\ calm = [c \in Callers |-> 0] /\ faults = 0 /\ start = [c \in Callers |-> 1]
    BY DEF Init, NoTag
  <2> SUFFICES ASSUME NEW c \in Callers
               PROVE  /\ calm[c] <= faults /\ start[c] <= src
                      /\ Untouched(c) /\ ~Healing(c)
    BY DEF HealInv
  <2>2. pc[c] = "idle" /\ rejected[ClientOf[c]] = 0 /\ calm[c] = 0 /\ start[c] = 1
    BY <2>1, FileCacheAssumption
  <2>3. QED BY <2>1, <2>2 DEF Untouched, Healing, Landed
<1>2. IInv /\ RefusalInv /\ HealInv /\ [Next]_vars => HealInv'
  BY HealStep
<1>3. IInv /\ RefusalInv /\ HealInv /\ [Next]_vars =>
        [\A c \in Callers : Alone(c) /\ pc[c] # "idle" /\ pc'[c] = "idle"
            /\ faults' = calm[c] /\ src = start[c]
            /\ Acceptable(src) /\ barred[c] # src
         => ReadOk(c)]_vars
  BY HealStep DEF Offered
<1>4. Init => RefusalInv
  BY FileCacheAssumption DEF Init, RefusalInv, Refusal, Trying, Fetching, NoTag
<1>5. IInv /\ RefusalInv /\ [Next]_vars => RefusalInv'
  BY RefusalStep
<1>6. QED BY <1>1, <1>2, <1>3, <1>4, <1>5, Invariant, PTL DEF Spec, Heals
================================================================================
