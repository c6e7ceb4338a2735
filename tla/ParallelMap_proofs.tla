------------------------- MODULE ParallelMap_proofs -------------------------
(***************************************************************************)
(* Theorems about Map, MapChunked and askAll, for any number of items, any *)
(* limit and any number of processors.                                     *)
(***************************************************************************)
EXTENDS ParallelMap, FiniteSetTheorems, TLAPS

USE SizeAssumption, LimitAssumption, ProcsAssumption, NoneAssumption

Ok(i) == [item |-> i, err |-> FALSE]

\* Where the goroutines and their caller can be.
Places ==
    /\ \A w \in Goroutines : pc[w] = "idle" <=> w > spawned
    /\ main = "returned" => \A w \in 1 .. spawned : pc[w] = "done"
    /\ op = "Map" => \A w \in Goroutines : pc[w] # "setup"
    /\ op = "MapChunked" => \A w \in Goroutines : pc[w] # "failed"
    /\ op = "askAll" => \A w \in Goroutines : pc[w] \in {"idle", "ready", "calling", "done"}
    /\ op # "MapChunked" => spawned <= Wanted
    /\ op # "MapChunked" /\ main # "spawning" => spawned = Wanted

\* Map: the counter has handed out the items below it, each once.
MapShares ==
    op = "Map" =>
        /\ \A i \in Items : calls[i] = IF i < next /\ i < n THEN 1 ELSE 0
        /\ \A w \in Goroutines : pc[w] \in {"calling", "failed"} => idx[w] < n
        /\ \A w \in Goroutines : pc[w] = "done" => next >= n

\* askAll: the goroutine started k-th asks the k-th provider.
AskShares ==
    op = "askAll" =>
        /\ \A i \in Items : calls[i] = IF i < spawned /\ pc[i + 1] # "ready" THEN 1 ELSE 0
        /\ \A w \in 1 .. spawned : idx[w] = w - 1

\* What goroutine w of MapChunked has called f on.
Stepped(w) == {i \in Items : lo[w] <= i /\ (i < idx[w] \/ (i = idx[w] /\ pc[w] = "calling"))}

Covered(m) == \A i \in 0 .. m - 1 : \E w \in 1 .. spawned : lo[w] <= i /\ i < hi[w]

\* MapChunked: the chunks are apart from each other and together reach as far
\* as the loop has come; each goroutine has done its own from the front.
ChunkShares ==
    op = "MapChunked" =>
        /\ \A w \in 1 .. spawned :
              /\ lo[w] <= idx[w] /\ idx[w] <= hi[w] /\ hi[w] <= n
              /\ pc[w] = "setup" => idx[w] = lo[w]
              /\ pc[w] = "calling" => idx[w] < hi[w]
              /\ pc[w] = "done" => idx[w] = hi[w]
        /\ \A v, w \in 1 .. spawned : v < w => hi[v] <= lo[w]
        /\ \A i \in Items :
              calls[i] = IF \E w \in 1 .. spawned : i \in Stepped(w) THEN 1 ELSE 0
        /\ TooSmall => /\ main = "spawning" => spawned = 0
                       /\ main # "spawning" => spawned = 1 /\ Covered(n)
        /\ ~TooSmall =>
              /\ Covered(Lesser(start, n))
              /\ \A w \in 1 .. spawned : hi[w] <= start
              /\ spawned <= start
              /\ main # "spawning" => start >= n

\* What has been written, and which errors are recorded.
MapOutcomes ==
    op = "Map" =>
        /\ \A i \in Items :
              i < next /\ i < n /\ i \notin failed =>
                 out[i] = Ok(i) \/ \E w \in Goroutines : pc[w] = "calling" /\ idx[w] = i
        /\ first \in failed \union {None}
        /\ first = None => \A i \in failed : \E w \in Goroutines : pc[w] = "failed" /\ idx[w] = i
        /\ \A w \in Goroutines : pc[w] = "failed" => idx[w] \in failed

ChunkOutcomes ==
    op = "MapChunked" =>
        /\ failed = {}
        /\ \A w \in 1 .. spawned : \A i \in Items :
              lo[w] <= i /\ i < idx[w] => out[i] = Ok(i)

AskOutcomes ==
    op = "askAll" =>
        /\ \A w \in 1 .. spawned :
              /\ pc[w] \in {"ready", "calling"} => w - 1 \notin failed
              /\ pc[w] = "done" => out[w - 1] = [item |-> w - 1, err |-> w - 1 \in failed]
        /\ \A i \in failed : i < spawned

IInv == /\ TypeOK /\ Places /\ MapShares /\ AskShares /\ ChunkShares
        /\ MapOutcomes /\ ChunkOutcomes /\ AskOutcomes

-----------------------------------------------------------------------------
\* The limit in force is at least 1.
LEMMA BoundPositive == TypeOK => Bound \in Nat \ {0}
BY DEF TypeOK, Bound

\* Rounding up: no chunk is empty, and Bound chunks hold all n items.
LEMMA ChunkSizes ==
  ASSUME TypeOK, ~TooSmall
  PROVE  ChunkSize \in Nat \ {0} /\ ChunkSize * Bound >= n
<1>1. Bound \in Nat \ {0} /\ n \in Nat /\ n >= Bound * 2
  BY BoundPositive DEF TooSmall, TypeOK
<1> DEFINE b == Bound
           q == (n + b - 1) \div b
<1> HIDE DEF b
<1>2. b \in Nat \ {0} /\ n \in Nat /\ n >= b * 2
  BY <1>1 DEF b
<1>3. q \in Nat /\ b * q <= n + b - 1 /\ n + b - 1 < b * (q + 1)
  BY <1>2
<1>4. b * (q + 1) = b * q + b
  BY <1>2, <1>3
<1>5. b * q >= n
  BY <1>2, <1>3, <1>4
<1>6. q # 0
  BY <1>2, <1>3, <1>5
<1>7. ChunkSize = q
  BY DEF ChunkSize, b
<1>8. b * q = q * b
  BY <1>2, <1>3
<1>9. QED BY <1>3, <1>5, <1>6, <1>7, <1>8 DEF b

\* The invariant holds at the start.
LEMMA InitIInv == Init => IInv
<1> SUFFICES ASSUME Init PROVE IInv
  OBVIOUS
<1> USE DEF Init, Items, Goroutines
<1>1. TypeOK
  BY DEF TypeOK
<1>2. Places
  BY BoundPositive, <1>1 DEF Places, Wanted, Lesser
<1>3. MapShares /\ AskShares
  BY DEF MapShares, AskShares
<1>4. ChunkShares
  BY DEF ChunkShares, Stepped, Covered, Lesser
<1>5. MapOutcomes /\ ChunkOutcomes /\ AskOutcomes
  BY DEF MapOutcomes, ChunkOutcomes, AskOutcomes
<1>6. QED BY <1>1, <1>2, <1>3, <1>4, <1>5 DEF IInv

\* The goroutine started next is one of them.
LEMMA NextGoroutine ==
  ASSUME TypeOK, spawned < MaxItems
  PROVE  spawned + 1 \in Goroutines /\ spawned + 1 \in 0 .. MaxItems /\ spawned \in Items
BY DEF TypeOK, Goroutines, Items

\* An index a goroutine works on is an item, and so is what it counts to.
LEMMA IndexIsItem ==
  ASSUME IInv, NEW w \in Goroutines, pc[w] \in {"calling", "failed"}
  PROVE  idx[w] \in Items /\ idx[w] \in 0 .. n - 1 /\ idx[w] + 1 \in 0 .. MaxItems
<1> USE DEF IInv, TypeOK
<1>1. w \in 1 .. spawned
  BY DEF Places, Goroutines
<1>2. idx[w] \in Nat /\ idx[w] < n
  BY <1>1 DEF Places, MapShares, AskShares, ChunkShares, Wanted, Goroutines
<1>3. QED BY <1>2 DEF Items

\* The type invariant is kept.
LEMMA StepTypeOK == IInv /\ [Next]_vars => TypeOK'
<1> SUFFICES ASSUME IInv, [Next]_vars PROVE TypeOK'
  OBVIOUS
<1>0. TypeOK
  BY DEF IInv
<1> USE DEF TypeOK, given, results
<1>1. CASE SpawnTaker
  <2> USE <1>1 DEF SpawnTaker
  <2>1. Bound \in Nat \ {0} /\ spawned < n /\ spawned < MaxItems
    BY <1>0, BoundPositive DEF Wanted, Lesser
  <2>2. spawned + 1 \in Goroutines /\ spawned + 1 \in 0 .. MaxItems
    BY <1>0, <2>1, NextGoroutine
  <2>3. 0 \in 0 .. MaxItems
    OBVIOUS
  <2>4. QED BY <1>0, <2>2, <2>3 DEF Started
<1>2. CASE SpawnAsker
  <2> USE <1>2 DEF SpawnAsker
  <2>1. spawned < MaxItems
    BY <1>0 DEF Wanted
  <2>2. spawned + 1 \in Goroutines /\ spawned + 1 \in 0 .. MaxItems /\ spawned \in Items
    BY <1>0, <2>1, NextGoroutine
  <2>3. 0 \in 0 .. MaxItems
    OBVIOUS
  <2>4. QED BY <1>0, <2>2, <2>3 DEF Started
<1>3. CASE SpawnChunk
  <2> USE <1>3 DEF SpawnChunk
  <2>1. ChunkSize \in Nat \ {0}
    BY <1>0, ChunkSizes
  <2>2. spawned <= start /\ start < n
    BY DEF ChunkShares, IInv
  <2>3. start \in 0 .. MaxItems /\ Lesser(start + ChunkSize, n) \in 0 .. MaxItems
    BY <1>0, <2>1, <2>2 DEF Lesser
  <2>4. spawned + 1 \in Goroutines /\ spawned + 1 \in 0 .. MaxItems
    BY <1>0, <2>2, NextGoroutine
  <2>5. start + ChunkSize \in Nat
    BY <1>0, <2>1
  <2> HIDE DEF ChunkSize
  <2>6. QED BY <1>0, <2>3, <2>4, <2>5 DEF Started
<1>4. CASE RunHere
  <2>1. 1 \in Goroutines /\ 1 \in 0 .. MaxItems /\ 0 \in 0 .. MaxItems
    BY DEF Goroutines
  <2>2. QED BY <1>0, <1>4, <2>1 DEF RunHere, Started
<1>5. CASE EndSpawning \/ Return
  BY <1>0, <1>5 DEF EndSpawning, Return
<1>6. ASSUME NEW w \in Goroutines, Goroutine(w)
      PROVE  TypeOK'
  <2>1. CASE NewWorker(w)
    BY <1>0, <2>1 DEF NewWorker
  <2>2. CASE TakeNone(w) \/ ChunkDone(w)
    BY <1>0, <2>2 DEF TakeNone, ChunkDone
  <2>3. CASE Take(w)
    <3>1. next \in Items /\ next \in 0 .. MaxItems
      BY <1>0, <2>3 DEF Take, Items
    <3>2. QED BY <1>0, <2>3, <3>1 DEF Take, Calling
  <2>4. CASE Step(w) \/ Ask(w)
    <3>1. idx[w] \in Items
      <4>1. CASE Step(w)
        BY <1>0, <4>1 DEF Step, Items
      <4>2. CASE Ask(w)
        <5>1. w \in 1 .. spawned /\ idx[w] = w - 1
          BY <1>0, <4>2 DEF Ask, IInv, Places, AskShares, Goroutines
        <5>2. QED BY <5>1 DEF Items, Goroutines
      <4>3. QED BY <2>4, <4>1, <4>2
    <3>2. QED BY <1>0, <2>4, <3>1 DEF Step, Ask, Calling
  <2>5. CASE pc[w] \in {"calling", "failed"}
    <3>1. idx[w] \in Items /\ idx[w] + 1 \in 0 .. MaxItems
      BY <2>5, IndexIsItem
    <3>2. \A b \in BOOLEAN : [item |-> idx[w], err |-> b] \in Reply
      BY <3>1 DEF Reply
    <3>3. CASE MapSucceeds(w)
      BY <1>0, <3>1, <3>2, <3>3 DEF MapSucceeds, Answers
    <3>4. CASE MapFails(w)
      BY <1>0, <3>1, <3>4 DEF MapFails, Answers
    <3>5. CASE RecordFirst(w)
      BY <1>0, <3>1, <3>5 DEF RecordFirst
    <3>6. CASE ChunkCallEnds(w)
      BY <1>0, <3>1, <3>2, <3>6 DEF ChunkCallEnds, Answers
    <3>7. ASSUME NEW fails \in BOOLEAN, AskEnds(w, fails) PROVE TypeOK'
      BY <1>0, <3>1, <3>2, <3>7 DEF AskEnds, Answers
    <3>8. QED BY <1>6, <2>1, <2>2, <2>3, <2>4, <3>3, <3>4, <3>5, <3>6, <3>7 DEF Goroutine
  <2>6. CASE pc[w] \notin {"calling", "failed"}
    BY <1>6, <2>1, <2>2, <2>3, <2>4, <2>6
       DEF Goroutine, MapSucceeds, MapFails, RecordFirst, ChunkCallEnds, AskEnds, Answers
  <2>7. QED BY <2>5, <2>6
<1>7. CASE UNCHANGED vars
  BY <1>0, <1>7 DEF vars
<1>8. QED
  BY <1>1, <1>2, <1>3, <1>4, <1>5, <1>6, <1>7 DEF Next, Caller

\* Where the goroutines and their caller can be is kept.
LEMMA StepPlaces == IInv /\ [Next]_vars => Places'
<1> SUFFICES ASSUME IInv, [Next]_vars PROVE Places'
  OBVIOUS
<1>0. TypeOK /\ TypeOK' /\ Places
  BY StepTypeOK DEF IInv
<1> USE DEF Places, TypeOK, given, results, Goroutines
<1>1. CASE SpawnTaker \/ SpawnAsker
  <2>1. op # "MapChunked" /\ spawned + 1 <= Wanted /\ Wanted' = Wanted /\ Wanted \in Nat
    <3>1. Bound \in Nat \ {0} /\ Bound' = Bound
      BY <1>0, <1>1, BoundPositive DEF SpawnTaker, SpawnAsker, Bound
    <3>2. Wanted \in Nat /\ Wanted' = Wanted
      BY <1>0, <1>1, <3>1, SMTT(20) DEF SpawnTaker, SpawnAsker, Wanted, Lesser
    <3>3. QED BY <1>0, <1>1, <3>2 DEF SpawnTaker, SpawnAsker
  <2>2. CASE SpawnTaker
    BY <1>0, <2>1, <2>2 DEF SpawnTaker, Started
  <2>3. CASE SpawnAsker
    BY <1>0, <2>1, <2>3, SMTT(20) DEF SpawnAsker, Started
  <2>4. QED BY <1>1, <2>2, <2>3
<1>2. CASE SpawnChunk
  BY <1>0, <1>2, SMTT(20) DEF SpawnChunk, Started
<1>3. CASE RunHere
  <2>1. spawned = 0
    BY <1>3 DEF RunHere, IInv, ChunkShares
  <2>2. QED BY <1>0, <1>3, <2>1 DEF RunHere, Started
<1>4. CASE EndSpawning \/ Return
  BY <1>0, <1>4 DEF EndSpawning, Return, AllStarted, Wanted, Bound, Lesser
<1>5. ASSUME NEW w \in Goroutines, Goroutine(w)
      PROVE  Places'
  <2>1. Wanted' = Wanted /\ spawned' = spawned /\ main' = main /\ op' = op
    BY <1>5 DEF Goroutine, NewWorker, Take, Ask, TakeNone, Step, ChunkDone, MapSucceeds,
                MapFails, RecordFirst, ChunkCallEnds, AskEnds, Answers, Wanted, Bound
  <2>2. pc[w] \notin {"idle", "done"}
    BY <1>5 DEF Goroutine, NewWorker, Take, Ask, TakeNone, Step, ChunkDone, MapSucceeds,
                MapFails, RecordFirst, ChunkCallEnds, AskEnds, Answers
  <2>3. \A v \in Goroutines : v # w => pc'[v] = pc[v]
    BY <1>0, <1>5
       DEF Goroutine, NewWorker, Take, Ask, Calling, TakeNone, Step, ChunkDone, MapSucceeds,
           MapFails, RecordFirst, ChunkCallEnds, AskEnds, Answers
  <2>4. pc'[w] \in {"ready", "calling", "failed", "done"}
    BY <1>0, <1>5
       DEF Goroutine, NewWorker, Take, Ask, Calling, TakeNone, Step, ChunkDone, MapSucceeds,
           MapFails, RecordFirst, ChunkCallEnds, AskEnds, Answers
  <2>5. (pc'[w] = "failed" => op = "Map") /\ (op = "askAll" => pc'[w] \in {"calling", "done"})
    <3>1. CASE NewWorker(w)
      BY <1>0, <3>1 DEF NewWorker
    <3>2. CASE Take(w) \/ Ask(w) \/ Step(w) \/ TakeNone(w) \/ ChunkDone(w)
      BY <1>0, <3>2 DEF Take, Ask, Calling, Step, TakeNone, ChunkDone
    <3>3. CASE MapSucceeds(w) \/ MapFails(w) \/ RecordFirst(w) \/ ChunkCallEnds(w)
      BY <1>0, <3>3 DEF MapSucceeds, MapFails, RecordFirst, ChunkCallEnds, Answers
    <3>4. ASSUME NEW fails \in BOOLEAN, AskEnds(w, fails)
          PROVE  pc'[w] = "done"
      BY <1>0, <3>4 DEF AskEnds
    <3>5. ASSUME NEW fails \in BOOLEAN, AskEnds(w, fails)
          PROVE  op = "askAll"
      BY <3>5 DEF AskEnds
    <3>6. QED BY <1>5, <3>1, <3>2, <3>3, <3>4, <3>5 DEF Goroutine
  <2>6. w <= spawned
    BY <1>0, <2>2
  <2>7. main # "returned"
    BY <1>0, <2>2, <2>6
  <2> HIDE DEF TypeOK
  <2>8. \A v \in Goroutines : pc'[v] = "idle" <=> v > spawned'
    BY <1>0, <2>1, <2>2, <2>3, <2>4
  <2>9. /\ op' = "Map" => \A v \in Goroutines : pc'[v] # "setup"
        /\ op' = "MapChunked" => \A v \in Goroutines : pc'[v] # "failed"
    BY <1>0, <2>1, <2>3, <2>4, <2>5
  <2>10. op' = "askAll" => \A v \in Goroutines : pc'[v] \in {"idle", "ready", "calling", "done"}
    BY <1>0, <2>1, <2>3, <2>5
  <2>11. QED BY <1>0, <2>1, <2>7, <2>8, <2>9, <2>10
<1>6. CASE UNCHANGED vars
  BY <1>0, <1>6 DEF vars, Wanted, Bound
<1>7. QED
  BY <1>1, <1>2, <1>3, <1>4, <1>5, <1>6 DEF Next, Caller

\* Map: an index is handed out once.
LEMMA StepMapShares == IInv /\ [Next]_vars => MapShares'
<1> SUFFICES ASSUME IInv, [Next]_vars, op = "Map", op' = "Map" PROVE MapShares'
  BY DEF MapShares, Next, Caller, SpawnTaker, SpawnAsker, SpawnChunk, RunHere, EndSpawning,
         Return, Goroutine, NewWorker, Take, Ask, TakeNone, Step, ChunkDone, MapSucceeds, MapFails,
         RecordFirst, ChunkCallEnds, AskEnds, Answers, vars, given
<1>0. TypeOK /\ TypeOK' /\ Places /\ MapShares
  BY StepTypeOK DEF IInv
<1> USE DEF MapShares, Places, TypeOK, given, results
<1>1. CASE SpawnTaker
  BY <1>0, <1>1 DEF SpawnTaker, Started, Goroutines
<1>2. CASE EndSpawning \/ Return
  BY <1>0, <1>2 DEF EndSpawning, Return
<1>3. ASSUME NEW w \in Goroutines, Take(w)
      PROVE  MapShares'
  <2>1. \A i \in Items : calls'[i] = IF i = next THEN calls[i] + 1 ELSE calls[i]
    BY <1>0, <1>3 DEF Take, Calling, Items
  <2>2. \A i \in Items : calls'[i] = IF i < next' /\ i < n' THEN 1 ELSE 0
    BY <1>0, <1>3, <2>1, SMTT(20) DEF Take, Items
  <2>3. \A v \in Goroutines : pc'[v] \in {"calling", "failed"} => idx'[v] < n'
    BY <1>0, <1>3 DEF Take, Calling
  <2>4. \A v \in Goroutines : pc'[v] = "done" => next' >= n'
    BY <1>0, <1>3 DEF Take, Calling
  <2>5. QED BY <2>2, <2>3, <2>4
<1>4. ASSUME NEW w \in Goroutines, TakeNone(w)
      PROVE  MapShares'
  BY <1>0, <1>4 DEF TakeNone, Items
<1>5. ASSUME NEW w \in Goroutines, MapSucceeds(w) \/ MapFails(w) \/ RecordFirst(w)
      PROVE  MapShares'
  BY <1>0, <1>5 DEF MapSucceeds, MapFails, RecordFirst, Answers
<1>6. CASE UNCHANGED vars
  BY <1>0, <1>6 DEF vars
<1>7. QED
  BY <1>0, <1>1, <1>2, <1>3, <1>4, <1>5, <1>6
     DEF Next, Caller, SpawnAsker, SpawnChunk, RunHere, Goroutine, NewWorker, Ask, Step, ChunkDone,
         ChunkCallEnds, AskEnds

\* askAll: each goroutine keeps to its own provider.
LEMMA StepAskShares == IInv /\ [Next]_vars => AskShares'
<1> SUFFICES ASSUME IInv, [Next]_vars, op = "askAll", op' = "askAll" PROVE AskShares'
  BY DEF AskShares, Next, Caller, SpawnTaker, SpawnAsker, SpawnChunk, RunHere, EndSpawning,
         Return, Goroutine, NewWorker, Take, Ask, TakeNone, Step, ChunkDone, MapSucceeds, MapFails,
         RecordFirst, ChunkCallEnds, AskEnds, Answers, vars, given
<1>0. TypeOK /\ TypeOK' /\ Places /\ AskShares
  BY StepTypeOK DEF IInv
<1> USE DEF AskShares, TypeOK, given, results
<1>1. CASE SpawnAsker
  <2>1. spawned \in Items /\ spawned + 1 \in Goroutines
    <3>1. spawned < MaxItems
      BY <1>0, <1>1 DEF SpawnAsker, Wanted
    <3>2. QED BY <1>0, <3>1, NextGoroutine
  <2>2. calls' = calls /\ spawned' = spawned + 1 /\ pc'[spawned + 1] = "ready"
        /\ \A w \in Goroutines : w # spawned + 1 => pc'[w] = pc[w]
    BY <1>0, <1>1, <2>1 DEF SpawnAsker, Started
  <2>3. \A i \in Items : calls'[i] = IF i < spawned' /\ pc'[i + 1] # "ready" THEN 1 ELSE 0
    <3>1. ASSUME NEW i \in Items, i = spawned
          PROVE  calls'[i] = IF i < spawned' /\ pc'[i + 1] # "ready" THEN 1 ELSE 0
      <4>1. ~(i < spawned) /\ pc'[i + 1] = "ready"
        BY <1>0, <2>2, <3>1
      <4>2. calls[i] = 0
        BY <1>0, <4>1
      <4>3. QED BY <2>2, <4>1, <4>2
    <3>2. ASSUME NEW i \in Items, i # spawned
          PROVE  calls'[i] = IF i < spawned' /\ pc'[i + 1] # "ready" THEN 1 ELSE 0
      <4>1. i + 1 \in Goroutines /\ i + 1 # spawned + 1
        BY <1>0, <3>2 DEF Items, Goroutines
      <4>2. pc'[i + 1] = pc[i + 1] /\ (i < spawned' <=> i < spawned)
        <5>1. spawned \in Nat /\ i \in Nat
          BY <1>0 DEF Items
        <5>2. i < spawned + 1 <=> i < spawned
          BY <3>2, <5>1
        <5>3. QED BY <2>2, <4>1, <5>2
      <4>3. calls[i] = IF i < spawned /\ pc[i + 1] # "ready" THEN 1 ELSE 0
        BY <1>0
      <4>4. QED BY <2>2, <4>2, <4>3
    <3>3. QED BY <3>1, <3>2
  <2>4. \A w \in 1 .. spawned' : idx'[w] = w - 1
    <3>1. idx'[spawned + 1] = spawned /\ \A w \in Goroutines : w # spawned + 1 => idx'[w] = idx[w]
      BY <1>0, <1>1, <2>1 DEF SpawnAsker, Started
    <3>2. spawned \in Nat /\ spawned + 1 <= MaxItems
      BY <1>0, <2>1 DEF Goroutines
    <3>3. \A w \in 1 .. spawned + 1 : w = spawned + 1 \/ (w \in 1 .. spawned /\ w \in 1 .. MaxItems)
      BY <3>2
    <3>4. ASSUME NEW w \in 1 .. spawned + 1
          PROVE  idx'[w] = w - 1
      <4>1. CASE w = spawned + 1
        BY <3>1, <3>2, <4>1
      <4>2. CASE w # spawned + 1
        BY <1>0, <3>1, <3>3, <4>2 DEF Goroutines
      <4>3. QED BY <4>1, <4>2
    <3>5. QED BY <2>2, <3>4
  <2>5. QED BY <2>3, <2>4
<1>2. CASE EndSpawning \/ Return
  BY <1>0, <1>2 DEF EndSpawning, Return
<1>3. ASSUME NEW w \in Goroutines, NEW fails \in BOOLEAN, AskEnds(w, fails)
      PROVE  AskShares'
  <2>1. UNCHANGED <<calls, spawned, idx>> /\ pc[w] # "ready" /\ pc'[w] # "ready"
        /\ \A v \in Goroutines : v # w => pc'[v] = pc[v]
    BY <1>0, <1>3 DEF AskEnds, Answers
  <2>2. \A i \in Items : i + 1 \in Goroutines
    BY DEF Items, Goroutines
  <2>3. \A v \in Goroutines : pc'[v] = "ready" <=> pc[v] = "ready"
    BY <2>1
  <2>4. QED BY <1>0, <2>1, <2>2, <2>3
<1>4. ASSUME NEW w \in Goroutines, Ask(w)
      PROVE  AskShares'
  <2>1. pc[w] = "ready" /\ pc'[w] = "calling" /\ UNCHANGED spawned
        /\ \A v \in Goroutines : v # w => pc'[v] = pc[v]
    BY <1>0, <1>4 DEF Ask, Calling
  <2>2. w \in 1 .. spawned /\ idx[w] = w - 1 /\ w - 1 \in Items
    <3>1. w \in 1 .. spawned
      BY <1>0, <2>1 DEF Places, Goroutines
    <3>2. QED BY <1>0, <3>1 DEF Goroutines, Items
  <2>3. idx' = idx
    BY <1>0, <1>4 DEF Ask, Calling
  <2>4. \A i \in Items : calls'[i] = IF i = w - 1 THEN calls[i] + 1 ELSE calls[i]
    BY <1>0, <1>4, <2>2 DEF Ask, Calling
  <2>5. \A i \in Items : i + 1 \in Goroutines /\ (i = w - 1 \/ i + 1 # w)
    BY DEF Items, Goroutines
  <2>6. \A i \in Items : calls'[i] = IF i < spawned' /\ pc'[i + 1] # "ready" THEN 1 ELSE 0
    <3>1. ASSUME NEW i \in Items, i = w - 1
          PROVE  calls'[i] = 1 /\ i < spawned' /\ pc'[i + 1] # "ready"
      <4>1. i + 1 = w /\ i < spawned
        BY <1>0, <2>2, <3>1 DEF Items, Goroutines
      <4>2. QED BY <1>0, <2>1, <2>4, <3>1, <4>1
    <3>2. ASSUME NEW i \in Items, i # w - 1
          PROVE  calls'[i] = IF i < spawned' /\ pc'[i + 1] # "ready" THEN 1 ELSE 0
      BY <1>0, <2>1, <2>4, <2>5, <3>2
    <3>3. QED BY <3>1, <3>2
  <2>7. QED BY <1>0, <2>1, <2>3, <2>6
<1>5. CASE UNCHANGED vars
  BY <1>0, <1>5 DEF vars
<1>6. QED
  BY <1>0, <1>1, <1>2, <1>3, <1>4, <1>5
     DEF Next, Caller, SpawnTaker, SpawnChunk, RunHere, Goroutine, NewWorker, Take, TakeNone,
         Step, ChunkDone, MapSucceeds, MapFails, RecordFirst, ChunkCallEnds, Places

\* What one goroutine of MapChunked has done lies in its chunk and no other.
LEMMA Apart ==
  ASSUME TypeOK, op = "MapChunked", ChunkShares,
         NEW v \in 1 .. spawned, NEW w \in 1 .. spawned, v # w, NEW i \in Stepped(v)
  PROVE  i < lo[w] \/ i >= hi[w]
<1>1. v \in Goroutines /\ w \in Goroutines
  BY DEF TypeOK, Goroutines
<1>2. i \in Nat /\ lo[v] \in Nat /\ hi[v] \in Nat /\ lo[w] \in Nat /\ hi[w] \in Nat
      /\ idx[v] \in Nat
  BY <1>1 DEF TypeOK, Stepped, Items
<1>3. lo[v] <= i /\ i < hi[v]
  BY <1>2 DEF ChunkShares, Stepped
<1>4. hi[v] <= lo[w] \/ hi[w] <= lo[v]
  BY DEF ChunkShares
<1>5. QED BY <1>2, <1>3, <1>4

\* MapChunked: chunks stay apart, leave no gap, and are worked through once.
LEMMA StepChunkShares == IInv /\ [Next]_vars => ChunkShares'
<1> SUFFICES ASSUME IInv, [Next]_vars, op = "MapChunked", op' = "MapChunked" PROVE ChunkShares'
  BY DEF ChunkShares, Next, Caller, SpawnTaker, SpawnAsker, SpawnChunk, RunHere, EndSpawning,
         Return, Goroutine, NewWorker, Take, Ask, TakeNone, Step, ChunkDone, MapSucceeds, MapFails,
         RecordFirst, ChunkCallEnds, AskEnds, Answers, vars, given
<1>0. TypeOK /\ TypeOK' /\ Places /\ Places' /\ ChunkShares
  BY StepTypeOK, StepPlaces DEF IInv
<1>1. CASE SpawnChunk
  <2> USE <1>1 DEF SpawnChunk, given, results
  <2>1. ChunkSize \in Nat \ {0}
    BY <1>0, ChunkSizes
  <2> HIDE DEF ChunkSize
  <2>2. spawned <= start /\ start < n /\ n \in Nat /\ start \in Nat /\ spawned \in Nat /\ n <= MaxItems
    BY <1>0 DEF ChunkShares, TypeOK
  <2>0. PICK g \in Goroutines : g = spawned + 1
    BY <1>0, <2>2, NextGoroutine
  <2>3. 1 .. spawned' = 1 .. spawned \union {g} /\ g \notin 1 .. spawned
    BY <1>0, <2>2, <2>0 DEF Started
  <2>4. \A w \in 1 .. spawned : w \in Goroutines /\ lo'[w] = lo[w] /\ hi'[w] = hi[w] /\ idx'[w] = idx[w] /\ pc'[w] = pc[w]
    BY <1>0, <2>0, <2>2, <2>3, SMTT(20) DEF TypeOK, Started, Goroutines
  <2>5. pc'[g] = "setup" /\ lo'[g] = start /\ idx'[g] = start /\ hi'[g] = Lesser(start + ChunkSize, n)
    BY <1>0, <2>0 DEF TypeOK, Started
  <2>6. start < hi'[g] /\ hi'[g] <= n /\ hi'[g] <= start' /\ hi'[g] \in Nat /\ start' \in Nat
    BY <2>1, <2>2, <2>5 DEF Lesser
  <2>7. n' = n /\ calls' = calls /\ main' = main /\ main = "spawning" /\ ~TooSmall /\ TooSmall' = TooSmall
    BY DEF Started, TooSmall, Bound
  <2>8. Stepped(g)' = {}
    BY <2>5, <2>2 DEF Stepped, Items
  <2>9. \A w \in 1 .. spawned : Stepped(w)' = Stepped(w)
    BY <2>4 DEF Stepped
  <2>10. \A w \in 1 .. spawned : hi[w] <= start /\ hi[w] \in Nat
    BY <1>0, <2>4, <2>7 DEF ChunkShares, TypeOK
  <2>11. \A w \in 1 .. spawned' :
              /\ lo'[w] <= idx'[w] /\ idx'[w] <= hi'[w] /\ hi'[w] <= n'
              /\ pc'[w] = "setup" => idx'[w] = lo'[w]
              /\ pc'[w] = "calling" => idx'[w] < hi'[w]
              /\ pc'[w] = "done" => idx'[w] = hi'[w]
    <3>1. ASSUME NEW w \in 1 .. spawned
          PROVE  /\ lo[w] <= idx[w] /\ idx[w] <= hi[w] /\ hi[w] <= n
                 /\ pc[w] = "setup" => idx[w] = lo[w]
                 /\ pc[w] = "calling" => idx[w] < hi[w]
                 /\ pc[w] = "done" => idx[w] = hi[w]
      BY <1>0 DEF ChunkShares
    <3>2. /\ lo'[g] <= idx'[g] /\ idx'[g] <= hi'[g] /\ hi'[g] <= n'
          /\ pc'[g] = "setup" /\ idx'[g] = lo'[g]
      BY <2>2, <2>5, <2>6, <2>7
    <3>3. QED BY <3>1, <3>2, <2>3, <2>4, <2>7
  <2>12. \A v, w \in 1 .. spawned' : v < w => hi'[v] <= lo'[w]
    <3>1. \A v, w \in 1 .. spawned : v < w => hi[v] <= lo[w]
      BY <1>0 DEF ChunkShares
    <3>2. \A w \in 1 .. spawned : ~ (g < w)
      BY <2>0, <2>2
    <3>3. ~ (g < g)
      BY <2>0, <2>2
    <3>4. QED BY <2>3, <2>4, <2>5, <2>10, <3>1, <3>2, <3>3
  <2>13. \A i \in Items : calls'[i] = IF \E w \in 1 .. spawned' : i \in Stepped(w)' THEN 1 ELSE 0
    <3>1. QED BY <1>0, <2>3, <2>7, <2>8, <2>9 DEF ChunkShares
  <2>14. Covered(Lesser(start, n))
    BY <1>0, <2>7 DEF ChunkShares
  <2>15. \A i \in 0 .. Lesser(start', n') - 1 :
            \E w \in 1 .. spawned' : lo'[w] <= i /\ i < hi'[w]
    <3> SUFFICES ASSUME NEW i \in 0 .. Lesser(start', n') - 1
                 PROVE  \E w \in 1 .. spawned' : lo'[w] <= i /\ i < hi'[w]
      OBVIOUS
    <3>1. i \in Nat /\ i < start + ChunkSize /\ i < n
      BY <2>1, <2>2, <2>6, <2>7 DEF Lesser
    <3>2. CASE i < start
      <4>1. i \in 0 .. Lesser(start, n) - 1
        BY <2>2, <3>1, <3>2 DEF Lesser
      <4>2. PICK w \in 1 .. spawned : lo[w] <= i /\ i < hi[w]
        BY <2>14, <4>1 DEF Covered
      <4>3. QED BY <4>2, <2>3, <2>4
    <3>3. CASE ~ (i < start)
      <4>1. lo'[g] <= i /\ i < hi'[g]
        BY <2>1, <2>2, <2>5, <3>1, <3>3 DEF Lesser
      <4>2. QED BY <4>1, <2>3
    <3>4. QED BY <3>2, <3>3
  <2>16. \A w \in 1 .. spawned' : hi'[w] <= start'
    <3>1. start <= start'
      BY <2>1, <2>2
    <3>2. QED BY <2>2, <2>3, <2>4, <2>6, <2>10, <3>1
  <2>17. spawned' <= start'
    BY <2>1, <2>2 DEF Started
  <2>18. QED
    BY <2>7, <2>11, <2>12, <2>13, <2>15, <2>16, <2>17 DEF ChunkShares, Covered
<1>2. CASE RunHere
  <2> USE <1>2 DEF RunHere, Started, given, results
  <2>1. spawned = 0 /\ n \in 0 .. MaxItems /\ 1 \in Goroutines
    BY <1>0 DEF ChunkShares, TypeOK, Goroutines
  <2>2. spawned' = 1 /\ pc'[1] = "setup" /\ lo'[1] = 0 /\ idx'[1] = 0 /\ hi'[1] = n
    BY <1>0, <2>1 DEF TypeOK
  <2>3. n' = n /\ calls' = calls /\ main' = "waiting" /\ TooSmall' /\ 1 .. spawned' = {1}
    BY <2>2 DEF TooSmall, Bound
  <2>4. \A i \in Items : calls[i] = 0
    <3>1. 1 .. spawned = {}
      BY <2>1
    <3>2. QED BY <1>0, <3>1 DEF ChunkShares
  <2>5. Stepped(1)' = {}
    BY <2>2 DEF Stepped, Items
  <2>6. \A i \in Items : calls'[i] = IF \E w \in 1 .. spawned' : i \in Stepped(w)' THEN 1 ELSE 0
    BY <2>3, <2>4, <2>5
  <2>7. Covered(n)'
    BY <2>1, <2>2, <2>3 DEF Covered
  <2>8. QED
    BY <2>1, <2>2, <2>3, <2>6, <2>7 DEF ChunkShares
<1>3. CASE EndSpawning \/ Return
  <2> USE <1>3 DEF EndSpawning, Return, given, results
  <2>1. UNCHANGED <<spawned, start, n, lo, hi, idx, pc, calls>> /\ TooSmall' = TooSmall
    BY DEF TooSmall, Bound
  <2>2. \A w \in 1 .. spawned : Stepped(w)' = Stepped(w)
    BY <2>1 DEF Stepped
  <2>3. main # "spawning" \/ (~TooSmall /\ start >= n)
    BY DEF AllStarted
  <2>4. Covered(n)' <=> Covered(n)
    BY <2>1 DEF Covered
  <2>5. Covered(Lesser(start, n))' <=> Covered(Lesser(start, n))
    BY <2>1 DEF Covered, Lesser
  <2>6. QED BY <1>0, <2>1, <2>2, <2>3, <2>4, <2>5 DEF ChunkShares
<1>4. ASSUME NEW g \in Goroutines,
             NewWorker(g) \/ Step(g) \/ ChunkDone(g) \/ ChunkCallEnds(g)
      PROVE  ChunkShares'
  <2> USE <1>4 DEF NewWorker, Step, ChunkDone, ChunkCallEnds, Answers, Calling, given, results
  <2>0. pc[g] \in {"setup", "ready", "calling"}
    OBVIOUS
  <2>1. g \in 1 .. spawned
    <3>1. ~ (g > spawned)
      BY <1>0, <2>0 DEF Places
    <3>2. QED BY <1>0, <3>1 DEF Goroutines, TypeOK
  <2>2. spawned' = spawned /\ n' = n /\ main' = main /\ start' = start /\ lo' = lo /\ hi' = hi
        /\ TooSmall' = TooSmall
    BY DEF TooSmall, Bound
  <2>3. \A w \in 1 .. spawned : w # g => pc'[w] = pc[w] /\ idx'[w] = idx[w]
    <3>1. \A w \in 1 .. spawned : w \in Goroutines
      BY <1>0 DEF TypeOK, Goroutines
    <3>2. \A w \in Goroutines : w # g => pc'[w] = pc[w] /\ idx'[w] = idx[w]
      BY <1>0 DEF TypeOK
    <3>3. QED BY <3>1, <3>2
  <2>4. /\ lo[g] <= idx[g] /\ idx[g] <= hi[g] /\ hi[g] <= n
        /\ pc[g] = "setup" => idx[g] = lo[g]
        /\ pc[g] = "calling" => idx[g] < hi[g]
    BY <1>0, <2>1 DEF ChunkShares
  <2>5. lo[g] \in Nat /\ hi[g] \in Nat /\ idx[g] \in Nat /\ idx'[g] \in Nat
    BY <1>0 DEF TypeOK
  <2>6. \/ NewWorker(g) /\ pc'[g] = "ready" /\ idx'[g] = idx[g] /\ calls' = calls
        \/ Step(g) /\ pc'[g] = "calling" /\ idx'[g] = idx[g]
        \/ ChunkDone(g) /\ pc'[g] = "done" /\ idx'[g] = idx[g] /\ calls' = calls
        \/ ChunkCallEnds(g) /\ pc'[g] = "ready" /\ idx'[g] = idx[g] + 1 /\ calls' = calls
    BY <1>0 DEF TypeOK
  <2>7. /\ lo'[g] <= idx'[g] /\ idx'[g] <= hi'[g] /\ hi'[g] <= n'
        /\ pc'[g] # "setup"
        /\ pc'[g] = "calling" => idx'[g] < hi'[g]
        /\ pc'[g] = "done" => idx'[g] = hi'[g]
    BY <2>2, <2>4, <2>5, <2>6
  <2>8. \A w \in 1 .. spawned' :
              /\ lo'[w] <= idx'[w] /\ idx'[w] <= hi'[w] /\ hi'[w] <= n'
              /\ pc'[w] = "setup" => idx'[w] = lo'[w]
              /\ pc'[w] = "calling" => idx'[w] < hi'[w]
              /\ pc'[w] = "done" => idx'[w] = hi'[w]
    <3>1. ASSUME NEW w \in 1 .. spawned
          PROVE  /\ lo[w] <= idx[w] /\ idx[w] <= hi[w] /\ hi[w] <= n
                 /\ pc[w] = "setup" => idx[w] = lo[w]
                 /\ pc[w] = "calling" => idx[w] < hi[w]
                 /\ pc[w] = "done" => idx[w] = hi[w]
      BY <1>0 DEF ChunkShares
    <3>2. QED BY <3>1, <2>2, <2>3, <2>7
  <2>9. \A w \in 1 .. spawned : w # g => Stepped(w)' = Stepped(w)
    BY <2>2, <2>3 DEF Stepped
  <2>10. CASE NewWorker(g) \/ ChunkDone(g) \/ ChunkCallEnds(g)
    <3>1. Stepped(g)' = Stepped(g)
      BY <2>2, <2>5, <2>6, <2>10 DEF Stepped, Items
    <3>2. calls' = calls
      BY <2>10
    <3>3. \A i \in Items : calls'[i] = IF \E w \in 1 .. spawned' : i \in Stepped(w)' THEN 1 ELSE 0
      BY <1>0, <2>2, <2>9, <3>1, <3>2 DEF ChunkShares
    <3>4. QED BY <1>0, <2>2, <2>8, <3>3 DEF ChunkShares, Covered, Lesser
  <2>11. CASE Step(g)
    <3>1. idx[g] \in Items /\ pc[g] = "ready" /\ pc'[g] = "calling" /\ idx'[g] = idx[g]
          /\ lo[g] <= idx[g] /\ idx[g] < hi[g]
      BY <1>0, <2>4, <2>11 DEF TypeOK, Items
    <3>2. Stepped(g)' = Stepped(g) \union {idx[g]}
      BY <2>2, <2>5, <3>1 DEF Stepped, Items
    <3>3. \A w \in 1 .. spawned : idx[g] \notin Stepped(w)
      <4>1. idx[g] \notin Stepped(g)
        BY <2>5, <3>1 DEF Stepped
      <4>2. ASSUME NEW w \in 1 .. spawned, w # g, idx[g] \in Stepped(w)
            PROVE  FALSE
        <5>1. idx[g] < lo[g] \/ idx[g] >= hi[g]
          BY <1>0, <2>1, <4>2, Apart
        <5>2. QED BY <5>1, <2>5, <3>1
      <4>3. QED BY <4>1, <4>2
    <3>4. calls[idx[g]] = 0
      BY <1>0, <3>1, <3>3 DEF ChunkShares
    <3>5. calls'[idx[g]] = 1 /\ \A i \in Items : i # idx[g] => calls'[i] = calls[i]
      BY <1>0, <2>11, <3>1, <3>4 DEF TypeOK
    <3>6. \A i \in Items :
             (\E w \in 1 .. spawned' : i \in Stepped(w)')
             <=> (i = idx[g] \/ \E w \in 1 .. spawned : i \in Stepped(w))
      BY <2>1, <2>2, <2>9, <3>2
    <3>7. \A i \in Items : calls'[i] = IF \E w \in 1 .. spawned' : i \in Stepped(w)' THEN 1 ELSE 0
      BY <1>0, <3>5, <3>6 DEF ChunkShares
    <3>8. QED BY <1>0, <2>2, <2>8, <3>7 DEF ChunkShares, Covered, Lesser
  <2>12. QED BY <1>4, <2>10, <2>11
<1>5. CASE UNCHANGED vars
  BY <1>0, <1>5 DEF vars, given, results, ChunkShares, Stepped, Covered, TooSmall, Bound
<1>6. QED
  BY <1>0, <1>1, <1>2, <1>3, <1>4, <1>5
     DEF Next, Caller, SpawnTaker, SpawnAsker, Goroutine, Take, Ask, TakeNone, MapSucceeds,
         MapFails, RecordFirst, AskEnds, Places

\* Map: a result is in its slot once its call is over, or its error is known.
LEMMA StepMapOutcomes == IInv /\ [Next]_vars => MapOutcomes'
<1> SUFFICES ASSUME IInv, [Next]_vars, op = "Map", op' = "Map" PROVE MapOutcomes'
  BY DEF MapOutcomes, Next, Caller, SpawnTaker, SpawnAsker, SpawnChunk, RunHere, EndSpawning,
         Return, Goroutine, NewWorker, Take, Ask, TakeNone, Step, ChunkDone, MapSucceeds, MapFails,
         RecordFirst, ChunkCallEnds, AskEnds, Answers, vars, given
<1>0. TypeOK /\ TypeOK' /\ Places /\ MapShares /\ MapOutcomes
  BY StepTypeOK DEF IInv
<1> USE DEF given, results
<1>1. CASE SpawnTaker
  <2>1. \A w \in Goroutines : pc[w] \in {"calling", "failed"} => pc'[w] = pc[w] /\ idx'[w] = idx[w]
    BY <1>0, <1>1 DEF SpawnTaker, Started, TypeOK, Places
  <2>2. \A w \in Goroutines : pc'[w] = "failed" => pc[w] = "failed"
    BY <1>0, <1>1 DEF SpawnTaker, Started, TypeOK
  <2>3. UNCHANGED <<next, n, failed, first, out>>
    BY <1>1 DEF SpawnTaker
  <2>4. QED BY <1>0, <2>1, <2>2, <2>3 DEF MapOutcomes
<1>2. CASE EndSpawning \/ Return
  BY <1>0, <1>2 DEF EndSpawning, Return, MapOutcomes
<1>3. ASSUME NEW g \in Goroutines, Goroutine(g)
      PROVE  MapOutcomes'
  <2>0. \A w \in Goroutines : w # g => pc'[w] = pc[w] /\ idx'[w] = idx[w]
    BY <1>0, <1>3
       DEF TypeOK, Goroutine, NewWorker, Take, Ask, Calling, TakeNone, Step, ChunkDone, MapSucceeds,
           MapFails, RecordFirst, ChunkCallEnds, AskEnds, Answers
  <2>1. CASE Take(g)
    <3>1. pc[g] = "ready" /\ pc'[g] = "calling" /\ idx'[g] = next /\ next' = next + 1
          /\ UNCHANGED <<n, out, failed, first>>
      BY <1>0, <2>1 DEF Take, Calling, TypeOK
    <3>2. ASSUME NEW i \in Items, i < next', i < n', i \notin failed'
          PROVE  out'[i] = Ok(i) \/ \E w \in Goroutines : pc'[w] = "calling" /\ idx'[w] = i
      <4>1. CASE i = next
        BY <3>1, <4>1
      <4>2. CASE i # next
        <5>1. i < next
          BY <1>0, <3>1, <3>2, <4>2 DEF TypeOK, Items
        <5>2. QED BY <1>0, <2>0, <3>1, <3>2, <5>1 DEF MapOutcomes
      <4>3. QED BY <4>1, <4>2
    <3>3. QED BY <1>0, <2>0, <3>1, <3>2 DEF MapOutcomes
  <2>2. CASE TakeNone(g)
    <3>1. pc[g] = "ready" /\ pc'[g] = "done" /\ next >= n /\ UNCHANGED <<n, idx, out, failed, first>>
      BY <1>0, <2>2 DEF TakeNone, TypeOK
    <3>2. \A i \in Items : i < n' => i < next
      BY <1>0, <3>1 DEF TypeOK, Items
    <3>3. QED BY <1>0, <2>0, <3>1, <3>2 DEF MapOutcomes
  <2>3. CASE MapSucceeds(g)
    <3>1. pc[g] = "calling" /\ pc'[g] = "ready" /\ UNCHANGED <<n, next, idx, failed, first>>
      BY <1>0, <2>3 DEF MapSucceeds, Answers, TypeOK
    <3>2. idx[g] \in Items
      BY <3>1, IndexIsItem
    <3>3. out'[idx[g]] = Ok(idx[g]) /\ \A i \in Items : i # idx[g] => out'[i] = out[i]
      BY <1>0, <2>3, <3>2 DEF MapSucceeds, TypeOK, Ok
    <3>4. QED BY <1>0, <2>0, <3>1, <3>2, <3>3 DEF MapOutcomes
  <2>4. CASE MapFails(g)
    <3>1. pc[g] = "calling" /\ pc'[g] = "failed" /\ UNCHANGED <<n, next, idx, out, first>>
          /\ failed' = failed \union {idx[g]}
      BY <1>0, <2>4 DEF MapFails, Answers, TypeOK
    <3>2. QED BY <1>0, <2>0, <3>1 DEF MapOutcomes
  <2>5. CASE RecordFirst(g)
    <3>1. pc[g] = "failed" /\ pc'[g] = "ready" /\ UNCHANGED <<n, next, idx, out, failed>>
          /\ first' = IF first = None THEN idx[g] ELSE first
      BY <1>0, <2>5 DEF RecordFirst, TypeOK
    <3>2. idx[g] \in failed /\ first' # None /\ first' \in failed
      BY <1>0, <3>1, SMTT(20) DEF MapOutcomes, TypeOK, Items
    <3>3. QED BY <1>0, <2>0, <3>1, <3>2 DEF MapOutcomes
  <2>6. QED
    BY <1>0, <1>3, <2>1, <2>2, <2>3, <2>4, <2>5
       DEF Goroutine, NewWorker, Ask, Step, ChunkDone, ChunkCallEnds, AskEnds, Places
<1>4. CASE UNCHANGED vars
  BY <1>0, <1>4 DEF vars, MapOutcomes
<1>5. QED
  BY <1>0, <1>1, <1>2, <1>3, <1>4
     DEF Next, Caller, SpawnAsker, SpawnChunk, RunHere

\* MapChunked: what a goroutine has passed is written.
LEMMA StepChunkOutcomes == IInv /\ [Next]_vars => ChunkOutcomes'
<1> SUFFICES ASSUME IInv, [Next]_vars, op = "MapChunked", op' = "MapChunked"
             PROVE  ChunkOutcomes'
  BY DEF ChunkOutcomes, Next, Caller, SpawnTaker, SpawnAsker, SpawnChunk, RunHere, EndSpawning,
         Return, Goroutine, NewWorker, Take, Ask, TakeNone, Step, ChunkDone, MapSucceeds, MapFails,
         RecordFirst, ChunkCallEnds, AskEnds, Answers, vars, given
<1>0. TypeOK /\ TypeOK' /\ Places /\ Places' /\ ChunkShares /\ ChunkShares' /\ ChunkOutcomes
  BY StepTypeOK, StepPlaces, StepChunkShares DEF IInv
<1> USE DEF given, results
<1>1. CASE SpawnChunk \/ RunHere
  <2>1. PICK g \in Goroutines : g = spawned' /\ lo'[g] = idx'[g]
             /\ \A w \in Goroutines : w # g => lo'[w] = lo[w] /\ idx'[w] = idx[w]
    <3>1. CASE SpawnChunk
      <4>1. spawned + 1 \in Goroutines
        <5>1. spawned < MaxItems
          BY <1>0, <3>1 DEF SpawnChunk, ChunkShares, TypeOK
        <5>2. QED BY <1>0, <5>1, NextGoroutine
      <4>2. QED BY <1>0, <3>1, <4>1 DEF SpawnChunk, Started, TypeOK
    <3>2. CASE RunHere
      <4>1. 1 \in Goroutines
        BY DEF Goroutines
      <4>2. QED BY <1>0, <3>2, <4>1 DEF RunHere, Started, TypeOK
    <3>3. QED BY <1>1, <3>1, <3>2
  <2>2. \A w \in 1 .. spawned' : w \in Goroutines /\ (w # g => w \in 1 .. spawned)
    <3>1. spawned' = spawned + 1
      BY <1>0, <1>1 DEF SpawnChunk, RunHere, Started, ChunkShares
    <3>2. spawned \in Nat /\ spawned' \in 0 .. MaxItems
      BY <1>0 DEF TypeOK
    <3>3. QED BY <2>1, <3>1, <3>2 DEF Goroutines
  <2>3. UNCHANGED <<out, failed>>
    BY <1>1 DEF SpawnChunk, RunHere
  <2>4. \A i \in Items : ~ (lo'[g] <= i /\ i < idx'[g])
    BY <1>0, <2>1, SMTT(20) DEF TypeOK, Items
  <2>5. QED BY <1>0, <2>1, <2>2, <2>3, <2>4 DEF ChunkOutcomes
<1>2. CASE EndSpawning \/ Return
  BY <1>0, <1>2 DEF EndSpawning, Return, ChunkOutcomes
<1>3. ASSUME NEW g \in Goroutines, NewWorker(g) \/ Step(g) \/ ChunkDone(g)
      PROVE  ChunkOutcomes'
  <2>1. idx' = idx
    BY <1>0, <1>3 DEF NewWorker, Step, ChunkDone, Calling, TypeOK
  <2>2. UNCHANGED <<spawned, lo, out, failed>>
    BY <1>3 DEF NewWorker, Step, ChunkDone
  <2>3. QED BY <1>0, <2>1, <2>2 DEF ChunkOutcomes
<1>4. ASSUME NEW g \in Goroutines, ChunkCallEnds(g)
      PROVE  ChunkOutcomes'
  <2>1. pc[g] = "calling" /\ UNCHANGED <<spawned, lo, hi>> /\ failed' = failed
    BY <1>4 DEF ChunkCallEnds, Answers
  <2>2. idx[g] \in Items
    BY <2>1, IndexIsItem
  <2>3. out'[idx[g]] = Ok(idx[g]) /\ \A i \in Items : i # idx[g] => out'[i] = out[i]
    BY <1>0, <1>4, <2>2 DEF ChunkCallEnds, TypeOK, Ok
  <2>4. idx'[g] = idx[g] + 1 /\ \A w \in Goroutines : w # g => idx'[w] = idx[w]
    BY <1>0, <1>4 DEF ChunkCallEnds, TypeOK
  <2>5. ASSUME NEW w \in 1 .. spawned', NEW i \in Items, lo'[w] <= i, i < idx'[w]
        PROVE  out'[i] = Ok(i)
    <3>1. w \in 1 .. spawned /\ w \in Goroutines
      BY <1>0, <2>1, <2>5 DEF TypeOK, Goroutines
    <3>2. CASE i = idx[g]
      BY <2>3, <3>2
    <3>3. CASE i # idx[g]
      <4>1. lo[w] <= i /\ i < idx[w]
        <5>1. lo[w] <= i /\ i < idx'[w] /\ i \in Nat /\ idx[w] \in Nat /\ idx[g] \in Nat
          BY <1>0, <2>1, <2>5, <3>1 DEF TypeOK, Items
        <5>2. QED BY <5>1, <2>4, <3>1, <3>3
      <4>2. QED BY <1>0, <2>3, <3>1, <3>3, <4>1 DEF ChunkOutcomes
    <3>4. QED BY <3>2, <3>3
  <2>6. QED BY <1>0, <2>1, <2>5 DEF ChunkOutcomes
<1>5. CASE UNCHANGED vars
  BY <1>0, <1>5 DEF vars, ChunkOutcomes
<1>6. QED
  BY <1>0, <1>1, <1>2, <1>3, <1>4, <1>5
     DEF Next, Caller, SpawnTaker, SpawnAsker, Goroutine, Take, Ask, TakeNone, MapSucceeds,
         MapFails, RecordFirst, AskEnds, Places

\* askAll: a goroutine that is done has kept its provider's reply.
LEMMA StepAskOutcomes == IInv /\ [Next]_vars => AskOutcomes'
<1> SUFFICES ASSUME IInv, [Next]_vars, op = "askAll", op' = "askAll" PROVE AskOutcomes'
  BY DEF AskOutcomes, Next, Caller, SpawnTaker, SpawnAsker, SpawnChunk, RunHere, EndSpawning,
         Return, Goroutine, NewWorker, Take, Ask, TakeNone, Step, ChunkDone, MapSucceeds, MapFails,
         RecordFirst, ChunkCallEnds, AskEnds, Answers, vars, given
<1>0. TypeOK /\ TypeOK' /\ Places /\ AskShares /\ AskOutcomes
  BY StepTypeOK DEF IInv
<1> USE DEF given, results
<1>1. CASE SpawnAsker
  <2>1. PICK g \in Goroutines : g = spawned + 1
    <3>1. spawned < MaxItems
      BY <1>0, <1>1 DEF SpawnAsker, Wanted, TypeOK
    <3>2. QED BY <1>0, <3>1, NextGoroutine
  <2>2. pc'[g] = "ready" /\ \A w \in Goroutines : w # g => pc'[w] = pc[w]
    BY <1>0, <1>1, <2>1 DEF SpawnAsker, Started, TypeOK
  <2>3. UNCHANGED <<out, failed>> /\ spawned' = spawned + 1
    BY <1>1 DEF SpawnAsker, Started
  <2>4. g - 1 \notin failed /\ \A i \in failed : i < spawned'
    BY <1>0, <2>1, <2>3, SMTT(20) DEF AskOutcomes, TypeOK, Items
  <2>5. \A w \in 1 .. spawned' : w \in Goroutines /\ (w # g => w \in 1 .. spawned)
    <3>1. MaxItems \in Nat /\ spawned \in 0 .. MaxItems /\ g \in 1 .. MaxItems
      BY <1>0, <2>1, SizeAssumption DEF TypeOK, Goroutines
    <3>2. spawned' = spawned + 1 /\ g = spawned + 1
      BY <2>1, <2>3
    <3>3. \A w \in 1 .. spawned + 1 : w \in 1 .. MaxItems /\ (w # spawned + 1 => w \in 1 .. spawned)
      BY <3>1, <3>2
    <3>4. QED BY <3>2, <3>3 DEF Goroutines
  <2>6. QED BY <1>0, <2>1, <2>2, <2>3, <2>4, <2>5 DEF AskOutcomes
<1>2. CASE EndSpawning \/ Return
  BY <1>0, <1>2 DEF EndSpawning, Return, AskOutcomes
<1>3. ASSUME NEW g \in Goroutines, NEW fails \in BOOLEAN, AskEnds(g, fails)
      PROVE  AskOutcomes'
  <2>1. pc[g] = "calling" /\ pc'[g] = "done" /\ \A w \in Goroutines : w # g => pc'[w] = pc[w]
    BY <1>0, <1>3 DEF AskEnds, Answers, TypeOK
  <2>2. g \in 1 .. spawned /\ idx[g] = g - 1 /\ idx[g] \in Items
    <3>1. g \in 1 .. spawned
      BY <1>0, <2>1 DEF Places, Goroutines, TypeOK
    <3>2. QED BY <1>0, <2>1, <3>1, IndexIsItem DEF AskShares
  <2>3. out'[g - 1] = [item |-> g - 1, err |-> fails]
        /\ \A i \in Items : i # g - 1 => out'[i] = out[i]
    BY <1>0, <1>3, <2>2 DEF AskEnds, TypeOK
  <2>4. g - 1 \notin failed
    BY <1>0, <2>1, <2>2 DEF AskOutcomes
  <2>5. (g - 1 \in failed') <=> fails
    BY <1>3, <2>2, <2>4 DEF AskEnds, Answers
  <2>6. \A i \in Items : i # g - 1 => (i \in failed' <=> i \in failed)
    BY <1>3, <2>2 DEF AskEnds, Answers
  <2>7. spawned' = spawned
    BY <1>3 DEF AskEnds, Answers
  <2>8. ASSUME NEW w \in 1 .. spawned, w # g
        PROVE  /\ pc'[w] \in {"ready", "calling"} => w - 1 \notin failed'
               /\ pc'[w] = "done" => out'[w - 1] = [item |-> w - 1, err |-> w - 1 \in failed']
    <3>1. w \in Goroutines /\ w - 1 \in Items /\ w - 1 # g - 1
      BY <1>0, <2>8 DEF TypeOK, Goroutines, Items
    <3>2. pc'[w] = pc[w] /\ out'[w - 1] = out[w - 1] /\ (w - 1 \in failed' <=> w - 1 \in failed)
      BY <2>1, <2>3, <2>6, <2>8, <3>1
    <3>3. QED BY <1>0, <3>2 DEF AskOutcomes
  <2>9. /\ pc'[g] \in {"ready", "calling"} => g - 1 \notin failed'
        /\ pc'[g] = "done" => out'[g - 1] = [item |-> g - 1, err |-> g - 1 \in failed']
    BY <2>1, <2>3, <2>5
  <2>10. \A i \in failed' : i < spawned
    BY <1>0, <1>3, <2>2 DEF AskEnds, Answers, AskOutcomes, TypeOK
  <2>11. QED BY <2>7, <2>8, <2>9, <2>10 DEF AskOutcomes
<1>4. ASSUME NEW g \in Goroutines, Ask(g)
      PROVE  AskOutcomes'
  <2>1. pc[g] = "ready" /\ pc'[g] = "calling" /\ UNCHANGED <<spawned, out, failed>>
        /\ \A w \in Goroutines : w # g => pc'[w] = pc[w]
    BY <1>0, <1>4 DEF Ask, Calling, TypeOK
  <2>2. \A w \in 1 .. spawned : w \in Goroutines
    BY <1>0 DEF TypeOK, Goroutines
  <2>3. QED BY <1>0, <2>1, <2>2 DEF AskOutcomes
<1>5. CASE UNCHANGED vars
  BY <1>0, <1>5 DEF vars, AskOutcomes
<1>6. QED
  BY <1>0, <1>1, <1>2, <1>3, <1>4, <1>5
     DEF Next, Caller, SpawnTaker, SpawnChunk, RunHere, Goroutine, NewWorker, Take, TakeNone,
         Step, ChunkDone, MapSucceeds, MapFails, RecordFirst, ChunkCallEnds, Places
-----------------------------------------------------------------------------
\* The inductive invariant of Map, MapChunked and askAll.
THEOREM Invariant == Spec => []IInv
<1>1. Init => IInv
  BY InitIInv
<1>2. IInv /\ [Next]_vars => IInv'
  BY StepTypeOK, StepPlaces, StepMapShares, StepAskShares, StepChunkShares, StepMapOutcomes,
     StepChunkOutcomes, StepAskOutcomes DEF IInv
<1>3. QED BY <1>1, <1>2, PTL DEF Spec

\* Every variable keeps its type; no chunk reaches past the last item.
THEOREM TypeCorrect == Spec => []TypeOK
<1>1. IInv => TypeOK
  BY DEF IInv
<1>2. QED BY <1>1, Invariant, PTL

\* What the goroutines of a call that has returned have called f on.
LEMMA AllCalled ==
  ASSUME IInv, main = "returned", NEW i \in 0 .. n - 1
  PROVE  /\ i \in Items /\ calls[i] = 1
         /\ op = "Map" => i < next
         /\ op = "askAll" => i + 1 \in 1 .. spawned
         /\ op = "MapChunked" => \E w \in 1 .. spawned : lo[w] <= i /\ i < idx[w]
<1>0. TypeOK /\ Places /\ i \in Items /\ i \in Nat /\ n \in Nat /\ i < n
  BY DEF IInv, TypeOK, Items
<1>1. CASE op = "Map"
  <2>1. Bound \in Nat \ {0}
    BY <1>0, BoundPositive
  <2>2. spawned >= 1 /\ spawned <= MaxItems
    BY <1>0, <1>1, <2>1 DEF Places, Wanted, Lesser, TypeOK
  <2>3. 1 \in Goroutines /\ 1 \in 1 .. spawned
    BY <2>2 DEF Goroutines
  <2>4. pc[1] = "done"
    BY <1>0, <2>3 DEF Places
  <2>5. next >= n
    BY <1>1, <2>3, <2>4 DEF IInv, MapShares
  <2>6. QED BY <1>0, <1>1, <2>5 DEF IInv, MapShares, TypeOK
<1>2. CASE op = "askAll"
  <2>1. spawned = n
    BY <1>0, <1>2 DEF Places, Wanted
  <2>2. i + 1 \in 1 .. spawned /\ pc[i + 1] = "done"
    BY <1>0, <2>1 DEF Places
  <2>3. QED BY <1>0, <1>2, <2>1, <2>2 DEF IInv, AskShares
<1>3. CASE op = "MapChunked"
  <2>1. Covered(n)
    BY <1>0, <1>3 DEF IInv, ChunkShares, Lesser, TypeOK
  <2>2. PICK w \in 1 .. spawned : lo[w] <= i /\ i < hi[w]
    BY <1>0, <2>1 DEF Covered
  <2>3. pc[w] = "done" /\ idx[w] = hi[w]
    BY <1>0, <1>3, <2>2 DEF IInv, Places, ChunkShares
  <2>4. i \in Stepped(w)
    BY <1>0, <2>2, <2>3 DEF Stepped
  <2>5. QED BY <1>0, <1>3, <2>2, <2>3, <2>4 DEF IInv, ChunkShares
<1>4. QED BY <1>0, <1>1, <1>2, <1>3 DEF TypeOK

\* Every item is given to f once, however the goroutines share them out: an
\* index is handed out once by the counter, and chunks partition the indexes.
THEOREM EachItemOnce == Spec => []EachOnce
<1>1. IInv => EachOnce
  <2> SUFFICES ASSUME IInv PROVE EachOnce
    OBVIOUS
  <2>1. \A i \in Items : calls[i] <= 1
    BY DEF IInv, TypeOK, MapShares, AskShares, ChunkShares
  <2>2. QED BY <2>1, AllCalled DEF EachOnce
<1>2. QED BY <1>1, Invariant, PTL

\* The caller is handed what the calls returned, item by item.
THEOREM RightResults == Spec => []ReturnsWhatCallsDid
<1>1. IInv => ReturnsWhatCallsDid
  <2> SUFFICES ASSUME IInv, main = "returned"
               PROVE  /\ op = "Map" => (first # None <=> failed # {}) /\ first \in failed \union {None}
                      /\ (op = "Map" => first = None) =>
                            \A i \in 0 .. n - 1 : out[i] = [item |-> i, err |-> i \in failed]
    BY DEF ReturnsWhatCallsDid
  <2>0. TypeOK /\ Places /\ \A w \in Goroutines : pc[w] \in {"idle", "done"}
    BY DEF IInv, Places, TypeOK, Goroutines
  <2>1. CASE op = "Map"
    <3>1. first \in failed \union {None} /\ (first = None => failed = {})
      BY <2>0, <2>1 DEF IInv, MapOutcomes, TypeOK
    <3>2. first # None => failed # {}
      BY <3>1
    <3>3. ASSUME first = None, NEW i \in 0 .. n - 1
          PROVE  out[i] = [item |-> i, err |-> i \in failed]
      <4>1. i \in Items /\ i < next /\ i < n /\ failed = {}
        BY <2>0, <2>1, <3>1, <3>3, AllCalled DEF TypeOK
      <4>2. out[i] = Ok(i)
        BY <2>0, <2>1, <4>1 DEF IInv, MapOutcomes
      <4>3. (i \in failed) = FALSE
        BY <4>1
      <4>4. QED BY <4>2, <4>3 DEF Ok
    <3>4. QED BY <2>1, <3>1, <3>2, <3>3
  <2>2. CASE op = "MapChunked"
    <3>1. ASSUME NEW i \in 0 .. n - 1
          PROVE  out[i] = [item |-> i, err |-> i \in failed]
      <4>1. i \in Items /\ \E w \in 1 .. spawned : lo[w] <= i /\ i < idx[w]
        BY <2>2, AllCalled
      <4>2. out[i] = Ok(i) /\ failed = {}
        BY <2>2, <4>1 DEF IInv, ChunkOutcomes
      <4>3. (i \in failed) = FALSE
        BY <4>2
      <4>4. QED BY <4>2, <4>3 DEF Ok
    <3>2. QED BY <2>2, <3>1
  <2>3. CASE op = "askAll"
    <3>1. ASSUME NEW i \in 0 .. n - 1
          PROVE  out[i] = [item |-> i, err |-> i \in failed]
      <4>1. i + 1 \in 1 .. spawned /\ (i + 1) - 1 = i
        BY <2>3, AllCalled
      <4>2. pc[i + 1] = "done"
        BY <2>0, <4>1 DEF Places
      <4>3. QED BY <2>3, <4>1, <4>2 DEF IInv, AskOutcomes
    <3>2. QED BY <2>3, <3>1
  <2>4. QED BY <2>0, <2>1, <2>2, <2>3 DEF TypeOK
<1>2. QED BY <1>1, Invariant, PTL

\* The goroutines that have made their own state.
Built == {w \in Goroutines : pc[w] \notin {"idle", "setup"}}

\* How many goroutines MapChunked has started, and newWorker calls it made.
Limited ==
    /\ op # "MapChunked" => made = 0
    /\ op = "MapChunked" => made = Cardinality(Built)
    /\ op = "MapChunked" /\ ~TooSmall => start = spawned * ChunkSize /\ spawned <= Bound

\* Rounding the chunk size up leaves no more chunks than workers.
LEMMA StepLimited == IInv /\ Limited /\ [Next]_vars => Limited'
<1> SUFFICES ASSUME IInv, Limited, [Next]_vars PROVE Limited'
  OBVIOUS
<1>0. TypeOK /\ TypeOK' /\ Places /\ Places' /\ Bound \in Nat \ {0}
  BY StepTypeOK, StepPlaces, BoundPositive DEF IInv
<1> USE DEF given, results
<1>1. UNCHANGED <<op, n, limit>> /\ Bound' = Bound /\ ChunkSize' = ChunkSize /\ TooSmall' = TooSmall
  BY DEF Next, Caller, SpawnTaker, SpawnAsker, SpawnChunk, RunHere, EndSpawning, Return,
         Goroutine, NewWorker, Take, Ask, TakeNone, Step, ChunkDone, MapSucceeds, MapFails,
         RecordFirst, ChunkCallEnds, AskEnds, Answers, vars, Bound, ChunkSize, TooSmall
<1>2. op # "MapChunked" => made' = made
  <2>1. op # "MapChunked" => \A w \in Goroutines : ~ NewWorker(w)
    BY <1>0 DEF NewWorker, Places, TypeOK
  <2>2. QED
    BY <2>1 DEF Next, Caller, SpawnTaker, SpawnAsker, SpawnChunk, RunHere, EndSpawning, Return,
         Goroutine, Take, Ask, TakeNone, Step, ChunkDone, MapSucceeds, MapFails,
         RecordFirst, ChunkCallEnds, AskEnds, Answers, vars
<1>3. CASE SpawnChunk
  <2>1. ChunkSize \in Nat \ {0} /\ ChunkSize * Bound >= n
    BY <1>0, <1>3, ChunkSizes DEF SpawnChunk
  <2>2. start = spawned * ChunkSize /\ start < n /\ start' = start + ChunkSize /\ spawned' = spawned + 1
    BY <1>3 DEF SpawnChunk, Started, Limited
  <2> DEFINE c == ChunkSize
             b == Bound
  <2>3. c \in Nat \ {0} /\ b \in Nat /\ spawned \in Nat /\ n \in Nat /\ c * b >= n
        /\ spawned * c < n
    BY <1>0, <2>1, <2>2 DEF TypeOK
  <2>4. spawned' * c = spawned * c + c
    <3> HIDE DEF c, b
    <3>1. (spawned + 1) * c = spawned * c + c
      BY <2>3
    <3>2. QED BY <2>2, <3>1
  <2>5. spawned < b
    <3> HIDE DEF c, b
    <3>1. ASSUME spawned >= b PROVE FALSE
      <4>1. PICK d \in Nat : spawned = b + d
        <5>1. spawned - b \in Nat /\ spawned = b + (spawned - b)
          BY <2>3, <3>1
        <5>2. QED BY <5>1
      <4>2. (b + d) * c = b * c + d * c
        BY <2>3
      <4>3. d * c >= 0 /\ b * c = c * b
        BY <2>3
      <4>4. QED BY <2>3, <4>1, <4>2, <4>3
    <3>2. QED BY <2>3, <3>1
  <2>6. Built' = Built
    <3>1. spawned + 1 \in Goroutines
      BY <1>0, <1>3, NextGoroutine DEF IInv, ChunkShares, SpawnChunk, TypeOK
    <3>2. pc[spawned + 1] = "idle" /\ pc' = [pc EXCEPT ![spawned + 1] = "setup"]
      BY <1>0, <1>3, <3>1 DEF Places, SpawnChunk, Started, TypeOK
    <3>3. QED BY <1>0, <3>1, <3>2 DEF Built, TypeOK
  <2>7. made' = made
    BY <1>3 DEF SpawnChunk
  <2>8. spawned' <= Bound /\ start' = spawned' * ChunkSize
    BY <2>2, <2>3, <2>4, <2>5
  <2>9. QED BY <1>1, <1>2, <2>6, <2>7, <2>8 DEF Limited
<1>4. CASE RunHere
  <2>1. 1 \in Goroutines /\ spawned = 0
    BY <1>4 DEF RunHere, IInv, ChunkShares, Goroutines
  <2>2. pc[1] = "idle" /\ pc' = [pc EXCEPT ![1] = "setup"]
    BY <1>0, <1>4, <2>1 DEF Places, RunHere, Started
  <2>3. Built' = Built
    BY <1>0, <2>1, <2>2 DEF Built, TypeOK
  <2>4. QED BY <1>1, <1>2, <1>4, <2>3 DEF Limited, RunHere
<1>5. ASSUME NEW g \in Goroutines, NewWorker(g) PROVE Limited'
  <2>1. pc[g] = "setup" /\ pc' = [pc EXCEPT ![g] = "ready"] /\ made' = made + 1
        /\ UNCHANGED <<start, spawned>>
    BY <1>5 DEF NewWorker
  <2>2. Built' = Built \union {g} /\ g \notin Built
    BY <1>0, <1>5, <2>1 DEF Built, TypeOK
  <2>3. op = "MapChunked"
    BY <1>0, <2>1 DEF Places, TypeOK
  <2>4. IsFiniteSet(Built)
    <3>1. IsFiniteSet(Goroutines)
      BY FS_Interval DEF Goroutines
    <3>2. QED BY <3>1, FS_Subset DEF Built
  <2>5. Cardinality(Built') = Cardinality(Built) + 1
    BY <2>2, <2>4, FS_AddElement
  <2>6. Cardinality(Built)' = Cardinality(Built')
    OBVIOUS
  <2>7. QED BY <1>1, <2>1, <2>3, <2>5, <2>6 DEF Limited
<1>6. ASSUME NEW g \in Goroutines, Step(g) \/ ChunkDone(g) \/ ChunkCallEnds(g) PROVE Limited'
  <2>1. pc[g] \in {"ready", "calling"} /\ pc'[g] \in {"ready", "calling", "done"}
        /\ (\A w \in Goroutines : w # g => pc'[w] = pc[w]) /\ UNCHANGED <<made, start, spawned>>
    BY <1>0, <1>6 DEF Step, ChunkDone, ChunkCallEnds, Answers, Calling, TypeOK
  <2>2. Built' = Built
    BY <2>1 DEF Built
  <2>3. QED BY <1>1, <2>1, <2>2 DEF Limited
<1>7. CASE EndSpawning \/ Return
  <2>1. UNCHANGED <<pc, made, start, spawned>>
    BY <1>7 DEF EndSpawning, Return
  <2>2. QED BY <1>1, <2>1 DEF Limited, Built
<1>8. CASE UNCHANGED vars
  <2>1. UNCHANGED <<pc, made, start, spawned>>
    BY <1>8 DEF vars
  <2>2. QED BY <1>1, <2>1 DEF Limited, Built
<1>9. CASE op # "MapChunked"
  BY <1>1, <1>2, <1>9 DEF Limited
<1>10. QED
  BY <1>0, <1>3, <1>4, <1>5, <1>6, <1>7, <1>8, <1>9
     DEF Next, Caller, SpawnTaker, SpawnAsker, Goroutine, Take, Ask, TakeNone, MapSucceeds,
         MapFails, RecordFirst, AskEnds, Places

\* Never more goroutines than the limit, nor more states built than that.
THEOREM LimitKept == Spec => []WithinLimit
<1>1. Init => Limited
  <2> SUFFICES ASSUME Init PROVE Limited
    OBVIOUS
  <2>1. TypeOK /\ Bound \in Nat \ {0}
    BY InitIInv, BoundPositive DEF IInv
  <2>2. Built = {}
    BY DEF Init, Built
  <2>3. op = "MapChunked" /\ ~TooSmall => ChunkSize \in Nat
    BY <2>1, ChunkSizes
  <2>4. Cardinality({}) = 0
    BY FS_EmptySet
  <2>5. QED BY <2>1, <2>2, <2>3, <2>4 DEF Init, Limited
<1>2. IInv /\ Limited => WithinLimit
  <2> SUFFICES ASSUME IInv, Limited, op # "askAll" PROVE spawned <= Bound /\ made <= Bound
    BY DEF WithinLimit
  <2>0. TypeOK /\ Places /\ Bound \in Nat \ {0} /\ spawned \in Nat
    BY BoundPositive DEF IInv, TypeOK
  <2>1. spawned <= Bound
    <3>1. CASE op = "Map"
      BY <2>0, <3>1 DEF Places, Wanted, Lesser, TypeOK
    <3>2. CASE op = "MapChunked" /\ ~TooSmall
      BY <3>2 DEF Limited
    <3>3. CASE op = "MapChunked" /\ TooSmall
      <4>1. spawned <= 1
        BY <2>0, <3>3 DEF IInv, ChunkShares
      <4>2. QED BY <2>0, <4>1
    <3>4. QED BY <2>0, <3>1, <3>2, <3>3 DEF TypeOK
  <2>2. made <= spawned
    <3>1. CASE op = "Map"
      BY <2>0, <3>1 DEF Limited
    <3>2. CASE op = "MapChunked"
      <4>1. Built \subseteq 1 .. spawned
        BY <2>0 DEF Built, Places, Goroutines
      <4>2. IsFiniteSet(1 .. spawned) /\ Cardinality(1 .. spawned) = spawned
        BY <2>0, FS_Interval
      <4>3. Cardinality(Built) <= Cardinality(1 .. spawned)
        BY <4>1, <4>2, FS_Subset
      <4>4. QED BY <3>2, <4>2, <4>3 DEF Limited
    <3>3. QED BY <2>0, <3>1, <3>2 DEF TypeOK
  <2>3. QED BY <2>0, <2>1, <2>2 DEF TypeOK
<1>3. QED BY <1>1, <1>2, StepLimited, Invariant, PTL DEF Spec
=============================================================================
