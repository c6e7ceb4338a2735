-------------------------- MODULE ChunkCache_proofs --------------------------
(***************************************************************************)
(* Theorems about the chunk cache, for any number of readers and chunks    *)
(* and any cache size.                                                     *)
(***************************************************************************)
EXTENDS ChunkCache, SequenceTheorems, FiniteSetTheorems, TLAPS

\* Deleting the element at a position counted from 0 shifts those after it.
LEMMA DeleteAt ==
  ASSUME NEW S, NEW s \in Seq(S), NEW i \in 0 .. Len(s) - 1
  PROVE  /\ DeleteAt0(s, i) \in Seq(S)
         /\ Len(DeleteAt0(s, i)) = Len(s) - 1
         /\ \A j \in 1 .. Len(s) - 1 :
               DeleteAt0(s, i)[j] = IF j <= i THEN s[j] ELSE s[j + 1]
<1> DEFINE a == SubSeq(s, 1, i)
           b == SubSeq(s, i + 2, Len(s))
<1>0. Len(s) \in Nat /\ i \in Nat /\ \A j \in 1 .. Len(s) : s[j] \in S
  OBVIOUS
<1>1. a \in Seq(S) /\ Len(a) = i /\ \A j \in 1 .. i : a[j] = s[j]
  BY <1>0, SubSeqProperties
<1>2. b \in Seq(S) /\ Len(b) = Len(s) - i - 1
      /\ \A j \in 1 .. Len(s) - i - 1 : b[j] = s[j + i + 1]
  BY <1>0, SubSeqProperties
<1> HIDE DEF a, b
<1>3. /\ a \o b \in Seq(S)
      /\ Len(a \o b) = Len(a) + Len(b)
      /\ \A j \in 1 .. Len(a) + Len(b) :
            (a \o b)[j] = IF j <= Len(a) THEN a[j] ELSE b[j - Len(a)]
  <2>1. a \in Seq(S) /\ b \in Seq(S)
    BY <1>1, <1>2
  <2>2. QED BY <2>1, ConcatProperties, Zenon
<1>4. DeleteAt0(s, i) = a \o b
  BY DEF DeleteAt0, a, b
<1>5. ASSUME NEW j \in 1 .. Len(s) - 1
      PROVE  (a \o b)[j] = IF j <= i THEN s[j] ELSE s[j + 1]
  <2>1. j \in 1 .. Len(a) + Len(b) /\ j \in Nat
    BY <1>0, <1>1, <1>2
  <2>2. CASE j <= i
    BY <2>1, <2>2, <1>0, <1>1, <1>3
  <2>3. CASE ~ (j <= i)
    <3>1. (a \o b)[j] = b[j - i]
      BY <2>1, <2>3, <1>1, <1>3
    <3>2. j - i \in 1 .. Len(s) - i - 1 /\ (j - i) + i + 1 = j + 1
      BY <2>1, <2>3, <1>0
    <3>3. QED BY <3>1, <3>2, <2>3, <1>2
  <2>4. QED BY <2>2, <2>3
<1>6. Len(a \o b) = Len(s) - 1
  BY <1>0, <1>1, <1>2, <1>3
<1>7. QED BY <1>3, <1>4, <1>5, <1>6

\* Inserting one at such a position makes room for it.
LEMMA InsertAt ==
  ASSUME NEW S, NEW s \in Seq(S), NEW i \in 0 .. Len(s), NEW e \in S
  PROVE  /\ InsertAt0(s, i, e) \in Seq(S)
         /\ Len(InsertAt0(s, i, e)) = Len(s) + 1
         /\ \A j \in 1 .. i : InsertAt0(s, i, e)[j] = s[j]
         /\ InsertAt0(s, i, e)[i + 1] = e
         /\ \A j \in i + 2 .. Len(s) + 1 : InsertAt0(s, i, e)[j] = s[j - 1]
<1> DEFINE a == SubSeq(s, 1, i)
           b == SubSeq(s, i + 1, Len(s))
           c == a \o <<e>>
<1>0. Len(s) \in Nat /\ i \in Nat /\ \A j \in 1 .. Len(s) : s[j] \in S
  OBVIOUS
<1>1. a \in Seq(S) /\ Len(a) = i /\ \A j \in 1 .. i : a[j] = s[j]
  BY <1>0, SubSeqProperties
<1>2. b \in Seq(S) /\ Len(b) = Len(s) - i
      /\ \A j \in 1 .. Len(s) - i : b[j] = s[j + i]
  BY <1>0, SubSeqProperties
<1>3. <<e>> \in Seq(S) /\ Len(<<e>>) = 1 /\ <<e>>[1] = e
  OBVIOUS
<1> HIDE DEF a, b
<1>4. /\ c \in Seq(S)
      /\ Len(c) = i + 1
      /\ \A j \in 1 .. i + 1 : c[j] = IF j <= i THEN s[j] ELSE e
  <2>1. /\ c \in Seq(S)
        /\ Len(c) = i + 1
        /\ \A j \in 1 .. i + 1 : c[j] = IF j <= i THEN a[j] ELSE <<e>>[j - i]
    BY <1>0, <1>1, <1>3, ConcatProperties
  <2>2. ASSUME NEW j \in 1 .. i + 1 PROVE c[j] = IF j <= i THEN s[j] ELSE e
    <3>1. CASE j <= i
      BY <3>1, <2>1, <1>0, <1>1
    <3>2. CASE ~ (j <= i)
      <4>1. j - i = 1
        BY <3>2, <1>0
      <4>2. QED BY <3>2, <4>1, <2>1, <1>3
    <3>3. QED BY <3>1, <3>2
  <2>3. QED BY <2>1, <2>2
<1> HIDE DEF c
<1>5. /\ c \o b \in Seq(S)
      /\ Len(c \o b) = Len(c) + Len(b)
      /\ \A j \in 1 .. Len(c) + Len(b) :
            (c \o b)[j] = IF j <= Len(c) THEN c[j] ELSE b[j - Len(c)]
  <2>1. c \in Seq(S) /\ b \in Seq(S)
    BY <1>2, <1>4
  <2>2. QED BY <2>1, ConcatProperties, Zenon
<1>6. InsertAt0(s, i, e) = c \o b
  BY DEF InsertAt0, a, b, c
<1>7. ASSUME NEW j \in 1 .. Len(s) + 1
      PROVE  (c \o b)[j] = IF j <= i THEN s[j] ELSE IF j = i + 1 THEN e ELSE s[j - 1]
  <2>1. j \in 1 .. Len(c) + Len(b) /\ j \in Nat
    BY <1>0, <1>2, <1>4
  <2>2. CASE j <= i + 1
    <3>1. j \in 1 .. i + 1 /\ (~ (j <= i) => j = i + 1)
      BY <2>1, <2>2, <1>0
    <3>2. (c \o b)[j] = c[j]
      BY <2>1, <2>2, <1>4, <1>5
    <3>3. QED BY <3>1, <3>2, <1>4
  <2>3. CASE ~ (j <= i + 1)
    <3>1. (c \o b)[j] = b[j - (i + 1)]
      BY <2>1, <2>3, <1>4, <1>5
    <3>2. /\ j - (i + 1) \in 1 .. Len(s) - i /\ (j - (i + 1)) + i = j - 1
          /\ ~ (j <= i) /\ j # i + 1
      BY <2>1, <2>3, <1>0
    <3>3. QED BY <3>1, <3>2, <1>2
  <2>4. QED BY <2>2, <2>3
<1>8. Len(c \o b) = Len(s) + 1
  BY <1>0, <1>2, <1>4, <1>5
<1>9. /\ \A j \in 1 .. i : (c \o b)[j] = s[j]
      /\ (c \o b)[i + 1] = e
      /\ \A j \in i + 2 .. Len(s) + 1 : (c \o b)[j] = s[j - 1]
  <2>1. ASSUME NEW j \in 1 .. i PROVE (c \o b)[j] = s[j]
    <3>1. j \in 1 .. Len(s) + 1 /\ j <= i
      BY <1>0
    <3>2. QED BY <3>1, <1>7
  <2>2. (c \o b)[i + 1] = e
    <3>1. i + 1 \in 1 .. Len(s) + 1 /\ ~ (i + 1 <= i)
      BY <1>0
    <3>2. QED BY <3>1, <1>7
  <2>3. ASSUME NEW j \in i + 2 .. Len(s) + 1 PROVE (c \o b)[j] = s[j - 1]
    <3>1. j \in 1 .. Len(s) + 1 /\ ~ (j <= i) /\ j # i + 1
      BY <1>0
    <3>2. QED BY <3>1, <1>7
  <2>4. QED BY <2>1, <2>2, <2>3
<1>10. QED BY <1>5, <1>6, <1>8, <1>9
----------------------------------------------------------------------------
(* The inductive invariant, in parts.                                      *)

\* What a reader's position says of mu and of what it has in its hands.
ReaderInv ==
    \A r \in Readers :
        /\ mu = r <=> pc[r] = "sweep"
        /\ pc[r] # "idle" => want[r] \in Chunks
        /\ pc[r] \in {"load", "forget", "publish", "wait", "mark"} => mine[r] \in Objs
        /\ pc[r] = "sweep" => chunks[want[r]] = None

\* A *chunk being read belongs to one reader, is not done, is in the map at
\* that reader's index or nowhere, and once failed leaves the map before it
\* is done.
FlightInv ==
    /\ \A r \in InFlight :
          /\ mine[r] \notin done
          /\ \A k \in Chunks : chunks[k] = mine[r] => k = want[r]
          /\ pc[r] = "load" => chunks[want[r]] = mine[r] /\ mine[r] \notin failed
          /\ pc[r] = "publish" /\ mine[r] \in failed => chunks[want[r]] # mine[r]
    /\ \A r, s \in InFlight : mine[r] = mine[s] => r = s

CountInv == loads = Cardinality(InFlight)

CloseInv ==
    /\ closed <=> pc[Closer] # "idle"
    /\ closed => mu = None
    /\ pc[Closer] \in {"clear", "shut", "closed"} => InFlight = {}
    /\ pc[Closer] \in {"shut", "closed"} => Resident = {} /\ ring = <<>>
    /\ ~srcOpen => pc[Closer] = "closed"

\* A chunk somebody can find or waits for has been read, or is being read.
WaitInv ==
    /\ \A k \in Resident : Served(chunks[k])
    /\ \A r \in Readers : pc[r] = "wait" => Served(mine[r])

IInv == /\ TypeOK /\ RingMatchesChunks /\ ReaderInv /\ FlightInv
        /\ ErrorsNotKept /\ CountInv /\ CloseInv /\ WaitInv

\* A reader just opened is empty, so it satisfies the invariant.
LEMMA InitIInv == Init => IInv
<1> SUFFICES ASSUME Init PROVE IInv
  OBVIOUS
<1> USE CacheAssumption
<1>0. InFlight = {} /\ Resident = {}
  BY DEF Init, InFlight, Resident
<1>1. TypeOK
  <2>1. chunks \in [Chunks -> Objs \union {None}] /\ mine \in [Readers -> Objs \union {None}]
        /\ want \in [Readers -> Chunks \union {None}]
    BY DEF Init
  <2>2. /\ ring \in Seq(Chunks) /\ hand \in Nat /\ loads \in Int /\ tries \in Nat
        /\ fails \in 0 .. MaxFails
    BY DEF Init
  <2>3. /\ pc \in [Readers \union {Closer} ->
                 {"idle", "lookup", "claim", "sweep", "load", "forget", "publish",
                  "wait", "mark", "drain", "clear", "shut", "closed"}]
    BY DEF Init
  <2>4. /\ done \subseteq Objs /\ failed \subseteq Objs /\ ref \subseteq Objs
        /\ mu \in Readers \union {None}
    BY DEF Init
  <2>5. Flags
    BY DEF Init, Flags
  <2>6. QED BY <2>1, <2>2, <2>3, <2>4, <2>5 DEF TypeOK
<1>2. RingMatchesChunks
  BY <1>0 DEF Init, RingMatchesChunks
<1>3. ReaderInv
  BY DEF Init, ReaderInv
<1>4. FlightInv /\ ErrorsNotKept
  BY <1>0 DEF FlightInv, ErrorsNotKept
<1>5. CountInv /\ WaitInv
  BY <1>0, FS_EmptySet DEF Init, CountInv, WaitInv
<1>6. CloseInv
  BY <1>0 DEF Init, CloseInv
<1>7. QED BY <1>1, <1>2, <1>3, <1>4, <1>5, <1>6 DEF IInv
----------------------------------------------------------------------------
(* The ring.                                                               *)

\* The hand brought back onto a ring is on it.
LEMMA WrapInRange ==
  ASSUME NEW h \in Nat, NEW n \in Nat
  PROVE  /\ Wrap(h, n) \in Nat
         /\ n = 0 => Wrap(h, n) = 0
         /\ n # 0 => Wrap(h, n) < n
BY DEF Wrap

\* The ring and the map stay matched when an index leaves both.
LEMMA RingDelete ==
  ASSUME TypeOK, RingMatchesChunks,
         NEW i \in 0 .. Len(ring) - 1,
         ring' = DeleteAt0(ring, i),
         chunks' = [chunks EXCEPT ![ring[i + 1]] = None],
         hand' \in Nat,
         IF Len(ring) = 1 THEN hand' = 0 ELSE hand' < Len(ring) - 1
  PROVE  RingMatchesChunks' /\ (ring \in Seq(Chunks))'
<1> DEFINE n == Len(ring)
           D(j) == IF j <= i THEN j ELSE j + 1
<1>0. ring \in Seq(Chunks) /\ n \in Nat /\ n > 0 /\ i \in Nat /\ ring[i + 1] \in Chunks
  BY DEF TypeOK
<1>1. ring' \in Seq(Chunks) /\ Len(ring') = n - 1
      /\ \A j \in 1 .. n - 1 : ring'[j] = ring[D(j)]
  BY <1>0, DeleteAt
<1>2. \A j \in 1 .. n - 1 : D(j) \in 1 .. n /\ D(j) # i + 1
  BY <1>0
<1>3. \A j, k \in 1 .. n - 1 : D(j) = D(k) => j = k
  BY <1>0
<1>4. \A m \in 1 .. n : m # i + 1 => \E j \in 1 .. n - 1 : D(j) = m
  <2> SUFFICES ASSUME NEW m \in 1 .. n, m # i + 1 PROVE \E j \in 1 .. n - 1 : D(j) = m
    OBVIOUS
  <2>1. CASE m <= i
    BY <2>1, <1>0
  <2>2. CASE ~ (m <= i)
    <3>1. m - 1 \in 1 .. n - 1 /\ D(m - 1) = m
      BY <2>2, <1>0
    <3>2. QED BY <3>1
  <2>3. QED BY <2>1, <2>2
<1>5. \A j, k \in 1 .. n : ring[j] = ring[k] => j = k
  BY DEF RingMatchesChunks
<1>6. {ring[j] : j \in 1 .. n} = Resident
  BY DEF RingMatchesChunks
<1> HIDE DEF D
<1>7. \A j, k \in 1 .. Len(ring') : ring'[j] = ring'[k] => j = k
  BY <1>0, <1>1, <1>2, <1>3, <1>5
<1>8. Resident' = Resident \ {ring[i + 1]}
  BY <1>0 DEF Resident, TypeOK
<1>9. {ring'[j] : j \in 1 .. Len(ring')} = Resident \ {ring[i + 1]}
  <2>1. ASSUME NEW j \in 1 .. n - 1 PROVE ring'[j] \in Resident \ {ring[i + 1]}
    <3>1. D(j) \in 1 .. n /\ D(j) # i + 1 /\ i + 1 \in 1 .. n
      BY <1>0, <1>2
    <3>2. ring[D(j)] \in Resident /\ ring[D(j)] # ring[i + 1]
      BY <3>1, <1>5, <1>6
    <3>3. QED BY <3>2, <1>1
  <2>2. ASSUME NEW k \in Resident \ {ring[i + 1]}
        PROVE  \E j \in 1 .. n - 1 : ring'[j] = k
    <3>1. PICK m \in 1 .. n : ring[m] = k
      BY <1>6
    <3>2. m # i + 1
      BY <3>1
    <3>3. PICK j \in 1 .. n - 1 : D(j) = m
      BY <3>2, <1>4
    <3>4. QED BY <3>1, <3>3, <1>1
  <2>3. QED BY <2>1, <2>2, <1>1
<1>10. IF ring' = <<>> THEN hand' = 0 ELSE hand' < Len(ring')
  BY <1>0, <1>1
<1>11. QED BY <1>1, <1>7, <1>8, <1>9, <1>10 DEF RingMatchesChunks

\* They stay matched when a missing index enters both at the hand.
LEMMA RingInsert ==
  ASSUME TypeOK, RingMatchesChunks, None \notin Objs,
         NEW k \in Chunks, chunks[k] = None, NEW o \in Objs,
         ring' = InsertAt0(ring, hand, k),
         chunks' = [chunks EXCEPT ![k] = o],
         hand' = Wrap(hand + 1, Len(ring) + 1)
  PROVE  RingMatchesChunks' /\ (ring \in Seq(Chunks))' /\ (hand \in Nat)'
<1> DEFINE n == Len(ring)
           A(j) == IF j <= hand THEN j ELSE j - 1
<1>0. ring \in Seq(Chunks) /\ n \in Nat /\ hand \in Nat /\ hand \in 0 .. n
  BY DEF TypeOK, RingMatchesChunks
<1>1. ring' \in Seq(Chunks) /\ Len(ring') = n + 1 /\ ring'[hand + 1] = k
      /\ \A j \in 1 .. n + 1 : j # hand + 1 => ring'[j] = ring[A(j)]
  <2>1. /\ ring' \in Seq(Chunks) /\ Len(ring') = n + 1
        /\ \A j \in 1 .. n + 1 :
              ring'[j] = IF j <= hand THEN ring[j]
                         ELSE IF j = hand + 1 THEN k ELSE ring[j - 1]
    <3>1. ring \in Seq(Chunks) /\ hand \in 0 .. Len(ring) /\ k \in Chunks
      BY <1>0
    <3>2. ring' \in Seq(Chunks) /\ Len(ring') = Len(ring) + 1
      BY <3>1, InsertAt
    <3>3. \A j \in 1 .. hand : ring'[j] = ring[j]
      BY <3>1, InsertAt
    <3>4. ring'[hand + 1] = k
      BY <3>1, InsertAt, SMTT(20)
    <3>5. \A j \in hand + 2 .. Len(ring) + 1 : ring'[j] = ring[j - 1]
      BY <3>1, InsertAt
    <3>6. QED BY <1>0, <3>2, <3>3, <3>4, <3>5
  <2>2. hand + 1 \in 1 .. n + 1 /\ ~ (hand + 1 <= hand)
    BY <1>0
  <2>3. QED BY <2>1, <2>2
<1>2. \A j \in 1 .. n + 1 : j # hand + 1 => A(j) \in 1 .. n
  BY <1>0
<1>3. \A j, m \in 1 .. n + 1 : j # hand + 1 /\ m # hand + 1 /\ A(j) = A(m) => j = m
  BY <1>0
<1>4. \A m \in 1 .. n : \E j \in 1 .. n + 1 : j # hand + 1 /\ A(j) = m
  <2> SUFFICES ASSUME NEW m \in 1 .. n
               PROVE  \E j \in 1 .. n + 1 : j # hand + 1 /\ A(j) = m
    OBVIOUS
  <2>1. CASE m <= hand
    BY <2>1, <1>0
  <2>2. CASE ~ (m <= hand)
    <3>1. m + 1 \in 1 .. n + 1 /\ m + 1 # hand + 1 /\ A(m + 1) = m
      BY <2>2, <1>0
    <3>2. QED BY <3>1
  <2>3. QED BY <2>1, <2>2
<1>5. \A j, m \in 1 .. n : ring[j] = ring[m] => j = m
  BY DEF RingMatchesChunks
<1>6. {ring[j] : j \in 1 .. n} = Resident
  BY DEF RingMatchesChunks
<1>6a. k \notin Resident /\ \A j \in 1 .. n : ring[j] # k
  BY <1>6 DEF Resident
<1> HIDE DEF A
<1>7. \A j, m \in 1 .. Len(ring') : ring'[j] = ring'[m] => j = m
  <2> SUFFICES ASSUME NEW j \in 1 .. n + 1, NEW m \in 1 .. n + 1, ring'[j] = ring'[m]
               PROVE  j = m
    BY <1>1
  <2>1. CASE j # hand + 1 /\ m # hand + 1
    BY <2>1, <1>1, <1>2, <1>3, <1>5
  <2>2. CASE j = hand + 1
    <3>1. ring'[m] = k
      BY <2>2, <1>1
    <3>2. m # hand + 1 => ring'[m] # k
      BY <1>1, <1>2, <1>6a
    <3>3. QED BY <2>2, <3>1, <3>2
  <2>2a. CASE m = hand + 1
    <3>1. ring'[j] = k
      BY <2>2a, <1>1
    <3>2. j # hand + 1 => ring'[j] # k
      BY <1>1, <1>2, <1>6a
    <3>3. QED BY <2>2a, <3>1, <3>2
  <2>3. QED BY <2>1, <2>2, <2>2a
<1>8. Resident' = Resident \union {k}
  BY DEF Resident, TypeOK
<1>9. {ring'[j] : j \in 1 .. Len(ring')} = Resident \union {k}
  <2>1. ASSUME NEW j \in 1 .. n + 1 PROVE ring'[j] \in Resident \union {k}
    BY <1>1, <1>2, <1>6
  <2>2. ASSUME NEW x \in Resident PROVE \E j \in 1 .. n + 1 : ring'[j] = x
    <3>1. PICK m \in 1 .. n : ring[m] = x
      BY <1>6
    <3>2. PICK j \in 1 .. n + 1 : j # hand + 1 /\ A(j) = m
      BY <1>4
    <3>3. QED BY <3>1, <3>2, <1>1
  <2>3. hand + 1 \in 1 .. n + 1
    BY <1>0
  <2>4. QED BY <2>1, <2>2, <2>3, <1>1
<1>10. hand' \in Nat /\ hand' < n + 1
  BY <1>0, WrapInRange
<1>11. IF ring' = <<>> THEN hand' = 0 ELSE hand' < Len(ring')
  BY <1>0, <1>1, <1>10
<1>12. QED BY <1>1, <1>7, <1>8, <1>9, <1>10, <1>11 DEF RingMatchesChunks
----------------------------------------------------------------------------
(* Each part of the invariant is kept by every step.                       *)

\* A turn of the hand is a turn on an index of the ring, whose chunk exists.
LEMMA HandOnRing ==
  ASSUME IInv, NEW r \in Readers, Sweeping(r)
  PROVE  /\ hand \in 0 .. Len(ring) - 1 /\ Len(ring) \in Nat \ {0}
         /\ ring[hand + 1] \in Chunks /\ chunks[ring[hand + 1]] \in Objs
<1>1. ring \in Seq(Chunks) /\ Len(ring) \in Nat /\ Len(ring) > 0 /\ hand \in Nat
  BY CacheAssumption DEF IInv, TypeOK, Sweeping
<1>2. hand < Len(ring)
  BY <1>1 DEF IInv, RingMatchesChunks
<1>3. hand + 1 \in 1 .. Len(ring)
  BY <1>1, <1>2
<1>4. ring[hand + 1] \in Resident
  BY <1>3 DEF IInv, RingMatchesChunks
<1>5. QED BY <1>1, <1>2, <1>4 DEF Resident, IInv, TypeOK

\* The ring and the map stay matched, and the ring well-typed.
LEMMA RingStep ==
  ASSUME IInv, [Next]_vars
  PROVE  RingMatchesChunks' /\ (ring \in Seq(Chunks))' /\ (hand \in Nat)'
<1> USE DEF IInv
<1>0. RingMatchesChunks /\ ring \in Seq(Chunks) /\ hand \in Nat
  BY DEF TypeOK
<1>1. ASSUME UNCHANGED cache
      PROVE  RingMatchesChunks' /\ (ring \in Seq(Chunks))' /\ (hand \in Nat)'
  BY <1>0, <1>1 DEF cache, RingMatchesChunks, Resident
<1>2. ASSUME NEW r \in Readers, PassOver(r)
      PROVE  RingMatchesChunks' /\ (ring \in Seq(Chunks))' /\ (hand \in Nat)'
  <2>1. hand + 1 \in Nat /\ Len(ring) \in Nat \ {0}
    BY <1>0, <1>2, HandOnRing DEF PassOver
  <2>2. hand' \in Nat /\ hand' < Len(ring) /\ ring' = ring /\ chunks' = chunks
    BY <1>2, <2>1, WrapInRange DEF PassOver
  <2>3. ring # <<>>
    BY <2>1
  <2>4. QED BY <1>0, <2>2, <2>3 DEF RingMatchesChunks, Resident
<1>3. ASSUME NEW r \in Readers, Evict(r)
      PROVE  RingMatchesChunks' /\ (ring \in Seq(Chunks))' /\ (hand \in Nat)'
  <2>1. hand \in 0 .. Len(ring) - 1 /\ Len(ring) \in Nat \ {0} /\ Len(ring) - 1 \in Nat
    BY <1>3, HandOnRing DEF Evict
  <2>2. hand' \in Nat /\ IF Len(ring) = 1 THEN hand' = 0 ELSE hand' < Len(ring) - 1
    <3>1. hand' = Wrap(hand, Len(ring) - 1) /\ hand \in Nat
      BY <1>0, <1>3 DEF Evict
    <3>2. /\ Wrap(hand, Len(ring) - 1) \in Nat
          /\ Len(ring) - 1 # 0 => Wrap(hand, Len(ring) - 1) < Len(ring) - 1
          /\ Len(ring) - 1 = 0 => Wrap(hand, Len(ring) - 1) = 0
      BY <2>1, <3>1, WrapInRange
    <3>3. QED BY <2>1, <3>1, <3>2
  <2>3. ring' = DeleteAt0(ring, hand) /\ chunks' = [chunks EXCEPT ![ring[hand + 1]] = None]
    BY <1>3 DEF Evict
  <2>4. QED BY <1>0, <2>1, <2>2, <2>3, RingDelete
<1>4. ASSUME NEW r \in Readers, Insert(r)
      PROVE  RingMatchesChunks' /\ (ring \in Seq(Chunks))' /\ (hand \in Nat)'
  <2>1. want[r] \in Chunks /\ chunks[want[r]] = None
    BY <1>4 DEF Insert, ReaderInv
  <2>2. PICK o \in Objs : chunks' = [chunks EXCEPT ![want[r]] = o]
    BY <1>4 DEF Insert
  <2>3. ring' = InsertAt0(ring, hand, want[r]) /\ hand' = Wrap(hand + 1, Len(ring) + 1)
    BY <1>4 DEF Insert
  <2>4. QED BY <1>0, <2>1, <2>2, <2>3, RingInsert, CacheAssumption
<1>5. ASSUME NEW r \in Readers, Forget(r), chunks[want[r]] = mine[r]
      PROVE  RingMatchesChunks' /\ (ring \in Seq(Chunks))' /\ (hand \in Nat)'
  <2> DEFINE i == CHOOSE j \in 0 .. Len(ring) - 1 : ring[j + 1] = want[r]
  <2>1. want[r] \in Resident
    BY <1>5, CacheAssumption DEF Forget, ReaderInv, Resident
  <2>2. PICK m \in 1 .. Len(ring) : ring[m] = want[r]
    BY <2>1 DEF RingMatchesChunks
  <2>3. m - 1 \in 0 .. Len(ring) - 1 /\ ring[(m - 1) + 1] = want[r]
    BY <1>0, <2>2
  <2>4. i \in 0 .. Len(ring) - 1 /\ ring[i + 1] = want[r]
    BY <2>3
  <2>5. /\ ring' = DeleteAt0(ring, i)
        /\ chunks' = [chunks EXCEPT ![ring[i + 1]] = None]
        /\ hand' = IF i < hand THEN hand - 1 ELSE Wrap(hand, Len(ring) - 1)
    BY <1>5, <2>4 DEF Forget
  <2> HIDE DEF i
  <2>6. Len(ring) \in Nat \ {0} /\ Len(ring) - 1 \in Nat /\ hand < Len(ring)
    BY <1>0, <2>4 DEF RingMatchesChunks
  <2>7. hand' \in Nat /\ IF Len(ring) = 1 THEN hand' = 0 ELSE hand' < Len(ring) - 1
    <3>1. CASE i < hand
      <4>1. hand' = hand - 1 /\ i \in Nat
        BY <2>4, <2>5, <3>1
      <4>2. hand \in Nat /\ hand > 0 /\ Len(ring) > 1
        BY <1>0, <2>6, <3>1, <4>1
      <4>3. hand - 1 < Len(ring) - 1
        BY <2>6, <4>2
      <4>4. hand - 1 \in Nat
        BY <4>2
      <4>5. Len(ring) # 1
        <5>1. \A n \in Nat : n > 1 => n # 1
          OBVIOUS
        <5>2. QED BY <2>6, <4>2, <5>1, Zenon
      <4>6. QED BY <4>1, <4>3, <4>4, <4>5
    <3>2. CASE ~ (i < hand)
      <4>1. hand' = Wrap(hand, Len(ring) - 1)
        BY <2>5, <3>2
      <4>2. /\ Wrap(hand, Len(ring) - 1) \in Nat
            /\ Len(ring) - 1 # 0 => Wrap(hand, Len(ring) - 1) < Len(ring) - 1
            /\ Len(ring) - 1 = 0 => Wrap(hand, Len(ring) - 1) = 0
        BY <1>0, <2>6, WrapInRange
      <4>3. QED BY <2>6, <4>1, <4>2
    <3>3. QED BY <3>1, <3>2
  <2>8. QED BY <1>0, <2>4, <2>5, <2>7, RingDelete
<1>6. ASSUME CloseClear
      PROVE  RingMatchesChunks' /\ (ring \in Seq(Chunks))' /\ (hand \in Nat)'
  <2>1. Resident' = {} /\ ring' = <<>> /\ hand' = 0
    BY <1>6 DEF CloseClear, Resident
  <2>2. QED BY <2>1 DEF RingMatchesChunks
<1>7. ASSUME NEW r \in Readers,
             \/ Lookup(r) \/ ClaimRefused(r) \/ ClaimFound(r) \/ ClaimMissing(r)
             \/ LoadOk(r) \/ LoadFails(r) \/ Publish(r) \/ WaitDone(r) \/ Mark(r)
             \/ (Forget(r) /\ chunks[want[r]] # mine[r])
      PROVE  UNCHANGED cache
  BY <1>7 DEF Lookup, ClaimRefused, ClaimFound, ClaimMissing, LoadOk, LoadFails,
              Publish, WaitDone, Mark, Forget
<1>8. ASSUME NEW r \in Readers, NEW k \in Chunks, ReadAt(r, k) PROVE UNCHANGED cache
  BY <1>8 DEF ReadAt
<1>9. ASSUME CloseBegin \/ CloseDrained \/ CloseSource \/ UNCHANGED vars
      PROVE  UNCHANGED cache
  BY <1>9 DEF CloseBegin, CloseDrained, CloseSource, vars
<1>10. QED
  BY <1>1, <1>2, <1>3, <1>4, <1>5, <1>6, <1>7, <1>8, <1>9
  DEF Next, Locked, Free, Closing

\* The types that do not concern the ring.
LEMMA TypeStep ==
  ASSUME IInv, [Next]_vars
  PROVE  TypeOK'
<1> USE CacheAssumption DEF IInv
<1> DEFINE Maps == /\ chunks \in [Chunks -> Objs \union {None}]
                   /\ mine \in [Readers -> Objs \union {None}]
                   /\ want \in [Readers -> Chunks \union {None}]
           Bits == /\ done \subseteq Objs /\ failed \subseteq Objs /\ ref \subseteq Objs
                   /\ mu \in Readers \union {None}
           Control == pc \in [Readers \union {Closer} ->
                       {"idle", "lookup", "claim", "sweep", "load", "forget", "publish",
                        "wait", "mark", "drain", "clear", "shut", "closed"}]
           Numbers == tries \in Nat /\ loads \in Int /\ fails \in 0 .. MaxFails
<1>0. Maps /\ Bits /\ Control /\ Numbers /\ Flags
  BY DEF TypeOK
<1>1. ASSUME NEW r \in Readers, NEW k \in Chunks, ReadAt(r, k)
      PROVE  Maps' /\ Bits' /\ Control' /\ Numbers'
  BY <1>0, <1>1 DEF ReadAt, Goto, cache, bits, held
<1>2. ASSUME NEW r \in Readers,
             Lookup(r) \/ ClaimRefused(r) \/ ClaimFound(r) \/ WaitDone(r) \/ Mark(r)
      PROVE  Maps' /\ Bits' /\ Control' /\ Numbers'
  <2>1. want[r] \in Chunks /\ (pc[r] \in {"wait", "mark"} => mine[r] \in Objs)
    BY <1>0, <1>2 DEF ReaderInv, Lookup, ClaimRefused, ClaimFound, WaitDone, Mark
  <2>2. Maps' /\ Control' /\ UNCHANGED <<mu, tries, loads, fails>>
    BY <1>0, <1>2, <2>1 DEF Lookup, ClaimRefused, ClaimFound, WaitDone, Mark, Goto, Return,
                             cache, bits, held
  <2>3. Bits'
    BY <1>0, <1>2, <2>1 DEF Lookup, ClaimRefused, ClaimFound, WaitDone, Mark, bits
  <2>4. QED BY <1>0, <2>2, <2>3
<1>3. ASSUME NEW r \in Readers, ClaimMissing(r)
      PROVE  Maps' /\ Bits' /\ Control' /\ Numbers'
  <2>1. Len(ring) \in Nat
    BY DEF TypeOK
  <2>2. QED BY <1>0, <1>3, <2>1 DEF ClaimMissing, Goto, cache, bits, held
<1>4. ASSUME NEW r \in Readers, PassOver(r) \/ Evict(r)
      PROVE  Maps' /\ Bits' /\ Control' /\ Numbers'
  <2>1. chunks[ring[hand + 1]] \in Objs /\ ring[hand + 1] \in Chunks /\ tries - 1 \in Nat
    BY <1>0, <1>4, HandOnRing DEF PassOver, Evict, Sweeping
  <2>2. QED BY <1>0, <1>4, <2>1 DEF PassOver, Evict, held, bits
<1>5. ASSUME NEW r \in Readers, Insert(r)
      PROVE  Maps' /\ Bits' /\ Control' /\ Numbers'
  <2>1. PICK o \in Objs : /\ chunks' = [chunks EXCEPT ![want[r]] = o]
                          /\ mine' = [mine EXCEPT ![r] = o]
                          /\ done' = done \ {o} /\ failed' = failed \ {o} /\ ref' = ref \ {o}
    BY <1>5 DEF Insert
  <2>2. Maps'
    <3>1. want' = want
      BY <1>5 DEF Insert
    <3>2. QED BY <1>0, <2>1, <3>1
  <2>3. Bits' /\ Control'
    <3>1. mu' = None /\ pc' = [pc EXCEPT ![r] = "load"]
      BY <1>5 DEF Insert, Goto
    <3>2. QED BY <1>0, <2>1, <3>1
  <2>4. Numbers'
    BY <1>0, <1>5 DEF Insert
  <2>5. QED BY <2>2, <2>3, <2>4
<1>6. ASSUME NEW r \in Readers, LoadOk(r) \/ LoadFails(r) \/ Publish(r)
      PROVE  Maps' /\ Bits' /\ Control' /\ Numbers'
  <2>1. mine[r] \in Objs
    BY <1>6 DEF ReaderInv, LoadOk, LoadFails, Publish
  <2>2. Maps' /\ Control'
    BY <1>0, <1>6 DEF LoadOk, LoadFails, Publish, Goto, Return, cache, held
  <2>3. Bits' /\ UNCHANGED tries
    BY <1>0, <1>6, <2>1 DEF LoadOk, LoadFails, Publish, bits
  <2>4. (loads \in Int)'
    BY <1>0, <1>6 DEF LoadOk, LoadFails, Publish
  <2>5. (fails \in 0 .. MaxFails)'
    BY <1>0, <1>6 DEF LoadOk, LoadFails, Publish
  <2>6. QED BY <1>0, <2>2, <2>3, <2>4, <2>5
<1>7. ASSUME NEW r \in Readers, Forget(r)
      PROVE  Maps' /\ Bits' /\ Control' /\ Numbers'
  BY <1>0, <1>7 DEF Forget, Goto, cache, bits, held
<1>8. ASSUME CloseBegin \/ Closing
      PROVE  Maps' /\ Bits' /\ Control' /\ Numbers'
  BY <1>0, <1>8 DEF CloseBegin, Closing, CloseDrained, CloseClear, CloseSource, Goto,
                    cache, bits, held
<1>9. ASSUME UNCHANGED vars
      PROVE  Maps' /\ Bits' /\ Control' /\ Numbers'
  BY <1>0, <1>9 DEF vars, cache, bits, held
<1>10. Flags'
  <2>1. ASSUME NEW r \in Readers, NEW k \in Chunks, ReadAt(r, k) PROVE Flags'
    BY <1>0, <2>1 DEF ReadAt, Flags, state
  <2>2. ASSUME NEW r \in Readers, Locked(r) \/ Free(r) \/ LoadFails(r) PROVE Flags'
    BY <1>0, <2>2 DEF Locked, Free, Lookup, ClaimRefused, ClaimFound, ClaimMissing, PassOver,
       Evict, Insert, LoadOk, LoadFails, Forget, Publish, WaitDone, Mark, Flags, state
  <2>3. ASSUME CloseBegin \/ Closing \/ UNCHANGED vars PROVE Flags'
    BY <1>0, <2>3 DEF CloseBegin, Closing, CloseDrained, CloseClear, CloseSource, vars,
       Flags, state
  <2>4. QED BY <2>1, <2>2, <2>3 DEF Next
<1>11. Maps' /\ Bits' /\ Control' /\ Numbers'
  BY <1>1, <1>2, <1>3, <1>4, <1>5, <1>6, <1>7, <1>8, <1>9 DEF Next, Locked, Free
<1>12. (ring \in Seq(Chunks))' /\ (hand \in Nat)'
  BY RingStep
<1>13. QED BY <1>10, <1>11, <1>12 DEF TypeOK

\* Every reader keeps what it needs at its position.
LEMMA ReaderStep ==
  ASSUME IInv, [Next]_vars
  PROVE  ReaderInv'
<1> USE CacheAssumption DEF IInv, ReaderInv
<1>0. TypeOK /\ TypeOK'
  BY TypeStep
<1>1. ASSUME NEW r \in Readers, NEW k \in Chunks, ReadAt(r, k) PROVE ReaderInv'
  BY <1>0, <1>1 DEF ReadAt, Goto, TypeOK, cache
<1>2. ASSUME NEW r \in Readers, Lookup(r) \/ ClaimFound(r) PROVE ReaderInv'
  BY <1>0, <1>2 DEF Lookup, ClaimFound, Goto, TypeOK, cache
<1>3. ASSUME NEW r \in Readers, ClaimRefused(r) \/ Publish(r) \/ WaitDone(r) \/ Mark(r)
      PROVE  ReaderInv'
  BY <1>0, <1>3 DEF ClaimRefused, Publish, WaitDone, Mark, Goto, Return, TypeOK, cache, held
<1>4. ASSUME NEW r \in Readers, ClaimMissing(r) PROVE ReaderInv'
  BY <1>0, <1>4 DEF ClaimMissing, Goto, TypeOK, cache, held
<1>5. ASSUME NEW r \in Readers, PassOver(r) \/ Evict(r) PROVE ReaderInv'
  BY <1>0, <1>5 DEF PassOver, Evict, TypeOK, held
<1>6. ASSUME NEW r \in Readers, Insert(r) PROVE ReaderInv'
  <2>1. PICK o \in Objs : /\ chunks' = [chunks EXCEPT ![want[r]] = o]
                          /\ mine' = [mine EXCEPT ![r] = o]
    BY <1>6 DEF Insert
  <2>2. QED BY <1>0, <1>6, <2>1 DEF Insert, Goto, TypeOK
<1>7. ASSUME NEW r \in Readers, LoadOk(r) \/ LoadFails(r) PROVE ReaderInv'
  BY <1>0, <1>7 DEF LoadOk, LoadFails, Goto, TypeOK, cache, held
<1>8. ASSUME NEW r \in Readers, Forget(r) PROVE ReaderInv'
  BY <1>0, <1>8 DEF Forget, Goto, TypeOK, cache, held
<1>9. ASSUME CloseBegin \/ Closing PROVE ReaderInv'
  BY <1>0, <1>9 DEF CloseBegin, Closing, CloseDrained, CloseClear, CloseSource, Goto,
                    TypeOK, cache, held
<1>10. ASSUME UNCHANGED vars PROVE ReaderInv'
  BY <1>10 DEF vars, cache, held
<1>11. QED
  BY <1>1, <1>2, <1>3, <1>4, <1>5, <1>6, <1>7, <1>8, <1>9, <1>10 DEF Next, Locked, Free

\* Every *chunk being read stays its reader's own, and no error is kept.
LEMMA FlightStep ==
  ASSUME IInv, [Next]_vars
  PROVE  FlightInv' /\ ErrorsNotKept'
<1> USE CacheAssumption DEF IInv
<1>0. TypeOK /\ TypeOK' /\ ReaderInv /\ FlightInv /\ ErrorsNotKept
  BY TypeStep
<1> USE DEF InFlight, Resident, FlightInv, ErrorsNotKept
<1>1. ASSUME NEW r \in Readers, NEW k \in Chunks, ReadAt(r, k)
      PROVE  FlightInv' /\ ErrorsNotKept'
  BY <1>0, <1>1 DEF ReadAt, Goto, TypeOK, cache, bits
<1>2. ASSUME NEW r \in Readers, Lookup(r) \/ ClaimFound(r) \/ ClaimMissing(r)
      PROVE  FlightInv' /\ ErrorsNotKept'
  BY <1>0, <1>2 DEF Lookup, ClaimFound, ClaimMissing, Goto, TypeOK, cache, bits, held
<1>3. ASSUME NEW r \in Readers, ClaimRefused(r) \/ WaitDone(r) \/ Mark(r)
      PROVE  FlightInv' /\ ErrorsNotKept'
  BY <1>0, <1>3 DEF ClaimRefused, WaitDone, Mark, Goto, Return, TypeOK, cache, bits, held
<1>4. ASSUME NEW r \in Readers, PassOver(r) PROVE FlightInv' /\ ErrorsNotKept'
  BY <1>0, <1>4 DEF PassOver, held
<1>5. ASSUME NEW r \in Readers, Evict(r) PROVE FlightInv' /\ ErrorsNotKept'
  <2>1. ring[hand + 1] \in Chunks
    BY <1>5, HandOnRing DEF Evict
  <2>2. QED BY <1>0, <1>5, <2>1 DEF Evict, TypeOK, ReaderInv, bits, held
<1>6. ASSUME NEW r \in Readers, Insert(r) PROVE FlightInv' /\ ErrorsNotKept'
  <2>1. PICK o \in Objs : /\ Unused(o)
                          /\ chunks' = [chunks EXCEPT ![want[r]] = o]
                          /\ mine' = [mine EXCEPT ![r] = o]
                          /\ done' = done \ {o} /\ failed' = failed \ {o}
    BY <1>6 DEF Insert
  <2>2. want[r] \in Chunks /\ chunks[want[r]] = None /\ r \notin InFlight
    BY <1>6 DEF Insert, ReaderInv
  <2>3. QED BY <1>0, <1>6, <2>1, <2>2 DEF Insert, Goto, TypeOK, Unused, ReaderInv
<1>7. ASSUME NEW r \in Readers, LoadOk(r) \/ LoadFails(r)
      PROVE  FlightInv' /\ ErrorsNotKept'
  BY <1>0, <1>7 DEF LoadOk, LoadFails, Goto, TypeOK, cache, bits, held
<1>8. ASSUME NEW r \in Readers, Forget(r) PROVE FlightInv' /\ ErrorsNotKept'
  BY <1>0, <1>8 DEF Forget, Goto, TypeOK, ReaderInv, cache, bits, held
<1>9. ASSUME NEW r \in Readers, Publish(r) PROVE FlightInv' /\ ErrorsNotKept'
  BY <1>0, <1>9 DEF Publish, Goto, Return, TypeOK, cache
<1>10. ASSUME CloseBegin \/ Closing PROVE FlightInv' /\ ErrorsNotKept'
  BY <1>0, <1>10 DEF CloseBegin, Closing, CloseDrained, CloseClear, CloseSource, Goto,
                    TypeOK, CloseInv, cache, bits, held
<1>11. ASSUME UNCHANGED vars PROVE FlightInv' /\ ErrorsNotKept'
  BY <1>0, <1>11 DEF vars, cache, bits, held
<1>12. QED
  BY <1>1, <1>2, <1>3, <1>4, <1>5, <1>6, <1>7, <1>8, <1>9, <1>10, <1>11
  DEF Next, Locked, Free

\* loads counts the reads in flight.
LEMMA CountStep ==
  ASSUME IInv, [Next]_vars
  PROVE  CountInv'
<1> USE CacheAssumption DEF IInv, CountInv
<1>0. TypeOK /\ IsFiniteSet(InFlight) /\ Cardinality(InFlight) \in Nat
  BY FS_Subset, FS_CardinalityType DEF InFlight
<1>1. ASSUME NEW r \in Readers, Insert(r) PROVE CountInv'
  <2>1. InFlight' = InFlight \union {r} /\ r \notin InFlight
    BY <1>0, <1>1 DEF Insert, Goto, InFlight, TypeOK
  <2>2. Cardinality(InFlight') = Cardinality(InFlight) + 1
    BY <1>0, <2>1, FS_AddElement
  <2>3. QED BY <1>0, <1>1, <2>2 DEF Insert
<1>2. ASSUME NEW r \in Readers, Publish(r) PROVE CountInv'
  <2>1. InFlight' = InFlight \ {r} /\ r \in InFlight
    BY <1>0, <1>2 DEF Publish, Goto, Return, InFlight, TypeOK
  <2>2. Cardinality(InFlight') = Cardinality(InFlight) - 1
    BY <1>0, <2>1, FS_RemoveElement
  <2>3. QED BY <1>0, <1>2, <2>2 DEF Publish
<1>3. ASSUME NEW r \in Readers, NEW k \in Chunks, ReadAt(r, k)
      PROVE  InFlight' = InFlight /\ loads' = loads
  BY <1>0, <1>3 DEF ReadAt, Goto, InFlight, TypeOK
<1>4. ASSUME NEW r \in Readers,
             \/ Lookup(r) \/ ClaimRefused(r) \/ ClaimFound(r) \/ ClaimMissing(r)
             \/ PassOver(r) \/ Evict(r) \/ LoadOk(r) \/ LoadFails(r) \/ Forget(r)
             \/ WaitDone(r) \/ Mark(r)
      PROVE  InFlight' = InFlight /\ loads' = loads
  BY <1>0, <1>4 DEF Lookup, ClaimRefused, ClaimFound, ClaimMissing, PassOver, Evict,
       LoadOk, LoadFails, Forget, WaitDone, Mark, Goto, Return, InFlight, TypeOK
<1>5. ASSUME CloseBegin \/ Closing PROVE InFlight' = InFlight /\ loads' = loads
  BY <1>0, <1>5 DEF CloseBegin, Closing, CloseDrained, CloseClear, CloseSource, Goto,
                    InFlight, TypeOK
<1>6. ASSUME UNCHANGED vars PROVE InFlight' = InFlight /\ loads' = loads
  BY <1>6 DEF vars, InFlight
<1>7. QED
  BY <1>1, <1>2, <1>3, <1>4, <1>5, <1>6 DEF Next, Locked, Free

\* Close goes through its stages in order, and nothing is claimed behind it.
LEMMA CloseStep ==
  ASSUME IInv, [Next]_vars
  PROVE  CloseInv'
<1> USE CacheAssumption DEF IInv, CloseInv
<1>0. TypeOK /\ ReaderInv
  OBVIOUS
<1> USE DEF InFlight, Resident
<1>1. ASSUME NEW r \in Readers, NEW k \in Chunks, ReadAt(r, k) PROVE CloseInv'
  BY <1>0, <1>1 DEF ReadAt, Goto, TypeOK, cache, state
<1>2. ASSUME NEW r \in Readers,
             Lookup(r) \/ ClaimRefused(r) \/ ClaimFound(r) \/ ClaimMissing(r)
      PROVE CloseInv'
  BY <1>0, <1>2 DEF Lookup, ClaimRefused, ClaimFound, ClaimMissing, Goto, Return, TypeOK,
                    cache, state
<1>3. ASSUME NEW r \in Readers, PassOver(r) \/ Evict(r) \/ Insert(r) PROVE CloseInv'
  <2>1. ~ closed /\ pc[Closer] = "idle"
    BY <1>0, <1>3 DEF ReaderInv, PassOver, Evict, Insert, Sweeping
  <2>2. UNCHANGED state /\ pc'[Closer] = pc[Closer]
    BY <1>0, <1>3 DEF PassOver, Evict, Insert, Goto, TypeOK
  <2>3. QED BY <2>1, <2>2 DEF state
<1>4. ASSUME NEW r \in Readers, LoadOk(r) \/ LoadFails(r) \/ Forget(r) \/ Publish(r)
      PROVE CloseInv'
  <2>1. r \in InFlight
    BY <1>4 DEF LoadOk, LoadFails, Forget, Publish
  <2>2. /\ UNCHANGED <<state, mu>> /\ pc'[Closer] = pc[Closer]
        /\ pc[Closer] \notin {"clear", "shut", "closed"}
    BY <1>0, <1>4, <2>1 DEF LoadOk, LoadFails, Forget, Publish, Goto, Return, TypeOK
  <2>3. QED BY <2>2 DEF state
<1>5. ASSUME NEW r \in Readers, WaitDone(r) \/ Mark(r) PROVE CloseInv'
  BY <1>0, <1>5 DEF WaitDone, Mark, Goto, Return, TypeOK, cache, state
<1>6. ASSUME CloseBegin PROVE CloseInv'
  BY <1>0, <1>6 DEF CloseBegin, Goto, TypeOK, cache
<1>7. ASSUME CloseDrained PROVE CloseInv'
  <2>1. InFlight = {}
    <3>1. IsFiniteSet(InFlight) /\ Cardinality(InFlight) = 0
      BY <1>7, FS_Subset DEF CloseDrained, CountInv
    <3>2. QED BY <3>1, FS_EmptySet
  <2>2. QED BY <1>0, <1>7, <2>1 DEF CloseDrained, Goto, TypeOK, cache, state
<1>8. ASSUME CloseClear \/ CloseSource PROVE CloseInv'
  BY <1>0, <1>8 DEF CloseClear, CloseSource, Goto, TypeOK, cache, state
<1>9. ASSUME UNCHANGED vars PROVE CloseInv'
  BY <1>9 DEF vars, cache, state
<1>10. QED
  BY <1>1, <1>2, <1>3, <1>4, <1>5, <1>6, <1>7, <1>8, <1>9 DEF Next, Locked, Free, Closing

\* A chunk is not lost sight of before it is read.
LEMMA WaitStep ==
  ASSUME IInv, [Next]_vars
  PROVE  WaitInv'
<1> USE CacheAssumption DEF IInv, WaitInv
<1>0. TypeOK /\ ReaderInv /\ FlightInv
  OBVIOUS
<1> USE DEF InFlight, Resident, Served
<1>1. ASSUME NEW r \in Readers, NEW k \in Chunks, ReadAt(r, k) PROVE WaitInv'
  BY <1>0, <1>1 DEF ReadAt, Goto, TypeOK, cache, bits
<1>2. ASSUME NEW r \in Readers, Lookup(r) \/ ClaimFound(r) \/ ClaimMissing(r)
      PROVE  WaitInv'
  BY <1>0, <1>2, SMTT(20) DEF Lookup, ClaimFound, ClaimMissing, Goto, ReaderInv, TypeOK, cache,
                    bits, held
<1>3. ASSUME NEW r \in Readers, ClaimRefused(r) \/ WaitDone(r) \/ Mark(r)
      PROVE  WaitInv'
  BY <1>0, <1>3 DEF ClaimRefused, WaitDone, Mark, Goto, Return, TypeOK, cache, bits, held
<1>4. ASSUME NEW r \in Readers, PassOver(r) PROVE WaitInv'
  BY <1>0, <1>4 DEF PassOver, held
<1>5. ASSUME NEW r \in Readers, Evict(r) PROVE WaitInv'
  <2>1. ring[hand + 1] \in Chunks
    BY <1>5, HandOnRing DEF Evict
  <2>2. QED BY <1>0, <1>5, <2>1 DEF Evict, TypeOK, bits, held
<1>6. ASSUME NEW r \in Readers, Insert(r) PROVE WaitInv'
  <2>1. PICK o \in Objs : /\ Unused(o)
                          /\ chunks' = [chunks EXCEPT ![want[r]] = o]
                          /\ mine' = [mine EXCEPT ![r] = o]
                          /\ done' = done \ {o} /\ failed' = failed \ {o}
    BY <1>6 DEF Insert
  <2>2. want[r] \in Chunks /\ r \notin InFlight
    BY <1>6 DEF Insert, ReaderInv
  <2>3. QED BY <1>0, <1>6, <2>1, <2>2 DEF Insert, Goto, TypeOK, Unused
<1>7. ASSUME NEW r \in Readers, LoadOk(r) \/ LoadFails(r) PROVE WaitInv'
  <2>1. /\ UNCHANGED <<chunks, done, want, mine>> /\ pc[r] = "load"
        /\ pc' = [pc EXCEPT ![r] = "publish"] \/ pc' = [pc EXCEPT ![r] = "forget"]
    BY <1>7 DEF LoadOk, LoadFails, Goto, cache, bits, held
  <2>2. /\ pc'[r] \in {"publish", "forget"}
        /\ \A q \in Readers : q # r => pc'[q] = pc[q]
    BY <1>0, <2>1 DEF TypeOK
  <2>3. QED BY <1>0, <2>1, <2>2
<1>8. ASSUME NEW r \in Readers, Forget(r) PROVE WaitInv'
  BY <1>0, <1>8 DEF Forget, Goto, TypeOK, ReaderInv, cache, bits, held
<1>9. ASSUME NEW r \in Readers, Publish(r) PROVE WaitInv'
  BY <1>0, <1>9, SMTT(20) DEF Publish, Goto, Return, TypeOK, cache
<1>10. ASSUME CloseBegin \/ Closing PROVE WaitInv'
  BY <1>0, <1>10 DEF CloseBegin, Closing, CloseDrained, CloseClear, CloseSource, Goto,
                    TypeOK, cache, bits, held
<1>11. ASSUME UNCHANGED vars PROVE WaitInv'
  BY <1>0, <1>11 DEF vars, cache, bits, held
<1>12. QED
  BY <1>1, <1>2, <1>3, <1>4, <1>5, <1>6, <1>7, <1>8, <1>9, <1>10, <1>11
  DEF Next, Locked, Free

\* The inductive invariant holds in every reachable state.
THEOREM Invariant == Spec => []IInv
<1>1. IInv /\ [Next]_vars => IInv'
  BY TypeStep, RingStep, ReaderStep, FlightStep, CountStep, CloseStep, WaitStep DEF IInv
<1>2. QED BY <1>1, InitIInv, PTL DEF Spec
----------------------------------------------------------------------------
(* What follows from it.                                                   *)

\* Every variable keeps its type.
THEOREM TypeCorrect == Spec => []TypeOK
<1>1. IInv => TypeOK
  BY DEF IInv
<1>2. QED BY <1>1, Invariant, PTL

\* The ring and the map name the same chunks, each once, with the hand on one
\* of them, in every interleaving of claims, evictions, failed reads and Close.
THEOREM RingCorrect == Spec => []RingMatchesChunks
<1>1. IInv => RingMatchesChunks
  BY DEF IInv
<1>2. QED BY <1>1, Invariant, PTL

\* At most one backend read of a chunk runs, and its chunk stays findable.
THEOREM SingleRead == Spec => []ReadOnce
<1>1. IInv => ReadOnce
  BY DEF IInv, FlightInv, InFlight, Loading, ReadOnce
<1>2. QED BY <1>1, Invariant, PTL

\* No reader can find a finished chunk that holds an error.
THEOREM NoErrorKept == Spec => []ErrorsNotKept
<1>1. IInv => ErrorsNotKept
  BY DEF IInv
<1>2. QED BY <1>1, Invariant, PTL

\* No backend read runs against a file that Close has closed.
THEOREM ClosedAfterReads == Spec => []ReadsWhileOpen
<1>1. IInv => ReadsWhileOpen
  BY DEF IInv, CloseInv, InFlight, Loading, ReadsWhileOpen
<1>2. QED BY <1>1, Invariant, PTL

\* Whoever waits, for a chunk or for the reads to drain, has somebody at work
\* who will let them go on.
THEOREM WaitsAreServed == Spec => []NobodyWaitsInVain
<1>1. IInv => NobodyWaitsInVain
  BY CacheAssumption
  DEF IInv, WaitInv, CountInv, ReaderInv, TypeOK, NobodyWaitsInVain
<1>2. QED BY <1>1, Invariant, PTL

\* A closed reader holds no chunk.
THEOREM ClosedIsEmpty == Spec => []NothingAfterClose
<1>1. IInv => NothingAfterClose
  BY DEF IInv, CloseInv, NothingAfterClose
<1>2. QED BY <1>1, Invariant, PTL
=============================================================================
