------------------------- MODULE Scheduler_proofs -------------------------
(***************************************************************************)
(* Theorems about the observation scheduler, for any blocks, any problems  *)
(* (visibility, scores of either sign, priorities, cadences), any          *)
(* transition models, whose costs may depend on the time, any window, any  *)
(* number of passes and any tenure of the tabu list.                       *)
(***************************************************************************)
EXTENDS Scheduler, SequenceTheorems, FiniteSetTheorems, WellFoundedInduction, TLAPS

---------------------------------------------------------------------------
(* Sorting: what InOrder returns when R is a strict total order on S.      *)

Sorts(R, S) ==
    /\ \A x \in S : <<x, x>> \notin R
    /\ \A x, y \in S : x # y => <<x, y>> \in R \/ <<y, x>> \in R
    /\ \A x, y, z \in S : <<x, y>> \in R /\ <<y, z>> \in R => <<x, z>> \in R

Before(x, R, S) == {y \in S : <<y, x>> \in R}
Rank(x, R, S) == Cardinality(Before(x, R, S))

\* An element comes before another when fewer are before it.
LEMMA RankRises ==
    ASSUME NEW S, IsFiniteSet(S), NEW R, Sorts(R, S)
    PROVE  /\ \A x \in S : Rank(x, R, S) \in 0 .. Cardinality(S) - 1
           /\ \A x, y \in S : <<x, y>> \in R => Rank(x, R, S) < Rank(y, R, S)
           /\ \A x, y \in S : Rank(x, R, S) = Rank(y, R, S) => x = y
<1>1. \A x \in S : IsFiniteSet(Before(x, R, S))
    BY FS_Subset DEF Before
<1>2. ASSUME NEW x \in S
      PROVE  Rank(x, R, S) \in 0 .. Cardinality(S) - 1
    <2>1. Before(x, R, S) \in SUBSET S /\ Before(x, R, S) # S
        BY DEF Before, Sorts
    <2>2. Cardinality(Before(x, R, S)) <= Cardinality(S)
          /\ Cardinality(Before(x, R, S)) # Cardinality(S)
        BY <2>1, FS_Subset
    <2>3. Cardinality(S) \in Nat /\ Cardinality(Before(x, R, S)) \in Nat
        BY <1>1, FS_CardinalityType
    <2>4. QED
        BY <2>2, <2>3 DEF Rank
<1>3. ASSUME NEW x \in S, NEW y \in S, <<x, y>> \in R
      PROVE  Rank(x, R, S) < Rank(y, R, S)
    <2>1. Before(x, R, S) \in SUBSET Before(y, R, S)
        BY <1>3 DEF Before, Sorts
    <2>2. x \in Before(y, R, S) /\ x \notin Before(x, R, S)
        BY <1>3 DEF Before, Sorts
    <2>3. IsFiniteSet(Before(x, R, S)) /\ IsFiniteSet(Before(y, R, S))
        BY <1>1
    <2>4. /\ Cardinality(Before(x, R, S)) <= Cardinality(Before(y, R, S))
          /\ Cardinality(Before(x, R, S)) # Cardinality(Before(y, R, S))
        BY <2>1, <2>2, <2>3, FS_Subset
    <2>5. Cardinality(Before(x, R, S)) \in Nat /\ Cardinality(Before(y, R, S)) \in Nat
        BY <2>3, FS_CardinalityType
    <2>6. QED
        BY <2>4, <2>5 DEF Rank
<1>4. ASSUME NEW x \in S, NEW y \in S, Rank(x, R, S) = Rank(y, R, S), x # y
      PROVE  FALSE
    <2>1. Cardinality(S) \in Nat
        BY FS_CardinalityType
    <2>2. Rank(x, R, S) \in Int /\ Rank(y, R, S) \in Int
        BY <1>2, <2>1
    <2>3. <<x, y>> \in R \/ <<y, x>> \in R
        BY <1>4 DEF Sorts
    <2>4. QED
        BY <1>3, <1>4, <2>2, <2>3
<1>5. QED
    BY <1>2, <1>3, <1>4

\* The sequence lists every element of S once, each before those that R puts
\* after it.
LEMMA InOrderSorts ==
    ASSUME NEW S, IsFiniteSet(S), NEW R, Sorts(R, S)
    PROVE  /\ InOrder(S, R) \in Bijection(1 .. Cardinality(S), S)
           /\ \A k \in 1 .. Cardinality(S) : Rank(InOrder(S, R)[k], R, S) = k - 1
<1> DEFINE n == Cardinality(S)
           place == [x \in S |-> Rank(x, R, S)]
<1>1. n \in Nat
    BY FS_CardinalityType
<1>2. place \in Injection(S, 0 .. n - 1)
    BY <1>1, RankRises DEF Injection, IsInjective
<1>3. IsFiniteSet(0 .. n - 1) /\ Cardinality(0 .. n - 1) = n
    BY <1>1, FS_Interval
<1>4. place \in Surjection(S, 0 .. n - 1)
    BY <1>2, <1>3, FS_Injection
<1>5. \A k \in 1 .. n : \E x \in S : Rank(x, R, S) = k - 1
    <2>1. TAKE k \in 1 .. n
    <2>2. k - 1 \in 0 .. n - 1
        BY <1>1
    <2>3. QED
        BY <1>4, <2>2 DEF Surjection
<1>6. ASSUME NEW k \in 1 .. n
      PROVE  InOrder(S, R)[k] \in S /\ Rank(InOrder(S, R)[k], R, S) = k - 1
    <2>1. InOrder(S, R)[k] = CHOOSE x \in S : Rank(x, R, S) = k - 1
        BY DEF InOrder, Rank, Before
    <2>2. QED
        BY <1>5, <2>1
<1>7. InOrder(S, R) \in [1 .. n -> S]
    BY <1>6 DEF InOrder
<1>8. InOrder(S, R) \in Injection(1 .. n, S)
    BY <1>1, <1>6, <1>7 DEF Injection, IsInjective
<1>9. ASSUME NEW x \in S
      PROVE  \E k \in 1 .. n : InOrder(S, R)[k] = x
    <2> DEFINE k == Rank(x, R, S) + 1
    <2>1. k \in 1 .. n /\ Rank(x, R, S) = k - 1
        BY <1>1, RankRises
    <2>2. Rank(InOrder(S, R)[k], R, S) = Rank(x, R, S) /\ InOrder(S, R)[k] \in S
        BY <1>6, <2>1
    <2>3. QED
        BY <2>1, <2>2, RankRises
<1>10. QED
    BY <1>6, <1>7, <1>8, <1>9 DEF Bijection, Surjection

\* A sequence that lists S and never goes back is the one InOrder returns.
LEMMA InOrderIs ==
    ASSUME NEW n \in Nat, NEW S, NEW t \in [1 .. n -> S], NEW R, Sorts(R, S),
           \A x \in S : \E i \in 1 .. n : t[i] = x,
           \A i, j \in 1 .. n : i < j => <<t[i], t[j]>> \in R
    PROVE  InOrder(S, R) = t
<1>1. ASSUME NEW i \in 1 .. n, NEW j \in 1 .. n, t[i] = t[j]
      PROVE  i = j
    <2>1. t[i] \in S /\ <<t[i], t[i]>> \notin R
        BY DEF Sorts
    <2>2. ~(i < j) /\ ~(j < i)
        BY <1>1, <2>1
    <2>3. QED
        BY <2>2
<1>2. t \in Bijection(1 .. n, S)
    BY <1>1 DEF Bijection, Injection, IsInjective, Surjection
<1>3. IsFiniteSet(1 .. n) /\ Cardinality(1 .. n) = n
    BY FS_Interval
<1>4. IsFiniteSet(S) /\ Cardinality(S) = n
    BY <1>2, <1>3, FS_Bijection DEF ExistsBijection
<1>5. ASSUME NEW k \in 1 .. n
      PROVE  Rank(t[k], R, S) = k - 1
    <2> DEFINE T == Before(t[k], R, S)
               h == [i \in 1 .. k - 1 |-> t[i]]
    <2>1. ASSUME NEW i \in 1 .. n
          PROVE  <<t[i], t[k]>> \in R <=> i < k
        <3>1. t[i] \in S /\ t[k] \in S /\ <<t[i], t[i]>> \notin R
            BY DEF Sorts
        <3>2. i < k \/ i = k \/ k < i
            OBVIOUS
        <3>3. k < i => <<t[i], t[k]>> \notin R
            BY <3>1 DEF Sorts
        <3>4. QED
            BY <3>1, <3>2, <3>3
    <2>2. h \in [1 .. k - 1 -> T]
        BY <2>1 DEF Before
    <2>3. \A y \in T : \E i \in 1 .. k - 1 : h[i] = y
        <3>1. TAKE y \in T
        <3>2. PICK i \in 1 .. n : t[i] = y
            BY <3>1 DEF Before
        <3>3. i < k
            BY <2>1, <3>1, <3>2 DEF Before
        <3>4. QED
            BY <3>2, <3>3
    <2>4. h \in Bijection(1 .. k - 1, T)
        BY <1>1, <2>2, <2>3 DEF Bijection, Injection, IsInjective, Surjection
    <2>5. IsFiniteSet(1 .. k - 1) /\ Cardinality(1 .. k - 1) = k - 1
        BY FS_Interval
    <2>6. QED
        BY <2>4, <2>5, FS_Bijection DEF Rank, ExistsBijection
<1>6. ASSUME NEW k \in 1 .. n
      PROVE  InOrder(S, R)[k] = t[k]
    <2>1. /\ InOrder(S, R) \in [1 .. n -> S]
          /\ Rank(InOrder(S, R)[k], R, S) = k - 1
        BY <1>4, InOrderSorts DEF Bijection, Surjection
    <2>2. QED
        BY <1>4, <1>5, <2>1, RankRises
<1>7. InOrder(S, R) \in [1 .. n -> S]
    BY <1>4, InOrderSorts DEF Bijection, Surjection
<1>8. QED
    BY <1>6, <1>7

---------------------------------------------------------------------------
(* Lemmas about what the model is built from.                              *)

\* A set of natural numbers that is not empty has a least element.
LEMMA LeastNat ==
    ASSUME NEW T \in SUBSET Nat, T # {}
    PROVE  \E x \in T : \A y \in T : x <= y
<1>1. PICK x \in T : \A y \in T : <<y, x>> \notin OpToRel(<, Nat)
    BY WFMin, NatLessThanWellFounded
<1>2. \A y \in T : ~(y < x)
    BY <1>1 DEF OpToRel
<1>3. QED
    BY <1>2

\* ByPriority lists the places of a sequence in another order.
LEMMA ByPriorityPermutes ==
    ASSUME NEW s \in Seq(Blocks), problem.priority \in [Blocks -> Int]
    PROVE  \E h \in Bijection(1 .. Len(s), 1 .. Len(s)) :
              ByPriority(s) = [k \in 1 .. Len(s) |-> s[h[k]]]
<1> DEFINE D == 1 .. Len(s)
           R == {ij \in D \X D :
                   LET p == problem.priority[s[ij[1]]]
                       q == problem.priority[s[ij[2]]]
                   IN  p > q \/ (p = q /\ ij[1] < ij[2])}
<1>1. DOMAIN s = D /\ Len(s) \in Nat /\ \A i \in D : s[i] \in Blocks
    BY LenProperties
<1>2. \A i \in D : problem.priority[s[i]] \in Int
    BY <1>1
<1>3. \A i, j \in D :
         <<i, j>> \in R <=> \/ problem.priority[s[i]] > problem.priority[s[j]]
                            \/ /\ problem.priority[s[i]] = problem.priority[s[j]]
                               /\ i < j
    OBVIOUS
<1>4. Sorts(R, D)
    <2> HIDE DEF R
    <2> SUFFICES ASSUME NEW x \in D, NEW y \in D, NEW z \in D
                 PROVE  /\ <<x, x>> \notin R
                        /\ x # y => <<x, y>> \in R \/ <<y, x>> \in R
                        /\ <<x, y>> \in R /\ <<y, z>> \in R => <<x, z>> \in R
        BY DEF Sorts
    <2> DEFINE p == problem.priority[s[x]]
               q == problem.priority[s[y]]
               r == problem.priority[s[z]]
    <2>1. p \in Int /\ q \in Int /\ r \in Int
        BY <1>2
    <2>2. /\ <<x, x>> \notin R
          /\ <<x, y>> \in R <=> p > q \/ (p = q /\ x < y)
          /\ <<y, x>> \in R <=> q > p \/ (q = p /\ y < x)
          /\ <<y, z>> \in R <=> q > r \/ (q = r /\ y < z)
          /\ <<x, z>> \in R <=> p > r \/ (p = r /\ x < z)
        BY <1>3, <2>1
    <2> HIDE DEF p, q, r
    <2>3. QED
        BY <2>1, <2>2
<1>5. IsFiniteSet(D) /\ Cardinality(D) = Len(s)
    <2> HIDE DEF R
    <2>1. 1 \in Int /\ Len(s) \in Int
        BY <1>1
    <2>2. IsFiniteSet(1 .. Len(s))
          /\ Cardinality(1 .. Len(s)) = IF 1 > Len(s) THEN 0 ELSE Len(s) - 1 + 1
        BY <2>1, FS_Interval
    <2>3. QED
        BY <1>1, <2>2
<1>6. InOrder(D, R) \in Bijection(D, D)
    BY <1>4, <1>5, InOrderSorts
<1>7. ByPriority(s) = [k \in D |-> s[InOrder(D, R)[k]]]
    BY <1>1 DEF ByPriority
<1>8. QED
    BY <1>6, <1>7

\* ... so it is a sequence of blocks of the same length.
LEMMA ByPrioritySeq ==
    ASSUME NEW s \in Seq(Blocks), problem.priority \in [Blocks -> Int]
    PROVE  ByPriority(s) \in Seq(Blocks) /\ Len(ByPriority(s)) = Len(s)
<1>1. PICK h \in Bijection(1 .. Len(s), 1 .. Len(s)) :
              ByPriority(s) = [k \in 1 .. Len(s) |-> s[h[k]]]
    BY ByPriorityPermutes
<1>2. Len(s) \in Nat /\ \A i \in 1 .. Len(s) : s[i] \in Blocks
    BY LenProperties
<1>3. h \in [1 .. Len(s) -> 1 .. Len(s)]
    BY DEF Bijection, Surjection
<1>4. ByPriority(s) \in [1 .. Len(s) -> Blocks]
    BY <1>1, <1>2, <1>3
<1>5. QED
    BY <1>2, <1>4

\* A sequence without its k-th element, and with another in its place.
LEMMA Dropped ==
    ASSUME NEW S, NEW s \in Seq(S), NEW k \in 1 .. Len(s)
    PROVE  LET t == SubSeq(s, 1, k - 1) \o <<>> \o SubSeq(s, k + 1, Len(s))
           IN  /\ t \in Seq(S)
               /\ Len(t) = Len(s) - 1
               /\ \A i \in 1 .. Len(s) - 1 : t[i] = s[IF i < k THEN i ELSE i + 1]
<1> DEFINE u == SubSeq(s, 1, k - 1)
           v == SubSeq(s, k + 1, Len(s))
<1>1. Len(s) \in Nat /\ \A i \in 1 .. Len(s) : s[i] \in S
    BY LenProperties
<1>2. u \in Seq(S) /\ Len(u) = k - 1 /\ \A i \in 1 .. k - 1 : u[i] = s[i]
    BY <1>1, SubSeqProperties
<1>3. /\ v \in Seq(S)
      /\ Len(v) = Len(s) - k
      /\ \A i \in 1 .. Len(s) - k : v[i] = s[k + i]
    BY <1>1, SubSeqProperties
<1> HIDE DEF u, v
<1>4. u \o <<>> = u
    BY <1>2, ConcatEmptySeq
<1>5. /\ u \o v \in Seq(S)
      /\ Len(u \o v) = Len(u) + Len(v)
      /\ \A i \in 1 .. Len(u) + Len(v) :
            (u \o v)[i] = IF i <= Len(u) THEN u[i] ELSE v[i - Len(u)]
    BY <1>2, <1>3, ConcatProperties
<1>6. ASSUME NEW i \in 1 .. Len(s) - 1
      PROVE  (u \o v)[i] = s[IF i < k THEN i ELSE i + 1]
    BY <1>1, <1>2, <1>3, <1>5
<1>7. Len(u \o v) = Len(s) - 1
    BY <1>1, <1>2, <1>3, <1>5
<1>8. QED
    BY <1>4, <1>5, <1>6, <1>7 DEF u, v

With(s, k, x) == SubSeq(s, 1, k - 1) \o <<x>> \o SubSeq(s, k + 1, Len(s))

IsWith(t, S, s, k, x) ==
    /\ t \in Seq(S)
    /\ Len(t) = Len(s)
    /\ \A i \in 1 .. Len(s) : t[i] = IF i = k THEN x ELSE s[i]

LEMMA Replaced ==
    ASSUME NEW S, NEW s \in Seq(S), NEW k \in 1 .. Len(s), NEW x \in S
    PROVE  IsWith(With(s, k, x), S, s, k, x)
<1> DEFINE u == SubSeq(s, 1, k - 1)
           w == u \o <<x>>
           v == SubSeq(s, k + 1, Len(s))
<1>1. Len(s) \in Nat /\ \A i \in 1 .. Len(s) : s[i] \in S
    BY LenProperties
<1>2. u \in Seq(S) /\ Len(u) = k - 1 /\ \A i \in 1 .. k - 1 : u[i] = s[i]
    BY <1>1, SubSeqProperties
<1>3. /\ v \in Seq(S)
      /\ Len(v) = Len(s) - k
      /\ \A i \in 1 .. Len(s) - k : v[i] = s[k + i]
    BY <1>1, SubSeqProperties
<1> HIDE DEF u, v
<1>4. <<x>> \in Seq(S) /\ Len(<<x>>) = 1 /\ <<x>>[1] = x
    OBVIOUS
<1>5. /\ w \in Seq(S)
      /\ Len(w) = k
      /\ \A i \in 1 .. k : w[i] = IF i = k THEN x ELSE s[i]
    <2>1. /\ u \o <<x>> \in Seq(S)
          /\ Len(u \o <<x>>) = Len(u) + 1
          /\ \A i \in 1 .. Len(u) + 1 :
                (u \o <<x>>)[i] = IF i <= Len(u) THEN u[i] ELSE <<x>>[i - Len(u)]
        BY <1>2, <1>4, ConcatProperties
    <2>2. ASSUME NEW i \in 1 .. k
          PROVE  (u \o <<x>>)[i] = IF i = k THEN x ELSE s[i]
        BY <1>1, <1>2, <1>4, <2>1
    <2>3. QED
        BY <1>2, <2>1, <2>2
<1> HIDE DEF w
<1>6. /\ w \o v \in Seq(S)
      /\ Len(w \o v) = Len(w) + Len(v)
      /\ \A i \in 1 .. Len(w) + Len(v) :
            (w \o v)[i] = IF i <= Len(w) THEN w[i] ELSE v[i - Len(w)]
    BY <1>3, <1>5, ConcatProperties
<1>7. ASSUME NEW i \in 1 .. Len(s)
      PROVE  (w \o v)[i] = IF i = k THEN x ELSE s[i]
    BY <1>1, <1>3, <1>5, <1>6
<1>8. Len(w \o v) = Len(s)
    BY <1>1, <1>3, <1>5, <1>6
<1>9. QED
    BY <1>6, <1>7, <1>8 DEF u, v, w, With, IsWith

---------------------------------------------------------------------------
(* Types.                                                                  *)

Entries == [block : Blocks, available : Nat, rem : Nat]
Slots == [block : Blocks, start : Nat, end : Nat, setup : Nat, score : Int]

TypeOK ==
    /\ ProblemOK(problem)
    /\ stage \in {"greedy", "swap", "insert", "done"}
    /\ currentTime \in Nat
    /\ unassigned \in Seq(Entries)
    /\ blocks \in Seq(Slots)
    /\ unscheduled \in Seq(Blocks)
    /\ remaining \in Seq(Blocks)
    /\ pass \in Nat
    /\ idlePasses \in Nat
    /\ improved \in BOOLEAN
    /\ at \in Nat \ {0}

LEMMA SlotTypes ==
    ASSUME NEW X \in Slots
    PROVE  /\ X.block \in Blocks /\ X.start \in Nat /\ X.end \in Nat
           /\ X.setup \in Nat /\ X.score \in Int
BY DEF Slots

LEMMA ProblemTypes ==
    ASSUME ProblemOK(problem)
    PROVE  /\ problem.step \in Nat \ {0}
           /\ problem.priority \in [Blocks -> Int]
           /\ \A b \in Blocks : /\ problem.duration[b] \in Nat \ {0}
                                /\ problem.repeats[b] \in Nat
                                /\ problem.minInterval[b] \in Nat
                                /\ \A t \in 0 .. Horizon : problem.score[b][t] \in Int
           /\ \A a \in Blocks \cup {None}, b \in Blocks, t \in Nat, u \in Nat :
                Overhead(a, b, t, u) \in Nat
<1>1. \A b \in Blocks : problem.score[b] \in [0 .. Horizon -> Int]
    BY DEF ProblemOK
<1>2. ASSUME NEW a \in Blocks \cup {None}, NEW b \in Blocks, NEW t \in Nat, NEW u \in Nat
      PROVE  Overhead(a, b, t, u) \in Nat
    <2> DEFINE cost == SlewCost[problem.transition]
    <2>1. cost \in [Blocks \cup {None} ->
                      [Blocks -> [0 .. Horizon -> [0 .. Horizon -> Nat]]]]
        BY SlewAssumption DEF ProblemOK
    <2>2. InWindow(t) \in 0 .. Horizon /\ InWindow(u) \in 0 .. Horizon
        BY BoundsAssumption DEF InWindow
    <2>3. Overhead(a, b, t, u) = cost[a][b][InWindow(t)][InWindow(u)]
        BY DEF Overhead
    <2> HIDE DEF cost
    <2>4. cost[a] \in [Blocks -> [0 .. Horizon -> [0 .. Horizon -> Nat]]]
        BY <2>1
    <2>5. cost[a][b] \in [0 .. Horizon -> [0 .. Horizon -> Nat]]
        BY <2>4
    <2>6. QED
        BY <2>2, <2>3, <2>5
<1>3. QED
    BY <1>1, <1>2 DEF ProblemOK

\* A slew begun between two instants is one as Feasible asks for it.
LEMMA SlewCounts ==
    ASSUME ProblemOK(problem), NEW from \in Blocks \cup {None}, NEW to \in Blocks,
           NEW leave \in Nat, NEW arrive \in Nat
    PROVE  \A lo \in Nat, hi \in Nat :
              lo <= leave /\ leave <= hi =>
                IsSlew(Overhead(from, to, leave, arrive), from, to, lo, hi)
<1>1. TAKE lo \in Nat, hi \in Nat
<1>2. HAVE lo <= leave /\ leave <= hi
<1>3. leave \in lo .. hi
    BY <1>2
<1>4. InWindow(arrive) \in 0 .. Horizon
    BY BoundsAssumption DEF InWindow
<1>5. InWindow(InWindow(arrive)) = InWindow(arrive)
    BY BoundsAssumption DEF InWindow
<1>6. Overhead(from, to, leave, InWindow(arrive)) = Overhead(from, to, leave, arrive)
    BY <1>5 DEF Overhead
<1>7. QED
    BY <1>3, <1>4, <1>6 DEF IsSlew

LEMMA BlocksTypes ==
    ASSUME TypeOK
    PROVE  /\ Len(blocks) \in Nat
           /\ DOMAIN blocks = 1 .. Len(blocks)
           /\ \A i \in 1 .. Len(blocks) : /\ blocks[i] \in Slots
                                          /\ blocks[i].block \in Blocks
                                          /\ blocks[i].start \in Nat
                                          /\ blocks[i].end \in Nat
                                          /\ blocks[i].setup \in Nat
                                          /\ blocks[i].score \in Int
           /\ \A i \in 1 .. Len(blocks) + 1 : /\ PrevBlock(i) \in Blocks \cup {None}
                                              /\ PrevEnd(i) \in Nat
<1>1. blocks \in Seq(Slots)
    BY DEF TypeOK
<1>2. /\ Len(blocks) \in Nat
      /\ DOMAIN blocks = 1 .. Len(blocks)
      /\ \A i \in 1 .. Len(blocks) : blocks[i] \in Slots
    BY <1>1, LenProperties
<1>3. \A i \in 1 .. Len(blocks) : /\ blocks[i] \in Slots
                                  /\ blocks[i].block \in Blocks
                                  /\ blocks[i].start \in Nat
                                  /\ blocks[i].end \in Nat
                                  /\ blocks[i].setup \in Nat
                                  /\ blocks[i].score \in Int
    BY <1>2 DEF Slots
<1>4. ASSUME NEW i \in 1 .. Len(blocks) + 1
      PROVE  PrevBlock(i) \in Blocks \cup {None} /\ PrevEnd(i) \in Nat
    <2>1. i # 1 => i - 1 \in 1 .. Len(blocks)
        BY <1>2
    <2>2. QED
        BY <1>3, <2>1 DEF PrevBlock, PrevEnd
<1>5. QED
    BY <1>2, <1>3, <1>4

LEMMA EntriesTypes ==
    ASSUME unassigned \in Seq(Entries)
    PROVE  /\ Len(unassigned) \in Nat
           /\ DOMAIN unassigned = 1 .. Len(unassigned)
           /\ \A k \in 1 .. Len(unassigned) : /\ unassigned[k] \in Entries
                                              /\ unassigned[k].block \in Blocks
                                              /\ unassigned[k].available \in Nat
                                              /\ unassigned[k].rem \in Nat
<1>1. /\ Len(unassigned) \in Nat
      /\ DOMAIN unassigned = 1 .. Len(unassigned)
      /\ \A k \in 1 .. Len(unassigned) : unassigned[k] \in Entries
    BY LenProperties
<1>2. QED
    BY <1>1 DEF Entries

\* The slew to what follows, if anything does.
LEMMA NextSetupTypes ==
    ASSUME TypeOK, NEW b \in Blocks, NEW end \in Nat, NEW next
    PROVE  /\ NextSetup(b, end, next) \in Nat
           /\ next \in 1 .. Len(blocks) =>
                NextSetup(b, end, next)
                  = Overhead(b, blocks[next].block, end, blocks[next].start)
<1>1. ProblemOK(problem) /\ DOMAIN blocks = 1 .. Len(blocks)
    BY BlocksTypes DEF TypeOK
<1>2. CASE next \in 1 .. Len(blocks)
    <2>1. blocks[next].block \in Blocks /\ blocks[next].start \in Nat
        BY <1>2, BlocksTypes
    <2>2. Overhead(b, blocks[next].block, end, blocks[next].start) \in Nat
        BY <1>1, <2>1, ProblemTypes
    <2>3. QED
        BY <1>1, <1>2, <2>2 DEF NextSetup
<1>3. CASE next \notin 1 .. Len(blocks)
    BY <1>1, <1>3 DEF NextSetup
<1>4. QED
    BY <1>2, <1>3

\* A placement that ends in the window can be put in the schedule.
LEMMA PlacementTypes ==
    ASSUME ProblemOK(problem), NEW b \in Blocks, NEW start \in Nat,
           NEW setup \in Nat, start + problem.duration[b] <= Horizon
    PROVE  /\ Placement(b, start, setup) \in Slots
           /\ Placement(b, start, setup).block = b
           /\ Placement(b, start, setup).start = start
           /\ Placement(b, start, setup).end = start + problem.duration[b]
           /\ Placement(b, start, setup).setup = setup
           /\ Placement(b, start, setup).score = problem.score[b][start]
<1>1. problem.duration[b] \in Nat
    BY ProblemTypes
<1>2. problem.score[b][start] \in Int
    BY <1>1, ProblemTypes, BoundsAssumption
<1>3. QED
    BY <1>1, <1>2 DEF Placement, Slots

---------------------------------------------------------------------------
(* The schedule can be carried out. Besides Feasible, its blocks are known *)
(* to lie apart in time, whichever two are taken, and as long as they      *)
(* last; the greedy search places the next one after them all.             *)

Timed ==
    /\ \A i \in DOMAIN blocks :
          /\ blocks[i].end = blocks[i].start + problem.duration[blocks[i].block]
          /\ blocks[i].score = problem.score[blocks[i].block][blocks[i].start]
          /\ stage = "greedy" => blocks[i].end <= currentTime
    /\ \A i, j \in DOMAIN blocks : i < j => blocks[i].end <= blocks[j].start

Sound == TypeOK /\ Timed /\ Feasible

\* The list the greedy search begins with is the given one, in some order.
LEMMA FirstList ==
    ASSUME Init
    PROVE  /\ ProblemOK(problem)
           /\ Len(problem.order) \in Nat
           /\ \A i \in 1 .. Len(problem.order) : problem.order[i] \in Blocks
           /\ DOMAIN problem.order = 1 .. Len(problem.order)
           /\ \E h \in Bijection(1 .. Len(problem.order), 1 .. Len(problem.order)) :
                 unassigned = [k \in 1 .. Len(problem.order) |->
                                 [block |-> problem.order[h[k]], available |-> 0,
                                  rem |-> problem.repeats[problem.order[h[k]]]]]
<1> DEFINE D == 1 .. Len(problem.order)
           list == IF problem.base = "greedy"
                   THEN problem.order ELSE ByPriority(problem.order)
<1>1. ProblemOK(problem)
    BY DEF Init
<1>2. problem.order \in Seq(Blocks) /\ problem.priority \in [Blocks -> Int]
    BY <1>1 DEF ProblemOK
<1>3. /\ Len(problem.order) \in Nat
      /\ DOMAIN problem.order = D
      /\ \A i \in D : problem.order[i] \in Blocks
    BY <1>2, LenProperties
<1>4. \E h \in Bijection(D, D) : list = [k \in D |-> problem.order[h[k]]]
    <2>1. CASE problem.base = "greedy"
        <3> DEFINE h == [k \in D |-> k]
        <3>1. h \in Bijection(D, D)
            BY DEF Bijection, Injection, IsInjective, Surjection
        <3>2. problem.order = [k \in D |-> problem.order[h[k]]]
            BY <1>2, <1>3, LenProperties
        <3>3. QED
            BY <2>1, <3>1, <3>2
    <2>2. CASE problem.base # "greedy"
        BY <1>2, <2>2, ByPriorityPermutes
    <2>3. QED
        BY <2>1, <2>2
<1>5. PICK h \in Bijection(D, D) : list = [k \in D |-> problem.order[h[k]]]
    BY <1>4
<1>6. unassigned = [k \in DOMAIN list |->
                      [block |-> list[k], available |-> 0,
                       rem |-> problem.repeats[list[k]]]]
    BY DEF Init
<1>7. DOMAIN list = D /\ \A k \in D : list[k] = problem.order[h[k]]
    BY <1>5
<1> HIDE DEF list
<1>8. unassigned = [k \in D |->
                      [block |-> problem.order[h[k]], available |-> 0,
                       rem |-> problem.repeats[problem.order[h[k]]]]]
    BY <1>6, <1>7
<1>9. QED
    BY <1>1, <1>3, <1>8

LEMMA InitSound ==
    ASSUME Init
    PROVE  Sound
<1> DEFINE D == 1 .. Len(problem.order)
<1>1. PICK h \in Bijection(D, D) :
         unassigned = [k \in D |->
                         [block |-> problem.order[h[k]], available |-> 0,
                          rem |-> problem.repeats[problem.order[h[k]]]]]
    BY FirstList
<1>2. h \in [D -> D]
    BY DEF Bijection, Surjection
<1>3. \A k \in D : unassigned[k] \in Entries
    BY <1>1, <1>2, FirstList, ProblemTypes DEF Entries
<1>4. unassigned \in [D -> Entries]
    BY <1>1, <1>3
<1>5. unassigned \in Seq(Entries)
    BY <1>4, FirstList
<1>6. /\ stage = "greedy" /\ currentTime = 0 /\ blocks = <<>> /\ unscheduled = <<>>
      /\ remaining = <<>> /\ pass = 0 /\ idlePasses = 0 /\ improved = FALSE /\ at = 1
    BY DEF Init
<1>7. TypeOK
    <2>1. <<>> \in Seq(Slots) /\ <<>> \in Seq(Blocks)
        OBVIOUS
    <2>2. ProblemOK(problem)
        BY DEF Init
    <2>3. improved \in BOOLEAN
        BY <1>6, Zenon
    <2>4. currentTime \in Nat /\ pass \in Nat /\ idlePasses \in Nat /\ at \in Nat \ {0}
        BY <1>6
    <2>5. QED
        BY <1>5, <1>6, <2>1, <2>2, <2>3, <2>4 DEF TypeOK
<1>8. Timed /\ Feasible
    BY <1>6 DEF Timed, Feasible
<1>9. QED
    BY <1>7, <1>8 DEF Sound

\* The slew to the next block begins now.
LEMMA GreedySetupTypes ==
    ASSUME ProblemOK(problem), currentTime \in Nat, NEW b \in Blocks,
           PrevBlock(Len(blocks) + 1) \in Blocks \cup {None}
    PROVE  /\ GreedySetup(b) \in Nat
           /\ \A lo \in Nat, hi \in Nat :
                lo <= currentTime /\ currentTime <= hi =>
                  IsSlew(GreedySetup(b), PrevBlock(Len(blocks) + 1), b, lo, hi)
<1> DEFINE from == PrevBlock(Len(blocks) + 1)
           guess == Overhead(from, b, currentTime, currentTime)
<1>1. guess \in Nat
    BY ProblemTypes
<1>2. currentTime + guess \in Nat
    BY <1>1
<1>3. GreedySetup(b) = Overhead(from, b, currentTime, currentTime + guess)
    BY DEF GreedySetup
<1> HIDE DEF from, guess
<1>4. Overhead(from, b, currentTime, currentTime + guess) \in Nat
    BY <1>2, ProblemTypes DEF from
<1>5. \A lo \in Nat, hi \in Nat :
         lo <= currentTime /\ currentTime <= hi =>
           IsSlew(Overhead(from, b, currentTime, currentTime + guess), from, b, lo, hi)
    BY <1>2, SlewCounts DEF from
<1>6. QED
    BY <1>3, <1>4, <1>5 DEF from

\* What a placement adds to the end of the schedule.
LEMMA GreedyPlaceEffect ==
    ASSUME Sound, GreedyPlace
    PROVE  \E k \in 1 .. Len(unassigned) :
              LET item == unassigned[k]
                  start == GreedyStart(item.block)
                  n == Len(blocks)
              IN  /\ item \in Entries
                  /\ CanPlace(item)
                  /\ blocks' \in Seq(Slots)
                  /\ Len(blocks') = n + 1
                  /\ \A i \in 1 .. n : blocks'[i] = blocks[i]
                  /\ blocks'[n + 1] = Placement(item.block, start,
                                             GreedySetup(item.block))
                  /\ blocks'[n + 1] \in Slots
                  /\ currentTime' = blocks'[n + 1].end
                  /\ unassigned' = SubSeq(unassigned, 1, k - 1)
                                     \o Again(item, blocks'[n + 1].end)
                                     \o SubSeq(unassigned, k + 1, Len(unassigned))
                  /\ UNCHANGED <<problem, stage, unscheduled, searchVars>>
<1>1. TypeOK
    BY DEF Sound
<1>2. unassigned \in Seq(Entries) /\ blocks \in Seq(Slots) /\ ProblemOK(problem)
      /\ currentTime \in Nat
    BY <1>1 DEF TypeOK
<1>3. DOMAIN unassigned = 1 .. Len(unassigned)
      /\ \A k \in 1 .. Len(unassigned) : unassigned[k] \in Entries
    BY <1>2, LenProperties
<1>4. PICK k \in DOMAIN unassigned :
         LET item == unassigned[k]
             placed == Placement(item.block, GreedyStart(item.block),
                                 GreedySetup(item.block))
         IN  /\ CanPlace(item)
             /\ blocks' = Append(blocks, placed)
             /\ currentTime' = placed.end
             /\ unassigned' = SubSeq(unassigned, 1, k - 1)
                                \o Again(item, placed.end)
                                \o SubSeq(unassigned, k + 1, Len(unassigned))
    BY DEF GreedyPlace
<1> DEFINE n == Len(blocks)
           item == unassigned[k]
           over == GreedySetup(item.block)
           placed == Placement(item.block, GreedyStart(item.block), over)
<1>5. item \in Entries /\ item.block \in Blocks
    BY <1>3 DEF Entries
<1>6. n \in Nat /\ PrevBlock(n + 1) \in Blocks \cup {None}
    BY <1>1, BlocksTypes
<1>7. over \in Nat
    BY <1>2, <1>5, <1>6, GreedySetupTypes
<1>8. GreedyStart(item.block) \in Nat
    BY <1>2, <1>7 DEF GreedyStart
<1>9. GreedyStart(item.block) + problem.duration[item.block] <= Horizon
    BY <1>4 DEF CanPlace
<1>10. placed \in Slots
    BY <1>2, <1>5, <1>7, <1>8, <1>9, PlacementTypes
<1> HIDE DEF placed
<1>11. /\ Append(blocks, placed) \in Seq(Slots)
       /\ Len(Append(blocks, placed)) = n + 1
       /\ \A i \in 1 .. n : Append(blocks, placed)[i] = blocks[i]
       /\ Append(blocks, placed)[n + 1] = placed
    BY <1>2, <1>10, AppendProperties
<1>12. /\ blocks' = Append(blocks, placed)
       /\ currentTime' = placed.end
       /\ unassigned' = SubSeq(unassigned, 1, k - 1)
                          \o Again(item, placed.end)
                          \o SubSeq(unassigned, k + 1, Len(unassigned))
    BY <1>4 DEF placed
<1>13. UNCHANGED <<problem, stage, unscheduled, searchVars>>
    BY DEF GreedyPlace
<1>14. QED
    BY <1>3, <1>4, <1>5, <1>10, <1>11, <1>12, <1>13 DEF placed

LEMMA GreedyPlaceSound ==
    ASSUME Sound, GreedyPlace
    PROVE  Sound'
<1> DEFINE n == Len(blocks)
           N == n + 1
<1>1. TypeOK /\ Timed /\ Feasible
    BY DEF Sound
<1>2. PICK k \in 1 .. Len(unassigned) :
         LET item == unassigned[k]
             start == GreedyStart(item.block)
         IN  /\ item \in Entries
             /\ CanPlace(item)
             /\ blocks' \in Seq(Slots)
             /\ Len(blocks') = N
             /\ \A i \in 1 .. n : blocks'[i] = blocks[i]
             /\ blocks'[N] = Placement(item.block, start, GreedySetup(item.block))
             /\ blocks'[N] \in Slots
             /\ currentTime' = blocks'[N].end
             /\ unassigned' = SubSeq(unassigned, 1, k - 1)
                                \o Again(item, blocks'[N].end)
                                \o SubSeq(unassigned, k + 1, Len(unassigned))
             /\ UNCHANGED <<problem, stage, unscheduled, searchVars>>
    BY GreedyPlaceEffect
<1> DEFINE item == unassigned[k]
           b == item.block
           start == GreedyStart(b)
<1>3. UNCHANGED <<problem, stage, unscheduled, remaining, pass, idlePasses, improved, at>>
    BY <1>2 DEF searchVars
<1>4. item \in Entries /\ b \in Blocks /\ CanPlace(item)
    BY <1>2 DEF Entries
<1>5. /\ n \in Nat /\ DOMAIN blocks = 1 .. n
      /\ PrevBlock(N) \in Blocks \cup {None}
      /\ PrevEnd(N) \in Nat
      /\ \A i \in 1 .. n : /\ blocks[i].block \in Blocks /\ blocks[i].start \in Nat
                           /\ blocks[i].end \in Nat /\ blocks[i].setup \in Nat
    BY <1>1, BlocksTypes
<1>6. ProblemOK(problem) /\ currentTime \in Nat /\ unassigned \in Seq(Entries)
    BY <1>1 DEF TypeOK
<1>7. /\ problem.duration[b] \in Nat \ {0} /\ problem.repeats[b] \in Nat
      /\ problem.minInterval[b] \in Nat /\ GreedySetup(b) \in Nat
      /\ \A lo \in Nat, hi \in Nat :
            lo <= currentTime /\ currentTime <= hi =>
              IsSlew(GreedySetup(b), PrevBlock(N), b, lo, hi)
    BY <1>4, <1>5, <1>6, ProblemTypes, GreedySetupTypes
<1>8. /\ start = currentTime + GreedySetup(b)
      /\ start \in Nat
      /\ start + problem.duration[b] <= Horizon
      /\ Observable(b, start)
    BY <1>4, <1>6, <1>7 DEF GreedyStart, CanPlace
<1>9. /\ blocks'[N].block = b
      /\ blocks'[N].start = start
      /\ blocks'[N].end = start + problem.duration[b]
      /\ blocks'[N].setup = GreedySetup(b)
      /\ blocks'[N].score = problem.score[b][start]
    <2>1. blocks'[N] = Placement(b, start, GreedySetup(b))
        BY <1>2
    <2> HIDE DEF N, b, start
    <2>2. QED
        BY <1>4, <1>6, <1>7, <1>8, <2>1, PlacementTypes
<1>10. blocks'[N].end \in Nat /\ currentTime' = blocks'[N].end
    BY SMTT(20), <1>2, <1>7, <1>8, <1>9
<1>11. unassigned' \in Seq(Entries)
    <2> DEFINE again == [item EXCEPT !.rem = @ - 1,
                           !.available = blocks'[N].end + problem.minInterval[b]]
    <2>1. CASE item.rem = 0
        BY <1>2, <1>6, <2>1, Dropped DEF Again
    <2>2. CASE item.rem # 0
        <3>1. again \in Entries
            <4>1. item.rem - 1 \in Nat
                BY <1>4, <2>2 DEF Entries
            <4>2. blocks'[N].end + problem.minInterval[b] \in Nat
                BY <1>7, <1>10
            <4> HIDE DEF item, b, N
            <4>3. QED
                BY <1>4, <4>1, <4>2 DEF Entries
        <3>2. Again(item, blocks'[N].end) = <<again>>
            BY <2>2 DEF Again
        <3> HIDE DEF again
        <3>3. unassigned' = With(unassigned, k, again)
            BY <1>2, <3>2 DEF With
        <3>4. QED
            BY <1>6, <3>1, <3>3, Replaced DEF IsWith
    <2>3. QED
        BY <2>1, <2>2
<1>12. TypeOK'
    BY <1>1, <1>2, <1>3, <1>10, <1>11 DEF TypeOK
<1>13. /\ Len(blocks') = N
       /\ DOMAIN blocks' = 1 .. N
       /\ \A i \in 1 .. n : blocks'[i] = blocks[i]
    BY <1>2, <1>5, LenProperties
<1>14. /\ \A i \in 1 .. n :
             /\ blocks[i].end = blocks[i].start + problem.duration[blocks[i].block]
             /\ blocks[i].score = problem.score[blocks[i].block][blocks[i].start]
             /\ blocks[i].end <= currentTime
       /\ \A i, j \in 1 .. n : i < j => blocks[i].end <= blocks[j].start
    BY <1>1, <1>5 DEF Timed, GreedyPlace, Searching
<1> DEFINE last == blocks'[N]
<1> HIDE DEF n, item, b, start, last
<1>15. N \in Nat /\ \A i \in 1 .. N : i = N \/ i \in 1 .. n
    BY <1>5
<1>16. Timed'
    <2>1. ASSUME NEW i \in 1 .. N
          PROVE  /\ blocks'[i].end = blocks'[i].start + problem.duration[blocks'[i].block]
                 /\ blocks'[i].score = problem.score[blocks'[i].block][blocks'[i].start]
                 /\ blocks'[i].end <= currentTime'
        <3>1. CASE i = N
            BY <1>9, <1>10, <3>1
        <3>2. CASE i \in 1 .. n
            <4>1. currentTime <= currentTime' /\ currentTime' \in Nat
                BY <1>6, <1>7, <1>8, <1>9, <1>10
            <4>2. blocks[i].end <= currentTime'
                BY <1>5, <1>6, <1>14, <3>2, <4>1
            <4>3. QED
                BY <1>13, <1>14, <3>2, <4>2
        <3>3. QED
            BY <1>15, <3>1, <3>2
    <2>2. ASSUME NEW i \in 1 .. N, NEW j \in 1 .. N, i < j
          PROVE  blocks'[i].end <= blocks'[j].start
        <3>1. i \in 1 .. n /\ blocks'[i] = blocks[i]
            BY <1>5, <1>13, <2>2
        <3>2. CASE j = N
            <4>1. currentTime <= start
                BY <1>6, <1>7, <1>8
            <4>2. blocks[i].end <= start
                BY <1>5, <1>6, <1>8, <1>14, <3>1, <4>1
            <4>3. QED
                BY <1>9, <3>1, <3>2, <4>2
        <3>3. CASE j \in 1 .. n
            BY <1>13, <1>14, <2>2, <3>1, <3>3
        <3>4. QED
            BY <1>15, <3>2, <3>3
    <2>3. QED
        BY <1>3, <1>13, <2>1, <2>2 DEF Timed
<1>17. PrevEnd(N) <= currentTime
    BY <1>5, <1>6, <1>14 DEF PrevEnd, n
<1>18. \A i \in 1 .. N : PrevBlock(i)' = PrevBlock(i) /\ PrevEnd(i)' = PrevEnd(i)
    <2>1. TAKE i \in 1 .. N
    <2>2. i # 1 => blocks'[i - 1] = blocks[i - 1]
        BY <1>5, <1>13
    <2>3. QED
        BY <2>2 DEF PrevBlock, PrevEnd
<1>19. Feasible'
    <2>1. ASSUME NEW i \in 1 .. N
          PROVE  /\ blocks'[i].end <= Horizon
                 /\ Observable(blocks'[i].block, blocks'[i].start)
                 /\ IsSlew(blocks'[i].setup, PrevBlock(i), blocks'[i].block,
                                               PrevEnd(i), blocks'[i].start)
                 /\ blocks'[i].start >= PrevEnd(i) + blocks'[i].setup
        <3>1. CASE i = N
            <4>1. start >= PrevEnd(N) + GreedySetup(b)
                BY <1>5, <1>6, <1>7, <1>8, <1>17
            <4>2. currentTime <= start
                BY <1>6, <1>7, <1>8
            <4>3. IsSlew(GreedySetup(b), PrevBlock(N), b, PrevEnd(N), start)
                BY <1>5, <1>7, <1>8, <1>17, <4>2
            <4>4. QED
                BY <1>8, <1>9, <3>1, <4>1, <4>3
        <3>2. CASE i \in 1 .. n
            <4>1. /\ blocks[i].end <= Horizon
                  /\ Observable(blocks[i].block, blocks[i].start)
                  /\ IsSlew(blocks[i].setup, PrevBlock(i), blocks[i].block,
                                               PrevEnd(i), blocks[i].start)
                  /\ blocks[i].start >= PrevEnd(i) + blocks[i].setup
                BY <1>1, <1>5, <3>2 DEF Feasible
            <4>2. QED
                BY <1>13, <3>2, <4>1
        <3>3. QED
            BY <1>15, <3>1, <3>2
    <2>2. ASSUME NEW i \in 1 .. N
          PROVE  /\ blocks'[i].end <= Horizon
                 /\ Observable(blocks'[i].block, blocks'[i].start)
                 /\ IsSlew(blocks'[i].setup, PrevBlock(i)', blocks'[i].block,
                                               PrevEnd(i)', blocks'[i].start)
                 /\ blocks'[i].start >= PrevEnd(i)' + blocks'[i].setup
        BY <1>18, <2>1
    <2>3. QED
        BY <1>3, <1>13, <2>2 DEF Feasible, Observable, Checked, IsSlew, Overhead
<1>20. QED
    BY <1>12, <1>16, <1>19 DEF Sound

\* A step that moves no block keeps the schedule sound.
LEMMA StillSound ==
    ASSUME Sound, TypeOK', UNCHANGED <<problem, blocks>>,
           stage' = "greedy" => stage = "greedy" /\ currentTime <= currentTime'
    PROVE  Sound'
<1>1. TypeOK /\ Timed /\ Feasible
    BY DEF Sound
<1>2. DOMAIN blocks = 1 .. Len(blocks) /\ \A i \in DOMAIN blocks : blocks[i].end \in Nat
    BY <1>1, BlocksTypes
<1>3. currentTime \in Nat /\ currentTime' \in Nat
    BY <1>1 DEF TypeOK
<1>4. ASSUME NEW i \in DOMAIN blocks, stage' = "greedy"
      PROVE  blocks[i].end <= currentTime'
    <2>1. blocks[i].end <= currentTime
        BY <1>1, <1>4 DEF Timed
    <2>2. QED
        BY <1>2, <1>3, <1>4, <2>1
<1>5. Timed'
    BY <1>1, <1>4 DEF Timed
<1>6. Feasible'
    BY <1>1 DEF Feasible, PrevBlock, PrevEnd, Observable, Checked,
                      IsSlew, Overhead
<1>7. QED
    BY <1>5, <1>6 DEF Sound

LEMMA NextTimeLater ==
    ASSUME Sound, Searching
    PROVE  NextTime \in Nat /\ currentTime <= NextTime
<1> DEFINE waits == {unassigned[k].available : k \in DOMAIN unassigned}
           T == waits \cup {Horizon}
<1>1. currentTime \in Nat /\ unassigned \in Seq(Entries) /\ ProblemOK(problem)
    BY DEF Sound, TypeOK
<1>2. waits \in SUBSET Nat
    BY <1>1, EntriesTypes
<1>3. T \in SUBSET Nat /\ T # {}
    BY <1>2, BoundsAssumption
<1> DEFINE least == CHOOSE t \in T : \A a \in T : t <= a
<1>4. least \in T
    BY <1>3, LeastNat
<1>5. currentTime < Horizon
    BY DEF Searching
<1> HIDE DEF waits
<1>6. CASE \A a \in waits : currentTime < a
    <2>1. NextTime = least
        BY <1>6 DEF NextTime, waits
    <2>2. \A a \in T : a \in Nat /\ currentTime <= a
        BY <1>1, <1>2, <1>5, <1>6, BoundsAssumption
    <2>3. QED
        BY <1>4, <2>1, <2>2
<1>7. CASE ~ \A a \in waits : currentTime < a
    <2>1. NextTime = currentTime + problem.step
        BY <1>7 DEF NextTime, waits
    <2>2. problem.step \in Nat
        BY <1>1, ProblemTypes
    <2>3. QED
        BY <1>1, <2>1, <2>2
<1>8. QED
    BY <1>6, <1>7

LEMMA GreedyWaitSound ==
    ASSUME Sound, GreedyWait
    PROVE  Sound'
<1>1. NextTime \in Nat /\ currentTime <= NextTime
    BY NextTimeLater DEF GreedyWait
<1>2. TypeOK'
    BY <1>1 DEF Sound, TypeOK, GreedyWait, searchVars
<1>3. QED
    BY <1>1, <1>2, StillSound DEF GreedyWait

LEMMA GreedyEndsSound ==
    ASSUME Sound, GreedyEnds
    PROVE  Sound'
<1>1. unassigned \in Seq(Entries) /\ TypeOK
    BY DEF Sound, TypeOK
<1>2. /\ Len(unassigned) \in Nat
      /\ unscheduled' = [k \in 1 .. Len(unassigned) |-> unassigned[k].block]
      /\ \A k \in 1 .. Len(unassigned) : unassigned[k].block \in Blocks
    BY <1>1, EntriesTypes DEF GreedyEnds
<1>3. unscheduled' \in Seq(Blocks)
    BY <1>2
<1>4. <<>> \in Seq(Entries)
    OBVIOUS
<1>5. TypeOK'
    BY <1>1, <1>3, <1>4 DEF TypeOK, GreedyEnds, searchVars
<1>6. QED
    BY <1>5, StillSound DEF GreedyEnds

LEMMA SwapSkipsSound ==
    ASSUME Sound, SwapSkips
    PROVE  Sound'
<1>1. at + 1 \in Nat \ {0}
    BY DEF Sound, TypeOK
<1>2. TypeOK'
    BY <1>1 DEF Sound, TypeOK, SwapSkips, greedyVars
<1>3. QED
    BY <1>2, StillSound DEF SwapSkips

LEMMA SwapEndsSound ==
    ASSUME Sound, SwapEnds
    PROVE  Sound'
<1>1. unscheduled \in Seq(Blocks) /\ ProblemOK(problem)
    BY DEF Sound, TypeOK
<1>2. ByPriority(unscheduled) \in Seq(Blocks)
    BY <1>1, ByPrioritySeq, ProblemTypes
<1>3. TypeOK'
    BY <1>2 DEF Sound, TypeOK, SwapEnds, greedyVars, searchVars
<1>4. QED
    BY <1>3, StillSound DEF SwapEnds

LEMMA InsertSkipsSound ==
    ASSUME Sound, InsertSkips
    PROVE  Sound'
<1>1. /\ unscheduled \in Seq(Blocks) /\ unscheduled # <<>>
      /\ remaining \in Seq(Blocks) /\ TypeOK
    BY DEF Sound, TypeOK, InsertSkips
<1>2. Head(unscheduled) \in Blocks /\ Tail(unscheduled) \in Seq(Blocks)
    BY <1>1, HeadTailProperties
<1>3. Append(remaining, Head(unscheduled)) \in Seq(Blocks)
    BY <1>1, <1>2
<1>4. TypeOK'
    BY <1>1, <1>2, <1>3 DEF TypeOK, InsertSkips, greedyVars
<1>5. QED
    BY <1>4, StillSound DEF InsertSkips

LEMMA PassEndsSound ==
    ASSUME Sound, PassEnds
    PROVE  Sound'
<1>1. TypeOK
    BY DEF Sound
<1>2. idlePasses' \in Nat /\ pass' \in Nat
    BY <1>1 DEF TypeOK, PassEnds
<1>3. stage' \in {"swap", "done"} /\ <<>> \in Seq(Blocks)
    BY DEF PassEnds
<1>4. improved' \in BOOLEAN
    BY Zenon DEF PassEnds
<1>5. TypeOK'
    BY <1>1, <1>2, <1>3, <1>4 DEF TypeOK, PassEnds, greedyVars
<1>6. QED
    BY <1>3, <1>5, StillSound DEF PassEnds

\* A swap changes two neighbours, and what the one after them records.
LEMMA SwapEffect ==
    ASSUME Sound, SwapPair
    PROVE  \E X, Y \in Slots :
              LET bi == blocks[at].block
                  bj == blocks[at + 1].block
              IN  /\ at + 1 \in 1 .. Len(blocks)
                  /\ X = Swapped(at)[1] /\ Y = Swapped(at)[2]
                  /\ X.block = bj /\ Y.block = bi
                  /\ X.start >= blocks[at].start
                  /\ IsSlew(X.setup, PrevBlock(at), bj, PrevEnd(at), X.start)
                  /\ X.start >= PrevEnd(at) + X.setup
                  /\ X.end = X.start + problem.duration[bj]
                  /\ X.score = problem.score[bj][X.start]
                  /\ Observable(bj, X.start)
                  /\ IsSlew(Y.setup, bj, bi, X.end, Y.start)
                  /\ Y.start = X.end + Y.setup
                  /\ Y.end = Y.start + problem.duration[bi]
                  /\ Y.score = problem.score[bi][Y.start]
                  /\ Observable(bi, Y.start)
                  /\ X.end <= Y.end /\ Y.end <= Horizon
                  /\ at + 2 <= Len(blocks) =>
                        Y.end + Overhead(bi, blocks[at + 2].block, Y.end,
                                         blocks[at + 2].start)
                           <= blocks[at + 2].start
                  /\ blocks' = SetSetup([blocks EXCEPT ![at] = X, ![at + 1] = Y],
                                        at + 2, NextSetup(bi, Y.end, at + 2))
<1> DEFINE n == Len(blocks)
           i == at
           j == at + 1
           bi == blocks[i].block
           bj == blocks[j].block
           over == SwapSetup(i)
           first == SwapStart(i)
           endJ == first + problem.duration[bj]
           back == Overhead(bj, bi, endJ, endJ)
           X == Placement(bj, first, over)
           Y == Placement(bi, X.end + back, back)
<1>1. TypeOK /\ ProblemOK(problem) /\ at \in Nat \ {0}
    BY DEF Sound, TypeOK
<1>2. at < n /\ SwapFits(at) /\ NoWorse(at) /\ n \in Nat
    BY <1>1, BlocksTypes DEF SwapPair, Swaps
<1>3. i \in 1 .. n /\ j \in 1 .. n /\ i \in 1 .. n + 1
    BY <1>1, <1>2
<1>4. /\ bi \in Blocks /\ bj \in Blocks /\ blocks[i].start \in Nat
      /\ PrevBlock(i) \in Blocks \cup {None} /\ PrevEnd(i) \in Nat
    BY <1>1, <1>3, BlocksTypes
<1>5. /\ over \in Nat
      /\ problem.duration[bi] \in Nat \ {0} /\ problem.duration[bj] \in Nat \ {0}
    BY <1>1, <1>4, ProblemTypes DEF SwapSetup
<1>6. first \in Nat /\ first >= blocks[i].start /\ first >= PrevEnd(i) + over
    <2> HIDE DEF over
    <2>1. first = IF PrevEnd(i) + over > blocks[i].start
                  THEN PrevEnd(i) + over ELSE blocks[i].start
        BY DEF SwapStart, over
    <2> HIDE DEF first
    <2>2. QED
        BY <1>4, <1>5, <2>1
<1>23. back \in Nat
    <2>1. endJ \in Nat
        BY <1>5, <1>6
    <2> HIDE DEF endJ
    <2>2. QED
        BY <1>1, <1>4, <2>1, ProblemTypes
<1> DEFINE startI == endJ + back
           endI == startI + problem.duration[bi]
<1>7. /\ Observable(bj, first)
      /\ endI <= Horizon
      /\ ReachesNext(bi, endI, i + 2)
      /\ Observable(bi, startI)
    BY <1>2 DEF SwapFits
<1>8. endJ \in Nat /\ startI \in Nat /\ endI \in Nat /\ endJ <= endI /\ endJ <= Horizon
    BY <1>5, <1>6, <1>7, <1>23, BoundsAssumption
<1>24. IsSlew(over, PrevBlock(i), bj, PrevEnd(i), first)
    <2>1. PrevEnd(i) <= first
        <3> HIDE DEF first, over
        <3>1. QED
            BY <1>4, <1>5, <1>6
    <2> HIDE DEF first
    <2>2. QED
        <3>1. over = Overhead(PrevBlock(i), bj, PrevEnd(i), blocks[i].start)
            BY DEF SwapSetup
        <3>2. PrevEnd(i) <= PrevEnd(i)
            BY <1>4
        <3> HIDE DEF over, bj
        <3>3. QED
            BY <1>1, <1>4, <1>6, <2>1, <3>1, <3>2, SlewCounts
<1>25. IsSlew(back, bj, bi, endJ, startI)
    <2>1. endJ <= startI
        <3> HIDE DEF endJ, back
        <3>1. QED
            BY <1>8, <1>23
    <2> HIDE DEF endJ, startI
    <2>2. QED
        BY <1>1, <1>4, <1>8, <2>1, SlewCounts
<1> HIDE DEF first, over, back
<1>9. /\ X \in Slots /\ X.block = bj /\ X.start = first /\ X.end = endJ
      /\ X.setup = over /\ X.score = problem.score[bj][first]
    BY <1>1, <1>4, <1>5, <1>6, <1>8, PlacementTypes
<1>10. Y = Placement(bi, startI, back)
    BY <1>9
<1> HIDE DEF endJ, startI
<1>11. /\ Y \in Slots /\ Y.block = bi /\ Y.start = startI
       /\ Y.end = startI + problem.duration[bi]
       /\ Y.setup = back /\ Y.score = problem.score[bi][startI]
    BY <1>1, <1>4, <1>5, <1>7, <1>8, <1>10, <1>23, PlacementTypes
<1>12. X = Swapped(at)[1] /\ Y = Swapped(at)[2]
    BY <1>9 DEF Swapped, first, over, back
<1>13. blocks' = SetSetup([blocks EXCEPT ![at] = Swapped(at)[1],
                                         ![at + 1] = Swapped(at)[2]],
                          at + 2, NextSetup(blocks[at].block, Swapped(at)[2].end, at + 2))
    BY DEF SwapPair
<1>14. i + 2 <= n => endI + Overhead(bi, blocks[i + 2].block, endI, blocks[i + 2].start)
                        <= blocks[i + 2].start
    <2>1. i + 2 <= n => i + 2 \in DOMAIN blocks
        BY <1>1, BlocksTypes
    <2>2. QED
        BY <1>7, <2>1 DEF ReachesNext, NextSetup
<1> HIDE DEF X, Y
<1>15. /\ X.start >= blocks[at].start /\ X.start >= PrevEnd(at) + X.setup
       /\ IsSlew(X.setup, PrevBlock(at), bj, PrevEnd(at), X.start)
       /\ IsSlew(Y.setup, bj, bi, X.end, Y.start)
    BY <1>6, <1>9, <1>11, <1>24, <1>25
<1>16. Y.start = X.end + Y.setup /\ X.end = X.start + problem.duration[bj]
    BY <1>9, <1>11 DEF startI, endJ
<1>17. X.end <= Y.end /\ Y.end <= Horizon
    BY <1>7, <1>8, <1>9, <1>11
<1>18. Observable(bj, X.start) /\ Observable(bi, Y.start)
    BY <1>7, <1>9, <1>11
<1>19. at + 2 <= n => Y.end + Overhead(bi, blocks[at + 2].block, Y.end,
                                       blocks[at + 2].start)
                         <= blocks[at + 2].start
    BY <1>11, <1>14
<1>20. /\ Y.end = Y.start + problem.duration[bi]
       /\ X.score = problem.score[bj][X.start] /\ Y.score = problem.score[bi][Y.start]
       /\ X.block = bj /\ Y.block = bi
    BY <1>9, <1>11
<1>21. blocks' = SetSetup([blocks EXCEPT ![at] = X, ![at + 1] = Y],
                          at + 2, NextSetup(bi, Y.end, at + 2))
    BY <1>12, <1>13
<1>22. QED
    BY <1>3, <1>9, <1>11, <1>12, <1>15, <1>16, <1>17, <1>18, <1>19, <1>20, <1>21

\* What SetSetup leaves as it was.
LEMMA SetSetupOnly ==
    ASSUME NEW s \in Seq(Slots), NEW k \in Nat, NEW x \in Nat
    PROVE  LET t == SetSetup(s, k, x)
           IN  /\ t \in Seq(Slots)
               /\ Len(t) = Len(s)
               /\ DOMAIN t = 1 .. Len(s)
               /\ \A i \in 1 .. Len(s) :
                     /\ t[i].block = s[i].block
                     /\ t[i].start = s[i].start
                     /\ t[i].end = s[i].end
                     /\ t[i].score = s[i].score
                     /\ t[i].setup = IF i = k THEN x ELSE s[i].setup
<1>1. Len(s) \in Nat /\ DOMAIN s = 1 .. Len(s) /\ \A i \in 1 .. Len(s) : s[i] \in Slots
    BY LenProperties
<1>2. CASE k \in 1 .. Len(s)
    <2> DEFINE e == [s[k] EXCEPT !.setup = x]
    <2>1. /\ e \in Slots
          /\ e.block = s[k].block /\ e.start = s[k].start /\ e.end = s[k].end
          /\ e.score = s[k].score /\ e.setup = x
        BY <1>1, <1>2 DEF Slots
    <2>2. SetSetup(s, k, x) = [s EXCEPT ![k] = e]
        BY <1>1, <1>2 DEF SetSetup
    <2> HIDE DEF e
    <2>3. /\ [s EXCEPT ![k] = e] \in Seq(Slots)
          /\ Len([s EXCEPT ![k] = e]) = Len(s)
          /\ \A i \in 1 .. Len(s) : [s EXCEPT ![k] = e][i] = IF i = k THEN e ELSE s[i]
        BY <1>2, <2>1, ExceptSeq
    <2>4. DOMAIN [s EXCEPT ![k] = e] = 1 .. Len(s)
        BY <1>1
    <2>5. QED
        BY <2>1, <2>2, <2>3, <2>4
<1>3. CASE k \notin 1 .. Len(s)
    <2>1. SetSetup(s, k, x) = s
        BY <1>1, <1>3 DEF SetSetup
    <2>2. QED
        BY <1>1, <1>3, <2>1
<1>4. QED
    BY <1>2, <1>3

\* The schedule after a swap, place by place.
LEMMA SwapPlaces ==
    ASSUME Sound, SwapPair, NEW X \in Slots, NEW Y \in Slots,
           at + 1 \in 1 .. Len(blocks),
           Y.block = blocks[at].block,
           blocks' = SetSetup([blocks EXCEPT ![at] = X, ![at + 1] = Y],
                              at + 2, NextSetup(blocks[at].block, Y.end, at + 2))
    PROVE  /\ blocks' \in Seq(Slots)
           /\ Len(blocks') = Len(blocks)
           /\ DOMAIN blocks' = 1 .. Len(blocks)
           /\ \A i \in 1 .. Len(blocks) :
                 LET s == IF i = at THEN X ELSE IF i = at + 1 THEN Y ELSE blocks[i]
                 IN  /\ blocks'[i].block = s.block
                     /\ blocks'[i].start = s.start
                     /\ blocks'[i].end = s.end
                     /\ blocks'[i].score = s.score
                     /\ blocks'[i].setup =
                          IF i = at + 2
                          THEN Overhead(Y.block, blocks[i].block, Y.end, blocks[i].start)
                          ELSE s.setup
<1> DEFINE n == Len(blocks)
           t == [blocks EXCEPT ![at] = X]
           u == [t EXCEPT ![at + 1] = Y]
           x == NextSetup(blocks[at].block, Y.end, at + 2)
<1>1. TypeOK /\ ProblemOK(problem) /\ blocks \in Seq(Slots) /\ at \in Nat \ {0}
    BY DEF Sound, TypeOK
<1>2. n \in Nat /\ DOMAIN blocks = 1 .. n /\ at \in 1 .. n
    BY <1>1, BlocksTypes
<1>3. /\ t \in Seq(Slots) /\ Len(t) = n
      /\ \A i \in 1 .. n : t[i] = IF i = at THEN X ELSE blocks[i]
    BY <1>1, <1>2, ExceptSeq
<1>4. /\ u \in Seq(Slots) /\ Len(u) = n
      /\ \A i \in 1 .. n : u[i] = IF i = at + 1 THEN Y ELSE t[i]
    <2> HIDE DEF t
    <2>1. QED
        BY <1>3, ExceptSeq
<1>5. \A i \in 1 .. n : u[i] = IF i = at THEN X ELSE IF i = at + 1 THEN Y ELSE blocks[i]
    BY <1>1, <1>3, <1>4
<1>6. /\ x \in Nat
      /\ at + 2 \in 1 .. n =>
            x = Overhead(Y.block, blocks[at + 2].block, Y.end, blocks[at + 2].start)
    <2>1. blocks[at].block \in Blocks /\ Y.end \in Nat
        BY <1>1, <1>2, BlocksTypes DEF Slots
    <2>2. QED
        BY <1>1, <2>1, NextSetupTypes
<1>7. blocks' = SetSetup(u, at + 2, x)
    OBVIOUS
<1> HIDE DEF u, x
<1>8. at + 2 \in Nat
    BY <1>1
<1>9. /\ blocks' \in Seq(Slots) /\ Len(blocks') = n /\ DOMAIN blocks' = 1 .. n
      /\ \A i \in 1 .. n :
            /\ blocks'[i].block = u[i].block
            /\ blocks'[i].start = u[i].start
            /\ blocks'[i].end = u[i].end
            /\ blocks'[i].score = u[i].score
            /\ blocks'[i].setup = IF i = at + 2 THEN x ELSE u[i].setup
    <2> DEFINE r == SetSetup(u, at + 2, x)
    <2>1. /\ r \in Seq(Slots) /\ Len(r) = Len(u) /\ DOMAIN r = 1 .. Len(u)
          /\ \A i \in 1 .. Len(u) :
                /\ r[i].block = u[i].block
                /\ r[i].start = u[i].start
                /\ r[i].end = u[i].end
                /\ r[i].score = u[i].score
                /\ r[i].setup = IF i = at + 2 THEN x ELSE u[i].setup
        BY <1>4, <1>6, <1>8, SetSetupOnly
    <2>2. r = blocks' /\ Len(u) = n
        BY <1>4, <1>7
    <2> HIDE DEF r, n
    <2>3. QED
        BY <2>1, <2>2
<1>10. QED
    BY ZenonT(20), <1>5, <1>6, <1>9

LEMMA SwapPairSound ==
    ASSUME Sound, SwapPair
    PROVE  Sound'
<1> DEFINE n == Len(blocks)
           i == at
           j == at + 1
           bi == blocks[i].block
           bj == blocks[j].block
<1>1. PICK X \in Slots, Y \in Slots :
         /\ at + 1 \in 1 .. Len(blocks)
         /\ X = Swapped(at)[1] /\ Y = Swapped(at)[2]
         /\ X.block = bj /\ Y.block = bi
         /\ X.start >= blocks[at].start
         /\ IsSlew(X.setup, PrevBlock(at), bj, PrevEnd(at), X.start)
         /\ X.start >= PrevEnd(at) + X.setup
         /\ X.end = X.start + problem.duration[bj]
         /\ X.score = problem.score[bj][X.start]
         /\ Observable(bj, X.start)
         /\ IsSlew(Y.setup, bj, bi, X.end, Y.start)
         /\ Y.start = X.end + Y.setup
         /\ Y.end = Y.start + problem.duration[bi]
         /\ Y.score = problem.score[bi][Y.start]
         /\ Observable(bi, Y.start)
         /\ X.end <= Y.end /\ Y.end <= Horizon
         /\ at + 2 <= Len(blocks) =>
               Y.end + Overhead(bi, blocks[at + 2].block, Y.end, blocks[at + 2].start)
                  <= blocks[at + 2].start
         /\ blocks' = SetSetup([blocks EXCEPT ![at] = X, ![at + 1] = Y],
                               at + 2, NextSetup(bi, Y.end, at + 2))
    BY SwapEffect
<1>2. TypeOK /\ Timed /\ Feasible /\ ProblemOK(problem) /\ at \in Nat \ {0}
    BY DEF Sound, TypeOK
<1>3. /\ n \in Nat /\ DOMAIN blocks = 1 .. n
      /\ \A k \in 1 .. n : /\ blocks[k].block \in Blocks /\ blocks[k].start \in Nat
                           /\ blocks[k].end \in Nat /\ blocks[k].setup \in Nat
      /\ \A k \in 1 .. n + 1 : PrevEnd(k) \in Nat
    BY <1>2, BlocksTypes
<1>4. /\ i \in 1 .. n /\ j \in 1 .. n
      /\ X.start \in Nat /\ X.end \in Nat /\ X.setup \in Nat /\ X.block \in Blocks
      /\ Y.start \in Nat /\ Y.end \in Nat /\ Y.setup \in Nat /\ Y.block \in Blocks
    <2>1. i \in 1 .. n /\ j \in 1 .. n
        <3>1. j \in 1 .. n /\ i \in Nat \ {0} /\ n \in Nat
            BY <1>1, <1>2, <1>3, Zenon
        <3> HIDE DEF n
        <3>2. QED
            BY <3>1
    <2>2. X.start \in Nat /\ X.end \in Nat /\ X.setup \in Nat /\ X.block \in Blocks
        BY SlotTypes
    <2>3. Y.start \in Nat /\ Y.end \in Nat /\ Y.setup \in Nat /\ Y.block \in Blocks
        BY SlotTypes
    <2> HIDE DEF n
    <2>4. QED
        BY <2>1, <2>2, <2>3
<1>5. /\ blocks[i].start <= X.start /\ X.start <= X.end
       /\ X.end <= Y.start /\ Y.start <= Y.end
    <2>1. /\ problem.duration[X.block] \in Nat /\ problem.duration[Y.block] \in Nat
        BY <1>2, <1>4, ProblemTypes
    <2>2. /\ X.start >= blocks[i].start
          /\ X.end = X.start + problem.duration[X.block]
          /\ Y.start = X.end + Y.setup
          /\ Y.end = Y.start + problem.duration[Y.block]
        BY <1>1
    <2>3. blocks[i].start \in Nat
        BY <1>3, <1>4
    <2>4. X.start <= X.end /\ Y.start <= Y.end
        BY SMTT(20), <1>4, <2>1, <2>2
    <2>5. X.end <= Y.start
        BY <1>4, <2>2
    <2>6. QED
        BY <1>4, <2>2, <2>3, <2>4, <2>5
<1>6. /\ blocks' \in Seq(Slots) /\ Len(blocks') = n /\ DOMAIN blocks' = 1 .. n
      /\ \A k \in 1 .. n :
            LET s == IF k = at THEN X ELSE IF k = at + 1 THEN Y ELSE blocks[k]
            IN  /\ blocks'[k].block = s.block
                /\ blocks'[k].start = s.start
                /\ blocks'[k].end = s.end
                /\ blocks'[k].score = s.score
                /\ blocks'[k].setup =
                     IF k = at + 2
                     THEN Overhead(Y.block, blocks[k].block, Y.end, blocks[k].start)
                     ELSE s.setup
    <2>1. /\ at + 1 \in 1 .. Len(blocks)
          /\ Y.block = blocks[at].block
          /\ blocks' = SetSetup([blocks EXCEPT ![at] = X, ![at + 1] = Y],
                                at + 2, NextSetup(blocks[at].block, Y.end, at + 2))
        BY <1>1
    <2>2. QED
        BY <2>1, SwapPlaces
<1>7. /\ blocks'[i].block = bj /\ blocks'[i].start = X.start /\ blocks'[i].end = X.end
      /\ blocks'[i].score = X.score /\ blocks'[i].setup = X.setup
      /\ blocks'[j].block = bi /\ blocks'[j].start = Y.start /\ blocks'[j].end = Y.end
      /\ blocks'[j].score = Y.score /\ blocks'[j].setup = Y.setup
    <2>1. i # i + 2 /\ j # i + 2 /\ j # i
        BY <1>2
    <2>2. X.block = bj /\ Y.block = bi
        BY <1>1
    <2> HIDE DEF bi, bj, n, j
    <2>3. QED
        BY <1>4, <1>6, <2>1, <2>2 DEF j
<1>8. ASSUME NEW k \in 1 .. n, k # i, k # j
      PROVE  /\ blocks'[k].block = blocks[k].block
             /\ blocks'[k].start = blocks[k].start
             /\ blocks'[k].end = blocks[k].end
             /\ blocks'[k].score = blocks[k].score
             /\ k # at + 2 => blocks'[k].setup = blocks[k].setup
             /\ k = at + 2 => blocks'[k].setup = Overhead(bi, blocks[k].block, Y.end,
                                                         blocks[k].start)
    BY ZenonT(20), <1>1, <1>6, <1>8
<1>9. UNCHANGED <<problem, stage, currentTime, unassigned, unscheduled, remaining,
                  pass, idlePasses>>
    BY DEF SwapPair, greedyVars
<1>10. improved' \in BOOLEAN /\ at' \in Nat \ {0}
    <2>1. improved' = TRUE /\ at' = at + 1
        BY DEF SwapPair
    <2>2. improved' \in BOOLEAN
        BY <2>1, Zenon
    <2>3. QED
        BY <1>2, <2>1, <2>2
<1>11. TypeOK'
    BY <1>2, <1>6, <1>9, <1>10 DEF TypeOK
<1>12. /\ \A k \in 1 .. n :
             /\ blocks[k].end = blocks[k].start + problem.duration[blocks[k].block]
             /\ blocks[k].score = problem.score[blocks[k].block][blocks[k].start]
       /\ \A k, m \in 1 .. n : k < m => blocks[k].end <= blocks[m].start
    BY <1>2, <1>3 DEF Timed
<1>13. \A k \in 1 .. n :
          /\ blocks[k].end <= Horizon
          /\ Observable(blocks[k].block, blocks[k].start)
          /\ IsSlew(blocks[k].setup, PrevBlock(k), blocks[k].block, PrevEnd(k),
                                       blocks[k].start)
          /\ blocks[k].start >= PrevEnd(k) + blocks[k].setup
    BY <1>2, <1>3 DEF Feasible
<1>14. stage' = "swap"
    BY <1>9 DEF SwapPair
<1> HIDE DEF n, bi, bj
<1>15. \A k \in 1 .. n : k = i \/ k = j \/ (k # i /\ k # j /\ (k < i \/ k > j))
    BY <1>2, <1>3
<1>16. \A k \in 1 .. n : k > j =>
          /\ i + 2 \in 1 .. n
          /\ Y.end <= blocks[i + 2].start
          /\ blocks[i + 2].start <= blocks[k].start
    <2>1. TAKE k \in 1 .. n
    <2>2. HAVE k > j
    <2>3. i + 2 \in 1 .. n
        BY <1>2, <1>3, <2>2
    <2>4. Overhead(bi, blocks[i + 2].block, Y.end, blocks[i + 2].start) \in Nat
        BY <1>1, <1>2, <1>3, <1>4, <2>3, ProblemTypes
    <2>5. Y.end <= blocks[i + 2].start
        BY <1>1, <1>3, <1>4, <2>3, <2>4 DEF n
    <2>6. k = i + 2 \/ (i + 2 < k /\ blocks[i + 2].end <= blocks[k].start)
        BY <1>2, <1>3, <1>12, <2>2, <2>3
    <2>7. blocks[i + 2].start <= blocks[i + 2].end
        <3>1. problem.duration[blocks[i + 2].block] \in Nat
            BY <1>2, <1>3, <2>3, ProblemTypes
        <3>2. QED
            BY <1>3, <1>12, <2>3, <3>1
    <2>8. QED
        BY <1>3, <2>3, <2>5, <2>6, <2>7
<1>17. Timed'
    <2>1. ASSUME NEW k \in 1 .. n
          PROVE  /\ blocks'[k].end = blocks'[k].start + problem.duration[blocks'[k].block]
                 /\ blocks'[k].score = problem.score[blocks'[k].block][blocks'[k].start]
        <3>1. CASE k = i
            BY <1>1, <1>7, <3>1 DEF bi, bj
        <3>2. CASE k = j
            BY <1>1, <1>7, <3>2 DEF bi, bj
        <3>3. CASE k # i /\ k # j
            BY <1>8, <1>12, <3>3
        <3>4. QED
            BY <3>1, <3>2, <3>3
    <2>2. ASSUME NEW k \in 1 .. n, NEW m \in 1 .. n, k < m
          PROVE  blocks'[k].end <= blocks'[m].start
        <3>1. CASE k < i
            <4>1. blocks'[k].end = blocks[k].end /\ blocks[k].end <= blocks[i].start
                BY <1>2, <1>3, <1>4, <1>8, <1>12, <3>1
            <4>2. CASE m = i \/ m = j
                <5>1. blocks'[m].start = X.start \/ blocks'[m].start = Y.start
                    BY <1>7, <4>2
                <5>2. blocks[k].end \in Nat /\ blocks[i].start \in Nat
                    BY <1>3, <1>4
                <5>3. blocks[k].end <= X.start /\ blocks[k].end <= Y.start
                    BY <1>4, <1>5, <4>1, <5>2
                <5>4. QED
                    BY <4>1, <5>1, <5>3
            <4>3. CASE m # i /\ m # j
                BY <1>8, <1>12, <2>2, <4>1, <4>3
            <4>4. QED
                BY <4>2, <4>3
        <3>2. CASE k = i
            <4>1. m = j \/ m > j
                BY <1>2, <1>3, <2>2, <3>2
            <4>2. CASE m = j
                BY <1>1, <1>4, <1>7, <3>2, <4>2
            <4>3. CASE m > j
                <5>1. m # i /\ m # j
                    BY <1>2, <1>3, <4>3
                <5>2. X.end <= Y.end /\ Y.end <= blocks[m].start
                    <6>1. i + 2 \in 1 .. n /\ Y.end <= blocks[i + 2].start
                          /\ blocks[i + 2].start <= blocks[m].start
                        BY <1>16, <4>3
                    <6>2. blocks[i + 2].start \in Nat /\ blocks[m].start \in Nat
                        BY <1>3, <6>1
                    <6>3. X.end <= Y.end /\ X.end \in Nat /\ Y.end \in Nat
                        BY <1>1, <1>4
                    <6>4. QED
                        BY <6>1, <6>2, <6>3
                <5>3. blocks'[k].end = X.end /\ blocks'[m].start = blocks[m].start
                    BY <1>7, <1>8, <3>2, <5>1
                <5>4. X.end \in Nat /\ Y.end \in Nat /\ blocks[m].start \in Nat
                    BY <1>3, <1>4
                <5>5. QED
                    BY <5>2, <5>3, <5>4
            <4>4. QED
                BY <4>1, <4>2, <4>3
        <3>3. CASE k = j
            <4>1. m > j /\ m # i /\ m # j
                BY <1>2, <1>3, <2>2, <3>3
            <4>2. Y.end <= blocks[m].start
                <5>1. i + 2 \in 1 .. n /\ Y.end <= blocks[i + 2].start
                      /\ blocks[i + 2].start <= blocks[m].start
                    BY <1>16, <4>1
                <5>2. /\ blocks[i + 2].start \in Nat /\ blocks[m].start \in Nat
                      /\ Y.end \in Nat
                    BY <1>3, <1>4, <5>1
                <5>3. QED
                    BY <5>1, <5>2
            <4>3. QED
                BY <1>7, <1>8, <3>3, <4>1, <4>2
        <3>4. CASE k > j
            <4>1. k # i /\ k # j /\ m # i /\ m # j
                BY <1>2, <1>3, <2>2, <3>4
            <4>2. QED
                BY <1>8, <1>12, <2>2, <4>1
        <3>5. QED
            BY <1>15, <3>1, <3>2, <3>3, <3>4
    <2>3. QED
        BY <1>6, <1>9, <1>14, <2>1, <2>2 DEF Timed
<1>18. ASSUME NEW k \in 1 .. n
       PROVE  /\ PrevBlock(k)' = IF k = j THEN bj ELSE IF k = i + 2 THEN bi ELSE PrevBlock(k)
              /\ PrevEnd(k)' = IF k = j THEN X.end
                               ELSE IF k = i + 2 THEN Y.end ELSE PrevEnd(k)
    <2>1. CASE k = 1
        BY <1>2, <2>1 DEF PrevBlock, PrevEnd
    <2>2. CASE k # 1
        <3>1. k - 1 \in 1 .. n
            BY <1>3, <2>2
        <3>2. PrevBlock(k)' = blocks'[k - 1].block /\ PrevEnd(k)' = blocks'[k - 1].end
            BY <2>2 DEF PrevBlock, PrevEnd
        <3>3. PrevBlock(k) = blocks[k - 1].block /\ PrevEnd(k) = blocks[k - 1].end
            BY <2>2 DEF PrevBlock, PrevEnd
        <3>4. (k = j <=> k - 1 = i) /\ (k = i + 2 <=> k - 1 = j) /\ j # i + 2
            BY <1>2, <1>3
        <3>5. QED
            BY <1>7, <1>8, <3>1, <3>2, <3>3, <3>4
    <2>3. QED
        BY <2>1, <2>2
<1>19. Feasible'
    <2>1. ASSUME NEW k \in 1 .. n
          PROVE  /\ blocks'[k].end <= Horizon
                 /\ Observable(blocks'[k].block, blocks'[k].start)
                 /\ IsSlew(blocks'[k].setup, PrevBlock(k)', blocks'[k].block,
                                               PrevEnd(k)', blocks'[k].start)
                 /\ blocks'[k].start >= PrevEnd(k)' + blocks'[k].setup
        <3>1. CASE k = i
            <4>1. PrevBlock(k)' = PrevBlock(k) /\ PrevEnd(k)' = PrevEnd(k)
                BY <1>2, <1>18, <3>1
            <4>2. X.end <= Horizon
                BY <1>1, <1>4, BoundsAssumption
            <4>3. QED
                BY <1>1, <1>7, <3>1, <4>1, <4>2 DEF bi, bj
        <3>2. CASE k = j
            <4>1. PrevBlock(k)' = bj /\ PrevEnd(k)' = X.end
                BY <1>18, <3>2
            <4>2. Y.start >= X.end + Y.setup
                BY <1>1, <1>4
            <4>3. QED
                BY <1>1, <1>7, <3>2, <4>1, <4>2 DEF bi, bj
        <3>3. CASE k # i /\ k # j
            <4>1. /\ blocks'[k].end <= Horizon
                  /\ Observable(blocks'[k].block, blocks'[k].start)
                BY <1>8, <1>13, <3>3
            <4>2. CASE k = i + 2
                <5>1. PrevBlock(k)' = bi /\ PrevEnd(k)' = Y.end
                    BY <1>2, <1>18, <4>2
                <5>8. k > j /\ bi \in Blocks /\ blocks[k].block \in Blocks
                      /\ Y.end \in Nat /\ blocks[k].start \in Nat
                    BY <1>1, <1>2, <1>3, <1>4, <4>2
                <5> DEFINE slew == Overhead(bi, blocks[k].block, Y.end, blocks[k].start)
                <5>2. Y.end + slew <= blocks[k].start
                    BY <1>1, <1>3, <4>2 DEF n, bi
                <5>3. slew \in Nat /\ Y.end <= blocks[k].start
                    <6>1. Y.end <= blocks[k].start
                        BY <1>16, <4>2, <5>8
                    <6>2. slew \in Nat
                        BY <1>2, <5>8, ProblemTypes
                    <6>3. QED
                        BY <6>1, <6>2
                <5>4. IsSlew(slew, bi, blocks[k].block, Y.end, blocks[k].start)
                    <6>1. Y.end <= Y.end
                        BY <5>8
                    <6>2. QED
                        BY <1>2, <5>3, <5>8, <6>1, SlewCounts
                <5>5. blocks'[k].setup = slew /\ blocks'[k].block = blocks[k].block
                      /\ blocks'[k].start = blocks[k].start
                    BY <1>8, <3>3, <4>2
                <5> HIDE DEF slew
                <5>6. blocks[k].start >= Y.end + slew
                    BY <5>2
                <5>7. QED
                    BY <4>1, <5>1, <5>4, <5>5, <5>6
            <4>3. CASE k # i + 2
                <5>1. PrevBlock(k)' = PrevBlock(k) /\ PrevEnd(k)' = PrevEnd(k)
                    BY <1>18, <3>3, <4>3
                <5>2. QED
                    BY <1>8, <1>13, <3>3, <4>1, <4>3, <5>1
            <4>4. QED
                BY <4>2, <4>3
        <3>4. QED
            BY <3>1, <3>2, <3>3
    <2>2. QED
        BY <1>6, <1>9, <2>1 DEF Feasible, Observable, Checked, IsSlew, Overhead
<1>20. QED
    BY <1>11, <1>17, <1>19 DEF Sound

\* An insertion places one block before the k-th and tells that one so.
LEMMA InsertEffect ==
    ASSUME Sound, Insert
    PROVE  \E k \in 1 .. Len(blocks) + 1, P \in Slots :
              LET b == Head(unscheduled)
              IN  /\ b \in Blocks
                  /\ P.block = b
                  /\ IsSlew(P.setup, PrevBlock(k), b, PrevEnd(k), P.start)
                  /\ P.start = PrevEnd(k) + P.setup
                  /\ P.end = P.start + problem.duration[b]
                  /\ P.score = problem.score[b][P.start]
                  /\ Observable(b, P.start)
                  /\ P.end <= Horizon
                  /\ k <= Len(blocks) =>
                        P.end + NextSetup(b, P.end, k) <= blocks[k].start
                  /\ blocks' = ByStart(ToSet(SetSetup(blocks, k, NextSetup(b, P.end, k)))
                                          \cup {P})
<1> DEFINE n == Len(blocks)
           b == Head(unscheduled)
<1>1. /\ TypeOK /\ Feasible /\ ProblemOK(problem)
      /\ unscheduled \in Seq(Blocks) /\ unscheduled # <<>>
    BY DEF Sound, TypeOK, Insert
<1>2. b \in Blocks
    BY <1>1, HeadTailProperties
<1>3. PICK g \in Gaps :
         /\ FitsGap(b, g)
         /\ LET placed == Placement(b, InsertStart(b, g), InsertSetup(b, g))
            IN  blocks' = ByStart(ToSet(SetSetup(blocks, g.next,
                                                 NextSetup(b, placed.end, g.next)))
                                    \cup {placed})
    BY DEF Insert
<1> DEFINE k == g.next
           over == InsertSetup(b, g)
           start == InsertStart(b, g)
           P == Placement(b, start, over)
<1>4. /\ n \in Nat /\ DOMAIN blocks = 1 .. n
      /\ \A i \in 1 .. n : blocks[i].start \in Nat /\ blocks[i].end \in Nat
    BY <1>1, BlocksTypes
<1>5. /\ k \in 1 .. n + 1
      /\ g.start = PrevEnd(k)
      /\ g.end = IF k > n THEN Horizon ELSE blocks[k].start
    BY DEF Gaps
<1>6. PrevBlock(k) \in Blocks \cup {None} /\ PrevEnd(k) \in Nat
    BY <1>1, <1>5, BlocksTypes
<1>7. over \in Nat /\ problem.duration[b] \in Nat \ {0}
    BY <1>1, <1>2, <1>5, <1>6, ProblemTypes DEF InsertSetup
<1>8. start = PrevEnd(k) + over /\ start \in Nat
    <2>1. start = g.start + over
        BY DEF InsertStart
    <2> HIDE DEF start, over
    <2>2. QED
        BY <1>5, <1>6, <1>7, <2>1
<1>9. /\ start + problem.duration[b] <= g.end
      /\ ReachesNext(b, start + problem.duration[b], k)
      /\ Observable(b, start)
    BY <1>3 DEF FitsGap
<1>10. g.end <= Horizon /\ g.end \in Nat
    <2>1. CASE k > n
        BY <1>5, <2>1, BoundsAssumption
    <2>2. CASE ~(k > n)
        <3>1. k \in 1 .. n /\ g.end = blocks[k].start
            BY <1>4, <1>5, <2>2
        <3>2. blocks[k].end <= Horizon
            BY <1>1, <1>4, <3>1 DEF Feasible
        <3>3. blocks[k].start <= blocks[k].end
            <4>1. Timed /\ blocks[k].block \in Blocks
                BY <1>1, <3>1, BlocksTypes DEF Sound
            <4>2. problem.duration[blocks[k].block] \in Nat
                BY <1>1, <4>1, ProblemTypes
            <4>3. blocks[k].end = blocks[k].start + problem.duration[blocks[k].block]
                BY <1>4, <3>1, <4>1 DEF Timed
            <4>4. QED
                BY <1>4, <3>1, <4>2, <4>3
        <3>4. QED
            BY <1>4, <3>1, <3>2, <3>3, BoundsAssumption
    <2>3. QED
        BY <2>1, <2>2
<1>11. start + problem.duration[b] <= Horizon
    BY <1>7, <1>8, <1>9, <1>10, BoundsAssumption
<1>17. IsSlew(over, PrevBlock(k), b, PrevEnd(k), start)
    <2>1. PrevEnd(k) <= start /\ PrevEnd(k) <= PrevEnd(k)
        <3> HIDE DEF over, start
        <3>1. QED
            BY <1>6, <1>7, <1>8
    <2>2. over = Overhead(PrevBlock(k), b, PrevEnd(k), PrevEnd(k))
        BY <1>5 DEF InsertSetup
    <2> HIDE DEF over, start
    <2>3. QED
        BY <1>1, <1>2, <1>6, <1>8, <2>1, <2>2, SlewCounts
<1> HIDE DEF over, start
<1>12. /\ P \in Slots /\ P.block = b /\ P.start = start /\ P.setup = over
       /\ P.end = start + problem.duration[b] /\ P.score = problem.score[b][start]
    BY <1>1, <1>2, <1>7, <1>8, <1>11, PlacementTypes
<1>13. k <= n => P.end + NextSetup(b, P.end, k) <= blocks[k].start
    BY <1>4, <1>5, <1>9, <1>12 DEF ReachesNext
<1>14. blocks' = ByStart(ToSet(SetSetup(blocks, k, NextSetup(b, P.end, k))) \cup {P})
    BY <1>3 DEF over, start
<1> HIDE DEF P
<1>15. IsSlew(P.setup, PrevBlock(k), b, PrevEnd(k), P.start)
    BY <1>12, <1>17
<1> HIDE DEF k
<1>16. QED
    BY <1>2, <1>5, <1>8, <1>9, <1>11, <1>12, <1>13, <1>14, <1>15

\* Sorted by start, the schedule has the new block in its place, and the
\* others as they were but for what the next one records.
LEMMA InsertPlaces ==
    ASSUME Sound, NEW k \in 1 .. Len(blocks) + 1, NEW P \in Slots,
           P.end = P.start + problem.duration[P.block],
           PrevEnd(k) <= P.start,
           k <= Len(blocks) => P.end <= blocks[k].start
    PROVE  LET t == ByStart(ToSet(SetSetup(blocks, k, NextSetup(P.block, P.end, k))) \cup {P})
           IN  /\ t \in Seq(Slots)
               /\ Len(t) = Len(blocks) + 1
               /\ DOMAIN t = 1 .. Len(blocks) + 1
               /\ t[k] = P
               /\ \A i \in 1 .. Len(blocks) :
                     LET m == IF i < k THEN i ELSE i + 1
                     IN  /\ t[m].block = blocks[i].block
                         /\ t[m].start = blocks[i].start
                         /\ t[m].end = blocks[i].end
                         /\ t[m].score = blocks[i].score
                         /\ t[m].setup = IF i = k THEN NextSetup(P.block, P.end, k)
                                         ELSE blocks[i].setup
               /\ \A i, j \in 1 .. Len(blocks) + 1 : i < j => t[i].end <= t[j].start
<1> DEFINE n == Len(blocks)
           x == NextSetup(P.block, P.end, k)
           moved == SetSetup(blocks, k, x)
           S == ToSet(moved) \cup {P}
           R == {pq \in S \X S : pq[1].start < pq[2].start}
           t == [i \in 1 .. n + 1 |->
                   IF i < k THEN moved[i] ELSE IF i = k THEN P ELSE moved[i - 1]]
<1>1. /\ TypeOK /\ Timed /\ ProblemOK(problem) /\ blocks \in Seq(Slots)
    BY DEF Sound, TypeOK
<1>2. /\ n \in Nat /\ DOMAIN blocks = 1 .. n
      /\ \A i \in 1 .. n : /\ blocks[i].block \in Blocks /\ blocks[i].start \in Nat
                           /\ blocks[i].end \in Nat
    BY <1>1, BlocksTypes
<1>3. x \in Nat
    <2>1. P.block \in Blocks /\ P.end \in Nat
        BY DEF Slots
    <2>2. QED
        BY <1>1, <2>1, NextSetupTypes
<1>4. /\ moved \in Seq(Slots) /\ Len(moved) = n /\ DOMAIN moved = 1 .. n
      /\ \A i \in 1 .. n : /\ moved[i].block = blocks[i].block
                           /\ moved[i].start = blocks[i].start
                           /\ moved[i].end = blocks[i].end
                           /\ moved[i].score = blocks[i].score
                           /\ moved[i].setup = IF i = k THEN x ELSE blocks[i].setup
    <2> HIDE DEF x
    <2>1. k \in Nat
        BY <1>2
    <2>2. QED
        BY <1>1, <1>3, <2>1, SetSetupOnly
<1> HIDE DEF moved
<1>5. \A i \in 1 .. n : moved[i] \in Slots
    BY <1>4, ElementOfSeq
<1>6. /\ \A i \in 1 .. n : blocks[i].start < blocks[i].end
      /\ \A i, j \in 1 .. n : i < j => blocks[i].end <= blocks[j].start
      /\ P.start < P.end /\ P.start \in Nat /\ P.end \in Nat
    <2>1. \A i \in 1 .. n :
             /\ blocks[i].end = blocks[i].start + problem.duration[blocks[i].block]
             /\ problem.duration[blocks[i].block] \in Nat \ {0}
        BY <1>1, <1>2, ProblemTypes DEF Timed
    <2>2. \A i \in 1 .. n : blocks[i].start < blocks[i].end
        BY <1>2, <2>1
    <2>3. P.block \in Blocks /\ P.start \in Nat /\ P.end \in Nat
        BY DEF Slots
    <2>4. problem.duration[P.block] \in Nat \ {0}
        BY <1>1, <2>3, ProblemTypes
    <2>5. P.start < P.end
        BY <2>3, <2>4
    <2>6. QED
        BY <1>1, <1>2, <2>2, <2>3, <2>5 DEF Timed
<1>7. \A i \in 1 .. n : /\ i < k => blocks[i].end <= P.start
                        /\ ~(i < k) => P.end <= blocks[i].start
    <2>1. ASSUME NEW i \in 1 .. n, i < k
          PROVE  blocks[i].end <= P.start
        <3>1. k # 1 /\ k - 1 \in 1 .. n /\ PrevEnd(k) = blocks[k - 1].end
            BY <1>2, <2>1 DEF PrevEnd
        <3>2. i = k - 1 \/ i < k - 1
            BY <2>1
        <3>3. blocks[i].end <= blocks[k - 1].end
            BY <1>2, <1>6, <3>1, <3>2
        <3>4. QED
            BY <1>2, <1>6, <3>1, <3>3
    <2>2. ASSUME NEW i \in 1 .. n, ~(i < k)
          PROVE  P.end <= blocks[i].start
        <3>1. k \in 1 .. n /\ P.end <= blocks[k].start
            BY <1>2, <2>2
        <3>2. i = k \/ k < i
            BY <2>2
        <3>3. blocks[k].start <= blocks[i].start
            BY <1>2, <1>6, <3>1, <3>2
        <3>4. QED
            BY <1>2, <1>6, <3>1, <3>3
    <2>3. QED
        BY <2>1, <2>2
<1>8. t \in [1 .. n + 1 -> S]
    <2>1. \A i \in 1 .. n : moved[i] \in S
        BY <1>4 DEF ToSet
    <2>2. ASSUME NEW i \in 1 .. n + 1
          PROVE  (IF i < k THEN moved[i] ELSE IF i = k THEN P ELSE moved[i - 1]) \in S
        <3>1. i < k => i \in 1 .. n
            BY <1>2
        <3>2. ~(i < k) /\ i # k => i - 1 \in 1 .. n
            BY <1>2
        <3> HIDE DEF S
        <3>3. P \in S
            BY DEF S
        <3>4. QED
            BY <2>1, <3>1, <3>2, <3>3
    <2> HIDE DEF S
    <2>3. QED
        BY <2>2
<1>9. ASSUME NEW i \in 1 .. n
      PROVE  t[IF i < k THEN i ELSE i + 1] = moved[i]
    BY <1>2
<1>10. t[k] = P
    OBVIOUS
<1>11. \A i \in 1 .. n + 1 :
          i = k \/ \E j \in 1 .. n : i = IF j < k THEN j ELSE j + 1
    <2>1. TAKE i \in 1 .. n + 1
    <2>2. i < k => i \in 1 .. n
        BY <1>2
    <2>3. k < i => i - 1 \in 1 .. n /\ ~(i - 1 < k) /\ i = i - 1 + 1
        BY <1>2
    <2>4. QED
        BY <2>2, <2>3
<1> DEFINE Place(j) == IF j < k THEN j ELSE j + 1
<1>12. \A j \in 1 .. n : /\ t[Place(j)].start = blocks[j].start
                         /\ t[Place(j)].end = blocks[j].end
    BY <1>4, <1>9
<1> HIDE DEF t
<1>13. \A i \in 1 .. n + 1 : /\ t[i].start \in Nat /\ t[i].end \in Nat
                             /\ t[i].start < t[i].end
    <2>1. TAKE i \in 1 .. n + 1
    <2>2. CASE i = k
        BY <1>6, <1>10, <2>2
    <2>3. CASE i # k
        <3>1. PICK j \in 1 .. n : i = Place(j)
            BY <1>11, <2>3
        <3>2. QED
            BY <1>2, <1>6, <1>12, <3>1
    <2>4. QED
        BY <2>2, <2>3
<1>14. ASSUME NEW i \in 1 .. n + 1, NEW j \in 1 .. n + 1, i < j
       PROVE  t[i].end <= t[j].start
    <2>1. CASE i = k
        <3>1. PICK m \in 1 .. n : j = Place(m)
            BY <1>11, <1>14, <2>1
        <3>2. ~(m < k)
            BY <1>14, <2>1, <3>1
        <3>3. QED
            BY <1>7, <1>10, <1>12, <2>1, <3>1, <3>2
    <2>2. CASE i # k
        <3>1. PICK l \in 1 .. n : i = Place(l)
            BY <1>11, <2>2
        <3>2. CASE j = k
            <4>1. l < k
                BY <1>14, <3>1, <3>2
            <4>2. QED
                BY <1>7, <1>10, <1>12, <3>1, <3>2, <4>1
        <3>3. CASE j # k
            <4>1. PICK m \in 1 .. n : j = Place(m)
                BY <1>11, <3>3
            <4>2. l < m
                BY <1>14, <3>1, <4>1
            <4>3. QED
                BY <1>6, <1>12, <3>1, <4>1, <4>2
        <3>4. QED
            BY <3>2, <3>3
    <2>3. QED
        BY <2>1, <2>2
<1>15. \A i, j \in 1 .. n + 1 : i < j => t[i].start < t[j].start
    <2>1. TAKE i \in 1 .. n + 1, j \in 1 .. n + 1
    <2>2. HAVE i < j
    <2>3. t[i].end <= t[j].start /\ t[i].start < t[i].end
        BY <1>13, <1>14, <2>2
    <2>4. QED
        BY <1>13, <2>3
<1>16. \A s \in S : \E i \in 1 .. n + 1 : t[i] = s
    <2>1. TAKE s \in S
    <2>2. CASE s = P
        BY <1>10, <2>2
    <2>3. CASE s \in ToSet(moved)
        <3>1. PICK j \in 1 .. n : s = moved[j]
            BY <1>4, <2>3 DEF ToSet
        <3>2. Place(j) \in 1 .. n + 1
            BY <1>2
        <3>3. QED
            BY <1>9, <3>1, <3>2
    <2>4. QED
        BY <2>2, <2>3
<1> HIDE DEF S
<1>17. \A s \in S : s.start \in Nat
    BY <1>13, <1>16
<1>18. \A s, u \in S : <<s, u>> \in R <=> s.start < u.start
    OBVIOUS
<1> HIDE DEF R
<1>19. \A s, u \in S : s.start = u.start => s = u
    <2>1. TAKE s \in S, u \in S
    <2>2. HAVE s.start = u.start
    <2>3. PICK i \in 1 .. n + 1, j \in 1 .. n + 1 : t[i] = s /\ t[j] = u
        BY <1>16
    <2>4. ~(i < j) /\ ~(j < i)
        BY <1>15, <1>17, <2>2, <2>3
    <2>5. QED
        BY <2>3, <2>4
<1>20. Sorts(R, S)
    <2>1. ASSUME NEW s \in S, NEW u \in S, NEW v \in S
          PROVE  /\ <<s, s>> \notin R
                 /\ s # u => <<s, u>> \in R \/ <<u, s>> \in R
                 /\ <<s, u>> \in R /\ <<u, v>> \in R => <<s, v>> \in R
        <3>1. s.start \in Nat /\ u.start \in Nat /\ v.start \in Nat
            BY <1>17
        <3>2. s # u => s.start # u.start
            BY <1>19
        <3>3. QED
            BY <1>18, <3>1, <3>2
    <2>2. QED
        BY <2>1 DEF Sorts
<1>21. \A i, j \in 1 .. n + 1 : i < j => <<t[i], t[j]>> \in R
    BY <1>8, <1>15, <1>18
<1>22. InOrder(S, R) = t
    <2>1. n + 1 \in Nat
        BY <1>2
    <2>2. QED
        BY SMTT(20), <1>8, <1>16, <1>20, <1>21, <2>1, InOrderIs
<1>23. ByStart(S) = t
    BY <1>22 DEF ByStart, R
<1>24. \A i \in 1 .. n + 1 : t[i] \in Slots
    <2>1. TAKE i \in 1 .. n + 1
    <2>2. CASE i = k
        BY <1>10, <2>2
    <2>3. CASE i # k
        BY <1>5, <1>9, <1>11, <2>3
    <2>4. QED
        BY <2>2, <2>3
<1>25. t \in [1 .. n + 1 -> Slots]
    BY <1>8, <1>24
<1>26. t \in Seq(Slots) /\ Len(t) = n + 1 /\ DOMAIN t = 1 .. n + 1
    BY <1>2, <1>25
<1>27. \A i \in 1 .. n :
          /\ t[Place(i)].block = blocks[i].block
          /\ t[Place(i)].start = blocks[i].start
          /\ t[Place(i)].end = blocks[i].end
          /\ t[Place(i)].score = blocks[i].score
          /\ t[Place(i)].setup = IF i = k THEN NextSetup(P.block, P.end, k)
                                 ELSE blocks[i].setup
    BY <1>3, <1>4, <1>9
<1>28. QED
    BY <1>10, <1>14, <1>23, <1>26, <1>27 DEF S, moved

LEMMA InsertSound ==
    ASSUME Sound, Insert
    PROVE  Sound'
<1> DEFINE n == Len(blocks)
           b == Head(unscheduled)
           Place(i, k) == IF i < k THEN i ELSE i + 1
<1>1. PICK k \in 1 .. n + 1, P \in Slots :
         /\ b \in Blocks
         /\ P.block = b
         /\ IsSlew(P.setup, PrevBlock(k), b, PrevEnd(k), P.start)
         /\ P.start = PrevEnd(k) + P.setup
         /\ P.end = P.start + problem.duration[b]
         /\ P.score = problem.score[b][P.start]
         /\ Observable(b, P.start)
         /\ P.end <= Horizon
         /\ k <= n => P.end + NextSetup(b, P.end, k) <= blocks[k].start
         /\ blocks' = ByStart(ToSet(SetSetup(blocks, k, NextSetup(b, P.end, k))) \cup {P})
    BY InsertEffect
<1>2. TypeOK /\ Timed /\ Feasible /\ ProblemOK(problem)
    BY DEF Sound, TypeOK
<1>3. /\ n \in Nat /\ DOMAIN blocks = 1 .. n
      /\ \A i \in 1 .. n : /\ blocks[i].block \in Blocks /\ blocks[i].start \in Nat
                           /\ blocks[i].end \in Nat /\ blocks[i].setup \in Nat
      /\ \A i \in 1 .. n + 1 : PrevEnd(i) \in Nat
    BY <1>2, BlocksTypes
<1>4. P.start \in Nat /\ P.end \in Nat /\ P.setup \in Nat /\ P.block \in Blocks
    BY DEF Slots
<1>5. k <= n => NextSetup(b, P.end, k) \in Nat /\ k \in 1 .. n
    <2>1. NextSetup(b, P.end, k) \in Nat
        BY <1>1, <1>2, <1>4, NextSetupTypes
    <2>2. QED
        BY <1>3, <2>1
<1>6. PrevEnd(k) <= P.start /\ (k <= n => P.end <= blocks[k].start)
    BY <1>1, <1>3, <1>4, <1>5
<1>7. /\ blocks' \in Seq(Slots)
      /\ Len(blocks') = n + 1
      /\ DOMAIN blocks' = 1 .. n + 1
      /\ blocks'[k] = P
      /\ \A i \in 1 .. n :
            LET m == IF i < k THEN i ELSE i + 1
            IN  /\ blocks'[m].block = blocks[i].block
                /\ blocks'[m].start = blocks[i].start
                /\ blocks'[m].end = blocks[i].end
                /\ blocks'[m].score = blocks[i].score
                /\ blocks'[m].setup = IF i = k THEN NextSetup(P.block, P.end, k)
                                      ELSE blocks[i].setup
      /\ \A i, j \in 1 .. n + 1 : i < j => blocks'[i].end <= blocks'[j].start
    <2> DEFINE t == ByStart(ToSet(SetSetup(blocks, k, NextSetup(P.block, P.end, k))) \cup {P})
    <2>1. blocks' = t /\ P.end = P.start + problem.duration[P.block]
        BY <1>1
    <2>2. /\ t \in Seq(Slots)
          /\ Len(t) = n + 1
          /\ DOMAIN t = 1 .. n + 1
          /\ t[k] = P
          /\ \A i \in 1 .. n :
                LET m == IF i < k THEN i ELSE i + 1
                IN  /\ t[m].block = blocks[i].block
                    /\ t[m].start = blocks[i].start
                    /\ t[m].end = blocks[i].end
                    /\ t[m].score = blocks[i].score
                    /\ t[m].setup = IF i = k THEN NextSetup(P.block, P.end, k)
                                    ELSE blocks[i].setup
          /\ \A i, j \in 1 .. n + 1 : i < j => t[i].end <= t[j].start
        BY <1>6, <2>1, InsertPlaces
    <2> HIDE DEF t
    <2>3. QED
        BY <2>1, <2>2
<1>8. UNCHANGED <<problem, stage, currentTime, unassigned, remaining, pass, idlePasses, at>>
    BY DEF Insert, greedyVars
<1>9. unscheduled' \in Seq(Blocks)
    BY <1>2, HeadTailProperties DEF Insert, TypeOK
<1>10. improved' \in BOOLEAN
    BY Zenon DEF Insert
<1>11. TypeOK'
    BY <1>2, <1>7, <1>8, <1>9, <1>10 DEF TypeOK
<1>12. \A m \in 1 .. n + 1 : m = k \/ \E i \in 1 .. n : m = Place(i, k)
    <2>1. TAKE m \in 1 .. n + 1
    <2>2. m < k => m \in 1 .. n /\ m = Place(m, k)
        BY <1>3
    <2>3. k < m => m - 1 \in 1 .. n /\ m = Place(m - 1, k)
        BY <1>3
    <2>4. QED
        BY <2>2, <2>3
<1>13. \A i \in 1 .. n :
          /\ blocks[i].end = blocks[i].start + problem.duration[blocks[i].block]
          /\ blocks[i].score = problem.score[blocks[i].block][blocks[i].start]
          /\ blocks[i].end <= Horizon
          /\ Observable(blocks[i].block, blocks[i].start)
          /\ IsSlew(blocks[i].setup, PrevBlock(i), blocks[i].block, PrevEnd(i),
                    blocks[i].start)
          /\ blocks[i].start >= PrevEnd(i) + blocks[i].setup
    BY <1>2, <1>3 DEF Timed, Feasible
<1>14. Timed'
    <2>1. ASSUME NEW m \in 1 .. n + 1
          PROVE  /\ blocks'[m].end = blocks'[m].start + problem.duration[blocks'[m].block]
                 /\ blocks'[m].score = problem.score[blocks'[m].block][blocks'[m].start]
        <3>1. CASE m = k
            BY <1>1, <1>7, <3>1
        <3>2. CASE m # k
            <4>1. PICK i \in 1 .. n : m = Place(i, k)
                BY <1>12, <3>2
            <4>2. QED
                BY <1>7, <1>13, <4>1
        <3>3. QED
            BY <3>1, <3>2
    <2>2. stage' = "insert"
        BY <1>8 DEF Insert
    <2>3. QED
        BY <1>7, <1>8, <2>1, <2>2 DEF Timed
<1>15. /\ PrevBlock(k)' = PrevBlock(k) /\ PrevEnd(k)' = PrevEnd(k)
    <2>1. k # 1 => k - 1 \in 1 .. n /\ k - 1 < k
        BY <1>3
    <2>2. k # 1 => /\ blocks'[k - 1].block = blocks[k - 1].block
                   /\ blocks'[k - 1].end = blocks[k - 1].end
        BY <1>7, <2>1
    <2>3. QED
        BY <2>2 DEF PrevBlock, PrevEnd
<1>16. ASSUME NEW i \in 1 .. n
       PROVE  /\ PrevBlock(Place(i, k))' = IF i = k THEN b ELSE PrevBlock(i)
              /\ PrevEnd(Place(i, k))' = IF i = k THEN P.end ELSE PrevEnd(i)
    <2>1. CASE i = k
        <3>1. Place(i, k) = k + 1 /\ k + 1 # 1 /\ k + 1 - 1 = k
            BY <2>1
        <3>2. PrevBlock(Place(i, k))' = blocks'[k].block /\ PrevEnd(Place(i, k))' = blocks'[k].end
            BY <3>1 DEF PrevBlock, PrevEnd
        <3>3. QED
            BY <1>1, <1>7, <2>1, <3>2
    <2>2. CASE i < k
        <3>1. Place(i, k) = i /\ (i # 1 => i - 1 \in 1 .. n /\ i - 1 < k)
            BY <1>3, <2>2
        <3>2. i # 1 => /\ blocks'[i - 1].block = blocks[i - 1].block
                       /\ blocks'[i - 1].end = blocks[i - 1].end
            BY <1>7, <3>1
        <3>3. QED
            BY <2>2, <3>1, <3>2 DEF PrevBlock, PrevEnd
    <2>3. CASE k < i
        <3>1. /\ Place(i, k) = i + 1 /\ i + 1 # 1 /\ i + 1 - 1 = i /\ i # 1
              /\ i - 1 \in 1 .. n /\ ~(i - 1 < k) /\ i - 1 + 1 = i
            BY <1>3, <2>3
        <3>2. /\ blocks'[i].block = blocks[i - 1].block
              /\ blocks'[i].end = blocks[i - 1].end
            BY <1>7, <3>1
        <3>3. PrevBlock(Place(i, k))' = blocks'[i].block /\ PrevEnd(Place(i, k))' = blocks'[i].end
            BY <3>1 DEF PrevBlock, PrevEnd
        <3>4. PrevBlock(i) = blocks[i - 1].block /\ PrevEnd(i) = blocks[i - 1].end
            BY <3>1 DEF PrevBlock, PrevEnd
        <3>5. QED
            BY <2>3, <3>2, <3>3, <3>4
    <2>4. QED
        BY <1>3, <2>1, <2>2, <2>3
<1>17. Feasible'
    <2>1. ASSUME NEW m \in 1 .. n + 1
          PROVE  /\ blocks'[m].end <= Horizon
                 /\ Observable(blocks'[m].block, blocks'[m].start)
                 /\ IsSlew(blocks'[m].setup, PrevBlock(m)', blocks'[m].block,
                           PrevEnd(m)', blocks'[m].start)
                 /\ blocks'[m].start >= PrevEnd(m)' + blocks'[m].setup
        <3>1. CASE m = k
            <4>1. P.start >= PrevEnd(k) + P.setup
                BY <1>1, <1>3, <1>4
            <4>2. QED
                BY <1>1, <1>7, <1>15, <3>1, <4>1
        <3>2. CASE m # k
            <4>1. PICK i \in 1 .. n : m = Place(i, k)
                BY <1>12, <3>2
            <4>2. /\ blocks'[m].block = blocks[i].block
                  /\ blocks'[m].start = blocks[i].start
                  /\ blocks'[m].end = blocks[i].end
                  /\ blocks'[m].setup = IF i = k THEN NextSetup(b, P.end, k)
                                        ELSE blocks[i].setup
                BY <1>1, <1>7, <4>1
            <4>3. CASE i = k
                <5>1. PrevBlock(m)' = b /\ PrevEnd(m)' = P.end
                    BY <1>16, <4>1, <4>3
                <5> DEFINE slew == NextSetup(b, P.end, k)
                <5>2. /\ slew = Overhead(b, blocks[k].block, P.end, blocks[k].start)
                      /\ slew \in Nat /\ P.end + slew <= blocks[k].start
                      /\ blocks[k].start \in Nat /\ blocks[k].block \in Blocks
                    BY <1>1, <1>3, <1>5, <4>3 DEF NextSetup
                <5> HIDE DEF slew
                <5>3. P.end <= P.end /\ P.end <= blocks[k].start
                      /\ blocks[k].start >= P.end + slew
                    BY <1>4, <5>2
                <5>4. IsSlew(slew, b, blocks[k].block, P.end, blocks[k].start)
                    BY <1>1, <1>2, <1>4, <5>2, <5>3, SlewCounts
                <5>5. blocks'[m].setup = slew
                    BY <4>2, <4>3 DEF slew
                <5>6. QED
                    BY <1>13, <4>2, <4>3, <5>1, <5>3, <5>4, <5>5
            <4>4. CASE i # k
                <5>1. PrevBlock(m)' = PrevBlock(i) /\ PrevEnd(m)' = PrevEnd(i)
                    BY <1>16, <4>1, <4>4
                <5>2. QED
                    BY <1>13, <4>2, <4>4, <5>1
            <4>5. QED
                BY <4>3, <4>4
        <3>3. QED
            BY <3>1, <3>2
    <2>2. QED
        BY <1>7, <1>8, <2>1 DEF Feasible, Observable, Checked, IsSlew, Overhead
<1>18. QED
    BY <1>11, <1>14, <1>17 DEF Sound

\* The inductive invariant behind Feasible.
THEOREM SchedulerSound == Spec => []Sound
<1>1. Init => Sound
    BY InitSound
<1>2. Sound /\ [Next]_vars => Sound'
    <2> SUFFICES ASSUME Sound, [Next]_vars
                 PROVE  Sound'
        OBVIOUS
    <2>1. CASE GreedyPlace
        BY <2>1, GreedyPlaceSound
    <2>2. CASE GreedyWait
        BY <2>2, GreedyWaitSound
    <2>3. CASE GreedyEnds
        BY <2>3, GreedyEndsSound
    <2>4. CASE SwapPair
        BY <2>4, SwapPairSound
    <2>5. CASE SwapSkips
        BY <2>5, SwapSkipsSound
    <2>6. CASE SwapEnds
        BY <2>6, SwapEndsSound
    <2>7. CASE Insert
        BY <2>7, InsertSound
    <2>8. CASE InsertSkips
        BY <2>8, InsertSkipsSound
    <2>9. CASE PassEnds
        BY <2>9, PassEndsSound
    <2>10. CASE UNCHANGED vars
        <3>1. TypeOK'
            BY <2>10 DEF Sound, TypeOK, vars
        <3>2. currentTime \in Nat
            BY DEF Sound, TypeOK
        <3>3. QED
            BY <2>10, <3>1, <3>2, StillSound DEF vars
    <2>11. QED
        BY <2>1, <2>2, <2>3, <2>4, <2>5, <2>6, <2>7, <2>8, <2>9, <2>10 DEF Next
<1>3. QED
    BY <1>1, <1>2, PTL DEF Spec

\* The schedule can be carried out, after every move of every pass: each
\* block lies in the window, is observable at every instant checked, and
\* starts no sooner than the telescope has slewed from the one before it,
\* which takes the setup time recorded.
THEOREM ScheduleFeasible == Spec => []Feasible
<1>1. Sound => Feasible
    BY DEF Sound
<1>2. QED
    BY <1>1, SchedulerSound, PTL

---------------------------------------------------------------------------
(* Nothing is left that fits. A pass that has changed nothing so far has   *)
(* tried what it keeps against the gaps there still are.                   *)

Fitting == {b \in Blocks : \E g \in Gaps : FitsGap(b, g)}

Searched ==
    /\ stage # "insert" => remaining = <<>>
    /\ stage = "insert" /\ ~improved =>
          \A k \in DOMAIN remaining : remaining[k] \notin Fitting
    /\ stage = "done" /\ idlePasses >= 2 =>
          \A k \in DOMAIN unscheduled : unscheduled[k] \notin Fitting

LEMMA SameFitting ==
    ASSUME UNCHANGED <<problem, blocks>>
    PROVE  Fitting' = Fitting
<1>1. Gaps' = Gaps
    BY DEF Gaps, PrevEnd
<1>2. \A b, g : FitsGap(b, g)' <=> FitsGap(b, g)
    BY DEF FitsGap, InsertStart, InsertSetup, ReachesNext, NextSetup, Observable, Checked,
           Overhead, PrevBlock
<1>3. QED
    BY <1>1, <1>2 DEF Fitting

LEMMA InsertSkipsSearched ==
    ASSUME Sound, Searched, InsertSkips
    PROVE  Searched'
<1> DEFINE b == Head(unscheduled)
<1>1. UNCHANGED <<problem, stage, blocks, improved, idlePasses>> /\ stage = "insert"
    BY DEF InsertSkips
<1>2. Fitting' = Fitting
    BY <1>1, SameFitting
<1>3. ASSUME ~improved, NEW k \in DOMAIN remaining'
      PROVE  remaining'[k] \notin Fitting
    <2>1. remaining \in Seq(Blocks) /\ unscheduled \in Seq(Blocks) /\ unscheduled # <<>>
        BY DEF Sound, TypeOK, InsertSkips
    <2>2. b \in Blocks
        BY <2>1, HeadTailProperties
    <2>3. b \notin Fitting
        BY DEF InsertSkips, Fitting
    <2>4. remaining' = Append(remaining, b)
        BY DEF InsertSkips
    <2> HIDE DEF b
    <2>5. /\ DOMAIN remaining = 1 .. Len(remaining)
          /\ DOMAIN remaining' = 1 .. Len(remaining) + 1
          /\ Len(remaining) \in Nat
          /\ \A i \in 1 .. Len(remaining) : remaining'[i] = remaining[i]
          /\ remaining'[Len(remaining) + 1] = b
        BY <2>1, <2>2, <2>4, AppendProperties, LenProperties
    <2>6. \A i \in DOMAIN remaining : remaining[i] \notin Fitting
        BY <1>1, <1>3 DEF Searched
    <2>7. QED
        BY <2>3, <2>5, <2>6
<1>4. QED
    BY <1>1, <1>2, <1>3 DEF Searched

LEMMA PassEndsSearched ==
    ASSUME Sound, Searched, PassEnds
    PROVE  Searched'
<1>1. UNCHANGED <<problem, blocks>> /\ unscheduled' = remaining /\ remaining' = <<>>
    BY DEF PassEnds
<1>2. stage' # "insert"
    BY DEF PassEnds
<1>3. Fitting' = Fitting
    BY <1>1, SameFitting
<1>4. ASSUME idlePasses' >= 2
      PROVE  \A k \in DOMAIN remaining : remaining[k] \notin Fitting
    <2>1. ~improved
        BY <1>4 DEF PassEnds
    <2>2. QED
        BY <2>1 DEF Searched, PassEnds
<1>5. QED
    BY <1>1, <1>2, <1>3, <1>4 DEF Searched

\* What an idle pass tried and could not place fits no gap, and what a
\* converged search leaves unscheduled fits none either: the inductive
\* invariant behind NothingLeftFits.
THEOREM SchedulerSearched == Spec => []Searched
<1>1. Init => Searched
    BY DEF Init, Searched
<1>2. Sound /\ Searched /\ [Next]_vars => Searched'
    <2> SUFFICES ASSUME Sound, Searched, [Next]_vars
                 PROVE  Searched'
        OBVIOUS
    <2>1. CASE GreedyPlace
        BY <2>1 DEF Searched, GreedyPlace, Searching, searchVars
    <2>2. CASE GreedyWait
        BY <2>2 DEF Searched, GreedyWait, Searching, searchVars
    <2>3. CASE GreedyEnds
        BY <2>3 DEF Searched, GreedyEnds, searchVars
    <2>4. CASE SwapPair
        BY <2>4 DEF Searched, SwapPair
    <2>5. CASE SwapSkips
        BY <2>5 DEF Searched, SwapSkips
    <2>6. CASE SwapEnds
        BY <2>6 DEF Searched, SwapEnds, searchVars
    <2>7. CASE Insert
        BY <2>7 DEF Searched, Insert
    <2>8. CASE InsertSkips
        BY <2>8, InsertSkipsSearched
    <2>9. CASE PassEnds
        BY <2>9, PassEndsSearched
    <2>10. CASE UNCHANGED vars
        <3>1. UNCHANGED <<problem, blocks, stage, improved, idlePasses, remaining,
                          unscheduled>>
            BY <2>10 DEF vars
        <3>2. Fitting' = Fitting
            BY <3>1, SameFitting
        <3>3. QED
            BY <3>1, <3>2 DEF Searched
    <2>11. QED
        BY <2>1, <2>2, <2>3, <2>4, <2>5, <2>6, <2>7, <2>8, <2>9, <2>10 DEF Next
<1>3. QED
    BY <1>1, <1>2, SchedulerSound, PTL DEF Spec

\* A block that could be begun as soon as the telescope gets there and be
\* done before the next has to be slewed to would fit the gap there.
LEMMA FitsIfRoom ==
    ASSUME Sound, NEW b \in Blocks, NEW i \in 1 .. Len(blocks) + 1,
           NEW start, start = PrevEnd(i) + Overhead(PrevBlock(i), b, PrevEnd(i), PrevEnd(i)),
           NEW end, end = start + problem.duration[b],
           Observable(b, start), end <= Horizon,
           ReachesNext(b, end, i)
    PROVE  \E g \in Gaps : FitsGap(b, g)
<1> DEFINE n == Len(blocks)
           g == [next |-> i, start |-> PrevEnd(i),
                 end |-> IF i > n THEN Horizon ELSE blocks[i].start]
<1>1. TypeOK /\ ProblemOK(problem)
    BY DEF Sound, TypeOK
<1>2. /\ n \in Nat /\ DOMAIN blocks = 1 .. n
      /\ PrevBlock(i) \in Blocks \cup {None} /\ PrevEnd(i) \in Nat
      /\ \A k \in 1 .. n : blocks[k].block \in Blocks /\ blocks[k].start \in Nat
    BY <1>1, BlocksTypes
<1>3. /\ Overhead(PrevBlock(i), b, PrevEnd(i), PrevEnd(i)) \in Nat
      /\ problem.duration[b] \in Nat \ {0}
    BY <1>1, <1>2, ProblemTypes
<1>4. start \in Nat /\ end \in Nat /\ PrevEnd(i) <= start /\ start < end
    BY <1>2, <1>3
<1>5. i <= n => /\ i \in 1 .. n /\ NextSetup(b, end, i) \in Nat
                /\ end + NextSetup(b, end, i) <= blocks[i].start
    BY <1>1, <1>2, <1>4, NextSetupTypes DEF ReachesNext
<1>6. end <= g.end /\ g.end \in Nat
    <2>1. CASE i > n
        BY <2>1, BoundsAssumption
    <2>2. CASE ~(i > n)
        <3>1. i <= n
            BY <1>2, <2>2
        <3>2. g.end = blocks[i].start
            BY <2>2
        <3>3. QED
            BY <1>2, <1>4, <1>5, <3>1, <3>2
    <2>3. QED
        BY <2>1, <2>2
<1>7. g.start = PrevEnd(i) /\ g.next = i
    OBVIOUS
<1>8. g \in Gaps
    <2>1. g.start < g.end
        BY <1>2, <1>4, <1>6
    <2>2. QED
        BY <2>1 DEF Gaps
<1> HIDE DEF g
<1>9. InsertStart(b, g) = start
    BY <1>7 DEF InsertStart, InsertSetup
<1>11. FitsGap(b, g)
    BY <1>6, <1>7, <1>9 DEF FitsGap
<1>12. QED
    BY <1>8, <1>11

\* A search that stopped because it converged reports a block as not
\* scheduled only if it fits neither before the first block, nor between
\* two, nor after the last.
THEOREM ScheduleNothingLeftFits == Spec => []NothingLeftFits
<1>1. Sound /\ Searched => NothingLeftFits
    <2> SUFFICES ASSUME Sound, Searched, stage = "done", idlePasses >= 2,
                        NEW k \in DOMAIN unscheduled,
                        NEW i \in 1 .. (Len(blocks) + 1)
                 PROVE  LET b == unscheduled[k]
                            start == PrevEnd(i)
                                       + Overhead(PrevBlock(i), b, PrevEnd(i), PrevEnd(i))
                            end == start + problem.duration[b]
                        IN  \/ ~Observable(b, start)
                            \/ end > Horizon
                            \/ ~ReachesNext(b, end, i)
        BY DEF NothingLeftFits
    <2> DEFINE b == unscheduled[k]
               slew == Overhead(PrevBlock(i), b, PrevEnd(i), PrevEnd(i))
               start == PrevEnd(i) + slew
               end == start + problem.duration[b]
    <2>1. TypeOK /\ ProblemOK(problem) /\ unscheduled \in Seq(Blocks)
        BY DEF Sound, TypeOK
    <2>2. b \in Blocks
        BY <2>1, LenProperties
    <2>3. PrevBlock(i) \in Blocks \cup {None} /\ PrevEnd(i) \in Nat
        BY <2>1, BlocksTypes
    <2>4. slew \in Nat /\ problem.duration[b] \in Nat
        BY <2>1, <2>2, <2>3, ProblemTypes
    <2>5. end \in Nat
        BY <2>3, <2>4
    <2>6. \A g \in Gaps : ~FitsGap(b, g)
        BY <2>2 DEF Searched, Fitting
    <2> HIDE DEF b, start, end
    <2>7. ~(Observable(b, start) /\ end <= Horizon /\ ReachesNext(b, end, i))
        BY <2>2, <2>6, FitsIfRoom DEF start, end
    <2>8. \/ ~Observable(b, start)
          \/ end > Horizon
          \/ ~ReachesNext(b, end, i)
        BY <2>5, <2>7, BoundsAssumption
    <2>9. QED
        BY <2>8 DEF b, start, end
<1>2. QED
    BY <1>1, SchedulerSound, SchedulerSearched, PTL

---------------------------------------------------------------------------
(* The score of a schedule. Total adds it up by recursion over the places; *)
(* what is known of that function is had by looking at the first place     *)
(* where it could fail.                                                    *)

Sums(s) ==
    CHOOSE f : f = [i \in 0 .. Len(s) |->
                      IF i = 0 THEN 0 ELSE f[i - 1] + s[i].score]

Adds(f, s, n) ==
    /\ f \in [0 .. n -> Int]
    /\ f[0] = 0
    /\ \A i \in 1 .. n : f[i] = f[i - 1] + s[i].score

LEMMA ScoresTypes ==
    ASSUME NEW s \in Seq(Slots)
    PROVE  Len(s) \in Nat /\ \A i \in 1 .. Len(s) : s[i].score \in Int
<1>1. Len(s) \in Nat /\ \A i \in 1 .. Len(s) : s[i] \in Slots
    BY LenProperties
<1>2. QED
    BY <1>1 DEF Slots

LEMMA SumsAdd ==
    ASSUME NEW s \in Seq(Slots)
    PROVE  Adds(Sums(s), s, Len(s))
<1> DEFINE N == Len(s)
           Bad == {n \in 0 .. N : ~ \E f : Adds(f, s, n)}
<1>1. N \in Nat /\ \A i \in 1 .. N : s[i].score \in Int
    BY ScoresTypes
<1>2. Bad = {}
    <2> SUFFICES ASSUME Bad # {}
                 PROVE  FALSE
        OBVIOUS
    <2>1. Bad \in SUBSET Nat
        BY <1>1
    <2>2. PICK n \in Bad : \A m \in Bad : n <= m
        BY <2>1, LeastNat
    <2>3. n \in 0 .. N /\ n \in Nat
        BY <1>1, <2>2
    <2>4. ASSUME n = 0
          PROVE  FALSE
        <3> DEFINE f == [i \in 0 .. 0 |-> 0]
        <3>1. Adds(f, s, 0)
            BY DEF Adds
        <3>2. QED
            BY <2>2, <2>4, <3>1
    <2>5. ASSUME n # 0
          PROVE  FALSE
        <3>1. n - 1 \in 0 .. N /\ n \in 1 .. N /\ ~(n <= n - 1)
            BY <1>1, <2>3, <2>5
        <3>2. PICK f : Adds(f, s, n - 1)
            BY <2>2, <3>1
        <3> DEFINE g == [i \in 0 .. n |-> IF i = n THEN f[n - 1] + s[n].score ELSE f[i]]
        <3>3. f[n - 1] \in Int /\ s[n].score \in Int
            BY <1>1, <2>3, <3>1, <3>2 DEF Adds
        <3>4. g \in [0 .. n -> Int]
            BY <2>3, <3>2, <3>3 DEF Adds
        <3>5. g[0] = 0
            BY <2>3, <2>5, <3>2 DEF Adds
        <3>6. ASSUME NEW i \in 1 .. n
              PROVE  g[i] = g[i - 1] + s[i].score
            <4>1. i - 1 \in 0 .. n /\ i \in 0 .. n /\ i - 1 # n
                BY <2>3
            <4>2. CASE i = n
                BY <4>1, <4>2
            <4>3. CASE i # n
                <5>1. i \in 1 .. n - 1
                    BY <2>3, <4>3
                <5>2. f[i] = f[i - 1] + s[i].score
                    BY <3>2, <5>1 DEF Adds
                <5>3. QED
                    BY <4>1, <4>3, <5>2
            <4>4. QED
                BY <4>2, <4>3
        <3>7. Adds(g, s, n)
            BY <3>4, <3>5, <3>6 DEF Adds
        <3>8. QED
            BY <2>2, <3>7
    <2>6. QED
        BY <2>4, <2>5
<1>3. PICK f : Adds(f, s, N)
    BY <1>1, <1>2
<1>4. f = [i \in 0 .. N |-> IF i = 0 THEN 0 ELSE f[i - 1] + s[i].score]
    <2>1. f = [i \in 0 .. N |-> f[i]]
        BY <1>3 DEF Adds
    <2>2. \A i \in 0 .. N : f[i] = IF i = 0 THEN 0 ELSE f[i - 1] + s[i].score
        BY <1>1, <1>3 DEF Adds
    <2>3. QED
        BY <2>1, <2>2
<1> DEFINE S == Sums(s)
<1>5. S = [i \in 0 .. N |-> IF i = 0 THEN 0 ELSE S[i - 1] + s[i].score]
    BY <1>4, Zenon DEF Sums
<1> HIDE DEF S
<1>6. S = f
    <2> DEFINE Apart == {i \in 0 .. N : S[i] # f[i]}
    <2>1. Apart = {}
        <3> SUFFICES ASSUME Apart # {}
                     PROVE  FALSE
            OBVIOUS
        <3>1. Apart \in SUBSET Nat
            BY <1>1
        <3>2. PICK n \in Apart : \A m \in Apart : n <= m
            BY <3>1, LeastNat
        <3>3. n \in 0 .. N /\ S[n] # f[n]
            BY <3>2
        <3>4. n # 0
            BY <1>1, <1>3, <1>5, <3>3 DEF Adds
        <3>5. n - 1 \in 0 .. N /\ ~(n <= n - 1) /\ n \in 1 .. N
            BY <1>1, <3>3, <3>4
        <3>6. S[n - 1] = f[n - 1]
            BY <3>2, <3>5
        <3>7. S[n] = S[n - 1] + s[n].score
            BY <1>5, <3>3, <3>4
        <3>8. f[n] = f[n - 1] + s[n].score
            BY <1>3, <3>5 DEF Adds
        <3>9. QED
            BY <3>3, <3>6, <3>7, <3>8
    <2>2. \A i \in 0 .. N : S[i] = f[i]
        BY <2>1
    <2>3. f = [i \in 0 .. N |-> f[i]]
        BY <1>3 DEF Adds
    <2>4. S = [i \in 0 .. N |-> S[i]]
        BY <1>5
    <2>5. QED
        BY <2>2, <2>3, <2>4
<1>7. QED
    BY <1>3, <1>6 DEF S

\* Two neighbours that together score no less make a schedule that scores no
\* less.
LEMMA SwapAdds ==
    ASSUME NEW s \in Seq(Slots), NEW t \in Seq(Slots), Len(t) = Len(s),
           NEW k \in 1 .. Len(s), k + 1 \in 1 .. Len(s),
           t[k].score + t[k + 1].score >= s[k].score + s[k + 1].score,
           \A i \in 1 .. Len(s) : i # k /\ i # k + 1 => t[i].score = s[i].score
    PROVE  Sums(t)[Len(t)] >= Sums(s)[Len(s)]
<1> DEFINE N == Len(s)
           f == Sums(s)
           g == Sums(t)
           Bad == {m \in 0 .. N : m # k /\ ~(g[m] >= f[m])}
<1>1. /\ N \in Nat
      /\ \A i \in 1 .. N : s[i].score \in Int /\ t[i].score \in Int
    BY ScoresTypes
<1>2. Adds(f, s, N) /\ Adds(g, t, N)
    BY SumsAdd
<1> HIDE DEF f, g
<1>3. /\ \A i \in 0 .. N : f[i] \in Int /\ g[i] \in Int
      /\ f[0] = 0 /\ g[0] = 0
      /\ \A i \in 1 .. N : f[i] = f[i - 1] + s[i].score /\ g[i] = g[i - 1] + t[i].score
    BY <1>2 DEF Adds
<1>4. Bad = {}
    <2> SUFFICES ASSUME Bad # {}
                 PROVE  FALSE
        OBVIOUS
    <2>1. Bad \in SUBSET Nat
        BY <1>1
    <2>2. PICK m \in Bad : \A i \in Bad : m <= i
        BY <2>1, LeastNat
    <2>3. m \in 0 .. N /\ m # k /\ ~(g[m] >= f[m])
        BY <2>2
    <2>4. m # 0
        BY <1>3, <2>3
    <2>5. m \in 1 .. N /\ m - 1 \in 0 .. N
        BY <1>1, <2>3, <2>4
    <2>6. CASE m = k + 1
        <3>1. k - 1 \in 0 .. N /\ k - 1 # k /\ ~(m <= k - 1) /\ k \in 0 .. N /\ k + 1 \in 0 .. N
              /\ k + 1 - 1 = k
            BY <1>1, <2>6
        <3>2. g[k - 1] >= f[k - 1]
            BY <2>2, <3>1
        <3>3. /\ f[k] = f[k - 1] + s[k].score /\ f[k + 1] = f[k] + s[k + 1].score
              /\ g[k] = g[k - 1] + t[k].score /\ g[k + 1] = g[k] + t[k + 1].score
            BY <1>3, <3>1
        <3>4. /\ f[k - 1] \in Int /\ g[k - 1] \in Int
              /\ s[k].score \in Int /\ s[k + 1].score \in Int
              /\ t[k].score \in Int /\ t[k + 1].score \in Int
            BY <1>1, <1>3, <3>1
        <3> DEFINE a == s[k].score
                   b == s[k + 1].score
                   c == t[k].score
                   d == t[k + 1].score
        <3>5. c + d >= a + b
            OBVIOUS
        <3>6. /\ f[k] = f[k - 1] + a /\ f[k + 1] = f[k] + b
              /\ g[k] = g[k - 1] + c /\ g[k + 1] = g[k] + d
            BY <3>3
        <3>7. a \in Int /\ b \in Int /\ c \in Int /\ d \in Int
            BY <3>4
        <3> HIDE DEF a, b, c, d
        <3>8. g[k + 1] >= f[k + 1]
            BY SMTT(20), <3>2, <3>4, <3>5, <3>6, <3>7
        <3>9. QED
            BY <2>3, <2>6, <3>8
    <2>7. CASE m # k + 1
        <3>1. m - 1 # k /\ ~(m <= m - 1)
            BY <1>1, <2>5, <2>7
        <3>2. g[m - 1] >= f[m - 1]
            BY <2>2, <2>5, <3>1
        <3>3. t[m].score = s[m].score
            BY <2>3, <2>5, <2>7
        <3>4. f[m] = f[m - 1] + s[m].score /\ g[m] = g[m - 1] + t[m].score
            BY <1>3, <2>5
        <3>5. f[m - 1] \in Int /\ g[m - 1] \in Int /\ s[m].score \in Int
            BY <1>1, <1>3, <2>5
        <3>6. QED
            BY <2>3, <3>2, <3>3, <3>4, <3>5
    <2>8. QED
        BY <2>6, <2>7
<1>5. N \in 0 .. N /\ N # k
    BY <1>1
<1>6. QED
    BY <1>4, <1>5 DEF f, g

\* One with a block more scores that much more.
LEMMA InsertAdds ==
    ASSUME NEW s \in Seq(Slots), NEW t \in Seq(Slots), Len(t) = Len(s) + 1,
           NEW k \in 1 .. Len(t),
           \A i \in 1 .. Len(s) : t[IF i < k THEN i ELSE i + 1].score = s[i].score
    PROVE  Sums(t)[Len(t)] = Sums(s)[Len(s)] + t[k].score
<1> DEFINE N == Len(s)
           f == Sums(s)
           g == Sums(t)
           more == t[k].score
           Kept(m) == /\ m < k => g[m] = f[m]
                      /\ m >= k - 1 => g[m + 1] = f[m] + more
           Bad == {m \in 0 .. N : ~Kept(m)}
<1>1. /\ N \in Nat
      /\ \A i \in 1 .. N : s[i].score \in Int
      /\ \A i \in 1 .. N + 1 : t[i].score \in Int
    BY ScoresTypes
<1>2. Adds(f, s, N) /\ Adds(g, t, N + 1)
    BY SumsAdd
<1> HIDE DEF f, g
<1>3. /\ \A i \in 0 .. N : f[i] \in Int
      /\ \A i \in 0 .. N + 1 : g[i] \in Int
      /\ f[0] = 0 /\ g[0] = 0
      /\ \A i \in 1 .. N : f[i] = f[i - 1] + s[i].score
      /\ \A i \in 1 .. N + 1 : g[i] = g[i - 1] + t[i].score
    BY <1>2 DEF Adds
<1>4. Bad = {}
    <2> SUFFICES ASSUME Bad # {}
                 PROVE  FALSE
        OBVIOUS
    <2> HIDE DEF Kept
    <2>1. Bad \in SUBSET Nat
        BY <1>1
    <2>2. PICK m \in Bad : \A i \in Bad : m <= i
        BY <2>1, LeastNat
    <2>3. m \in 0 .. N /\ ~Kept(m)
        BY <2>2
    <2>4. m + 1 \in 1 .. N + 1 /\ m + 1 - 1 = m /\ m \in 0 .. N + 1
        BY <1>1, <2>3
    <2>5. g[m + 1] = g[m] + t[m + 1].score /\ g[m] \in Int /\ t[m + 1].score \in Int
        BY <1>1, <1>3, <2>4
    <2>6. f[m] \in Int
        BY <1>3, <2>3
    <2>7. m < k => g[m] = f[m]
        <3> SUFFICES ASSUME m < k
                     PROVE  g[m] = f[m]
            OBVIOUS
        <3>1. CASE m = 0
            BY <1>3, <3>1
        <3>2. CASE m # 0
            <4>1. m \in 1 .. N /\ m \in 1 .. N + 1 /\ m - 1 \in 0 .. N
                  /\ m - 1 < k /\ ~(m <= m - 1)
                BY <1>1, <2>3, <3>2
            <4>2. Kept(m - 1)
                BY <2>2, <4>1
            <4>3. g[m - 1] = f[m - 1]
                BY <4>1, <4>2 DEF Kept
            <4>4. t[m].score = s[m].score
                BY <4>1
            <4>5. f[m] = f[m - 1] + s[m].score /\ g[m] = g[m - 1] + t[m].score
                BY <1>3, <4>1
            <4>6. f[m - 1] \in Int /\ g[m - 1] \in Int /\ s[m].score \in Int
                BY <1>1, <1>3, <4>1
            <4>7. QED
                BY <4>3, <4>4, <4>5, <4>6
        <3>3. QED
            BY <3>1, <3>2
    <2>8. m >= k - 1 => g[m + 1] = f[m] + more
        <3> SUFFICES ASSUME m >= k - 1
                     PROVE  g[m + 1] = f[m] + more
            OBVIOUS
        <3>1. CASE m < k
            <4>1. m + 1 = k
                BY <1>1, <2>3, <3>1
            <4>2. t[m + 1].score = more
                BY <4>1
            <4> HIDE DEF more
            <4>3. QED
                BY <2>5, <2>7, <3>1, <4>2
        <3>2. CASE ~(m < k)
            <4>1. m \in 1 .. N /\ m - 1 \in 0 .. N /\ m - 1 >= k - 1 /\ ~(m <= m - 1)
                  /\ m - 1 + 1 = m
                BY <1>1, <2>3, <3>2
            <4>2. Kept(m - 1)
                BY <2>2, <4>1
            <4>3. g[m] = f[m - 1] + more
                BY <4>1, <4>2 DEF Kept
            <4>4. t[m + 1].score = s[m].score
                BY <3>2, <4>1
            <4>5. f[m] = f[m - 1] + s[m].score
                BY <1>3, <4>1
            <4>6. f[m - 1] \in Int /\ s[m].score \in Int
                BY <1>1, <1>3, <4>1
            <4>7. more \in Int
                BY <1>1
            <4> HIDE DEF more
            <4>8. QED
                BY <2>5, <4>3, <4>4, <4>5, <4>6, <4>7
        <3>3. QED
            BY <3>1, <3>2
    <2>9. QED
        BY <2>3, <2>7, <2>8 DEF Kept
<1>5. N \in 0 .. N /\ N >= k - 1
    BY <1>1
<1>6. Kept(N)
    <2> HIDE DEF Kept
    <2>1. QED
        BY <1>4, <1>5
<1>7. QED
    BY <1>5, <1>6 DEF f, g

LEMMA SumTypes ==
    ASSUME NEW s \in Seq(Slots)
    PROVE  Sums(s)[Len(s)] \in Int
<1>1. Len(s) \in Nat /\ Adds(Sums(s), s, Len(s))
    BY SumsAdd, LenProperties
<1>2. QED
    BY <1>1 DEF Adds

LEMMA SwapScore ==
    ASSUME Sound, SwapPair
    PROVE  Sums(blocks')[Len(blocks')] >= Sums(blocks)[Len(blocks)]
<1>1. PICK X \in Slots, Y \in Slots :
         /\ at + 1 \in 1 .. Len(blocks)
         /\ X = Swapped(at)[1] /\ Y = Swapped(at)[2]
         /\ Y.block = blocks[at].block
         /\ blocks' = SetSetup([blocks EXCEPT ![at] = X, ![at + 1] = Y],
                               at + 2, NextSetup(blocks[at].block, Y.end, at + 2))
    BY SwapEffect
<1>2. blocks \in Seq(Slots) /\ at \in Nat \ {0}
    BY DEF Sound, TypeOK
<1>3. /\ blocks' \in Seq(Slots)
      /\ Len(blocks') = Len(blocks)
      /\ \A i \in 1 .. Len(blocks) :
            LET s == IF i = at THEN X ELSE IF i = at + 1 THEN Y ELSE blocks[i]
            IN  /\ blocks'[i].block = s.block
                /\ blocks'[i].start = s.start
                /\ blocks'[i].end = s.end
                /\ blocks'[i].score = s.score
                /\ blocks'[i].setup =
                     IF i = at + 2
                     THEN Overhead(Y.block, blocks[i].block, Y.end, blocks[i].start)
                     ELSE s.setup
    BY <1>1, SwapPlaces
<1>4. at \in 1 .. Len(blocks) /\ at + 1 # at
    BY <1>1, <1>2, LenProperties
<1>5. X.score + Y.score >= blocks[at].score + blocks[at + 1].score
    BY <1>1 DEF SwapPair, Swaps, NoWorse
<1>6. blocks'[at].score = X.score /\ blocks'[at + 1].score = Y.score
    BY <1>1, <1>3, <1>4
<1>7. \A i \in 1 .. Len(blocks) :
         i # at /\ i # at + 1 => blocks'[i].score = blocks[i].score
    BY <1>3
<1>8. blocks'[at].score + blocks'[at + 1].score >= blocks[at].score + blocks[at + 1].score
    BY <1>5, <1>6
<1>9. QED
    BY <1>1, <1>2, <1>3, <1>4, <1>7, <1>8, SwapAdds

LEMMA InsertScore ==
    ASSUME Sound, Insert
    PROVE  \E k \in DOMAIN blocks' :
              Sums(blocks')[Len(blocks')] = Sums(blocks)[Len(blocks)] + blocks'[k].score
<1> DEFINE n == Len(blocks)
           b == Head(unscheduled)
<1>1. PICK k \in 1 .. n + 1, P \in Slots :
         /\ P.block = b
         /\ IsSlew(P.setup, PrevBlock(k), b, PrevEnd(k), P.start)
         /\ P.start = PrevEnd(k) + P.setup
         /\ P.end = P.start + problem.duration[b]
         /\ k <= n => P.end + NextSetup(b, P.end, k) <= blocks[k].start
         /\ blocks' = ByStart(ToSet(SetSetup(blocks, k, NextSetup(b, P.end, k))) \cup {P})
    BY InsertEffect
<1>2. TypeOK /\ ProblemOK(problem) /\ blocks \in Seq(Slots)
    BY DEF Sound, TypeOK
<1>3. /\ n \in Nat /\ PrevEnd(k) \in Nat
      /\ \A i \in 1 .. n : blocks[i].block \in Blocks /\ blocks[i].start \in Nat
    BY <1>2, BlocksTypes
<1>4. P.start \in Nat /\ P.end \in Nat /\ P.setup \in Nat /\ P.block \in Blocks
    BY DEF Slots
<1>5. k <= n => NextSetup(P.block, P.end, k) \in Nat /\ k \in 1 .. n
    <2>1. NextSetup(P.block, P.end, k) \in Nat
        BY <1>2, <1>4, NextSetupTypes
    <2>2. QED
        BY <1>3, <2>1
<1>6. PrevEnd(k) <= P.start /\ (k <= n => P.end <= blocks[k].start)
    BY <1>1, <1>3, <1>4, <1>5
<1> DEFINE t == ByStart(ToSet(SetSetup(blocks, k, NextSetup(P.block, P.end, k))) \cup {P})
<1>7. blocks' = t /\ P.end = P.start + problem.duration[P.block]
    BY <1>1
<1>8. /\ t \in Seq(Slots)
      /\ Len(t) = n + 1
      /\ DOMAIN t = 1 .. n + 1
      /\ t[k] = P
      /\ \A i \in 1 .. n :
            LET m == IF i < k THEN i ELSE i + 1
            IN  /\ t[m].block = blocks[i].block
                /\ t[m].start = blocks[i].start
                /\ t[m].end = blocks[i].end
                /\ t[m].score = blocks[i].score
                /\ t[m].setup = IF i = k THEN NextSetup(P.block, P.end, k)
                                ELSE blocks[i].setup
      /\ \A i, j \in 1 .. n + 1 : i < j => t[i].end <= t[j].start
    BY <1>6, <1>7, InsertPlaces
<1> HIDE DEF t
<1>9. k \in 1 .. Len(t)
    BY <1>8
<1>10. Sums(t)[Len(t)] = Sums(blocks)[n] + t[k].score
    BY <1>2, <1>8, <1>9, InsertAdds
<1>11. QED
    BY <1>7, <1>8, <1>10

\* Where scores are not negative no swap or insertion lowers the score of the
\* schedule, each block being scored where it now stands; and what does lower
\* it is the insertion of a block whose own score is negative, by that score.
THEOREM ScheduleScoreNeverFalls == Spec => ScoreNeverFalls
<1>1. Sound /\ Sound' /\ [Next]_vars =>
        [/\ stage # "greedy" /\ Total' < Total =>
              /\ stage = "insert"
              /\ \E i \in DOMAIN blocks' :
                   blocks'[i].score < 0 /\ Total' = Total + blocks'[i].score
         /\ \A i \in DOMAIN blocks' :
              blocks'[i].score = problem.score[blocks'[i].block][blocks'[i].start]
        ]_vars
    <2> DEFINE old == Sums(blocks)[Len(blocks)]
               new == Sums(blocks')[Len(blocks')]
    <2> SUFFICES ASSUME Sound, Sound', Next
                 PROVE  /\ stage # "greedy" /\ Total' < Total =>
                              /\ stage = "insert"
                              /\ \E i \in DOMAIN blocks' :
                                    /\ blocks'[i].score < 0
                                    /\ Total' = Total + blocks'[i].score
                        /\ \A i \in DOMAIN blocks' :
                              blocks'[i].score
                                = problem.score[blocks'[i].block][blocks'[i].start]
        OBVIOUS
    <2>1. Total = old /\ Total' = new
        BY Zenon DEF Total, Sums
    <2>2. UNCHANGED problem
        BY DEF Next, GreedyPlace, GreedyWait, GreedyEnds, SwapPair, SwapSkips, SwapEnds,
               Insert, InsertSkips, PassEnds
    <2>3. old \in Int /\ new \in Int
        BY SumTypes DEF Sound, TypeOK
    <2>4. \A i \in DOMAIN blocks' : blocks'[i].score \in Int
        <3>1. blocks' \in Seq(Slots)
            BY DEF Sound, TypeOK
        <3>2. QED
            BY <3>1, ScoresTypes, LenProperties
    <2> HIDE DEF old, new
    <2>5. ASSUME stage # "greedy", new < old
          PROVE  /\ stage = "insert"
                 /\ \E i \in DOMAIN blocks' :
                       blocks'[i].score < 0 /\ new = old + blocks'[i].score
        <3>1. CASE SwapPair
            BY <2>3, <2>5, <3>1, SwapScore DEF old, new
        <3>2. CASE Insert
            <4>1. PICK i \in DOMAIN blocks' : new = old + blocks'[i].score
                BY <3>2, InsertScore DEF old, new
            <4>2. blocks'[i].score < 0
                BY <2>3, <2>4, <2>5, <4>1
            <4>3. stage = "insert"
                BY <3>2 DEF Insert
            <4>4. QED
                BY <4>1, <4>2, <4>3
        <3>3. CASE UNCHANGED blocks
            BY <2>3, <2>5, <3>3 DEF old, new
        <3>4. QED
            BY <2>5, <3>1, <3>2, <3>3
               DEF Next, GreedyPlace, GreedyWait, GreedyEnds, SwapSkips, SwapEnds,
                   InsertSkips, PassEnds, Searching
    <2>6. \A i \in DOMAIN blocks' :
             blocks'[i].score = problem.score[blocks'[i].block][blocks'[i].start]
        BY <2>2 DEF Sound, Timed
    <2>7. QED
        BY <2>1, <2>5, <2>6
<1>2. QED
    BY <1>1, SchedulerSound, PTL DEF Spec, ScoreNeverFalls

---------------------------------------------------------------------------
(* No block is lost or doubled. How often a block occurs in a list is      *)
(* counted as the number of its places, so it matters what a change of the *)
(* list does to the places.                                                *)

\* h takes the places in A to those in B, and no others to them.
Carries(h, D, E, A, B) ==
    /\ A \in SUBSET D
    /\ B \in SUBSET E
    /\ \A i \in D : i \in A <=> h[i] \in B

\* Listed in another order, as often.
LEMMA SameCount ==
    ASSUME NEW D, NEW E, IsFiniteSet(D), NEW h \in Bijection(D, E),
           NEW A, NEW B, Carries(h, D, E, A, B)
    PROVE  Cardinality(B) = Cardinality(A)
<1> DEFINE g == [i \in A |-> h[i]]
<1>1. IsFiniteSet(A)
    BY FS_Subset DEF Carries
<1>2. /\ h \in [D -> E]
      /\ \A i, j \in D : h[i] = h[j] => i = j
      /\ \A e \in E : \E i \in D : h[i] = e
    BY DEF Bijection, Injection, IsInjective, Surjection
<1>3. g \in [A -> B] /\ \A i, j \in A : g[i] = g[j] => i = j
    BY <1>2 DEF Carries
<1>4. \A e \in B : \E i \in A : g[i] = e
    BY <1>2 DEF Carries
<1> HIDE DEF g
<1>5. g \in Bijection(A, B)
    BY <1>3, <1>4 DEF Bijection, Injection, IsInjective, Surjection
<1>6. QED
    BY <1>1, <1>5, FS_Bijection DEF ExistsBijection

\* What is at the n places of A is at those of B when there is one more
\* place, k, that what was there and after it makes room for.
Widens(n, k, A, B) ==
    /\ A \in SUBSET (1 .. n)
    /\ B \in SUBSET (1 .. n + 1)
    /\ \A i \in 1 .. n : i \in A <=> (IF i < k THEN i ELSE i + 1) \in B

\* With one more at place k, as often or once more.
LEMMA OneMore ==
    ASSUME NEW n \in Nat, NEW k \in 1 .. n + 1, NEW A, NEW B, Widens(n, k, A, B)
    PROVE  /\ Cardinality(A) \in Nat
           /\ Cardinality(B) = Cardinality(A) + IF k \in B THEN 1 ELSE 0
<1> DEFINE h == [i \in 1 .. n |-> IF i < k THEN i ELSE i + 1]
           E == (1 .. n + 1) \ {k}
           C == B \ {k}
<1>1. IsFiniteSet(1 .. n) /\ IsFiniteSet(1 .. n + 1)
    BY FS_Interval
<1>2. /\ A \in SUBSET (1 .. n) /\ B \in SUBSET (1 .. n + 1)
       /\ \A i \in 1 .. n : i \in A <=> (IF i < k THEN i ELSE i + 1) \in B
    BY DEF Widens
<1>3. IsFiniteSet(A) /\ IsFiniteSet(B) /\ IsFiniteSet(C)
    BY <1>1, <1>2, FS_Subset
<1>4. Cardinality(A) \in Nat /\ Cardinality(B) \in Nat /\ Cardinality(C) \in Nat
    BY <1>3, FS_CardinalityType
<1>5. h \in Bijection(1 .. n, E)
    <2>1. h \in [1 .. n -> E]
        OBVIOUS
    <2>2. \A i, j \in 1 .. n : h[i] = h[j] => i = j
        OBVIOUS
    <2>3. ASSUME NEW e \in E
          PROVE  \E i \in 1 .. n : h[i] = e
        <3>1. CASE e < k
            <4>1. e \in 1 .. n /\ h[e] = e
                BY <3>1
            <4>2. QED
                BY <4>1
        <3>2. CASE ~(e < k)
            <4>1. e - 1 \in 1 .. n /\ h[e - 1] = e
                BY <3>2
            <4>2. QED
                BY <4>1
        <3>3. QED
            BY <3>1, <3>2
    <2> HIDE DEF h, E
    <2>4. QED
        BY <2>1, <2>2, <2>3 DEF Bijection, Injection, IsInjective, Surjection
<1>6. \A i \in 1 .. n : i \in A <=> h[i] \in C
    BY <1>2
<1>7. C \in SUBSET E
    BY <1>2
<1> HIDE DEF h, E, C
<1> DEFINE D == 1 .. n
<1>8. IsFiniteSet(D) /\ h \in Bijection(D, E) /\ Carries(h, D, E, A, C)
    BY <1>1, <1>5, <1>6, <1>7, <1>2 DEF Carries
<1> HIDE DEF D
<1>9. Cardinality(C) = Cardinality(A)
    BY <1>8, SameCount
<1>10. Cardinality(C) = IF k \in B THEN Cardinality(B) - 1 ELSE Cardinality(B)
    BY <1>3, FS_RemoveElement DEF C
<1>11. QED
    BY <1>4, <1>9, <1>10

\* The list of blocks as given names none twice.
ListedOnce(p) ==
    \A i, j \in DOMAIN p.order : p.order[i] = p.order[j] => i = j

\* While the greedy search goes on: its items are of different blocks; the
\* observations a block has had and its repeats to come, beside the one its
\* item stands for, are all it may have; and a block without an item has had
\* them all.
Distinct ==
    \A j, k \in DOMAIN unassigned :
        unassigned[j].block = unassigned[k].block => j = k
Owing ==
    \A b \in Blocks, k \in DOMAIN unassigned :
        unassigned[k].block = b => Times(b) + unassigned[k].rem = problem.repeats[b]
Covered ==
    \A b \in ToSet(problem.order) :
        \/ \E k \in DOMAIN unassigned : unassigned[k].block = b
        \/ Times(b) = 1 + problem.repeats[b]

\* Afterwards: a block that can be observed once more is pending, once, or it
\* has been observed and is not pending.
Settled(b) ==
    \/ Pending(b) = 1 /\ Times(b) <= problem.repeats[b]
    \/ Pending(b) = 0 /\ Times(b) \in 1 .. 1 + problem.repeats[b]

Accounted ==
    /\ stage = "greedy" => /\ Distinct /\ Owing /\ Covered
                           /\ unscheduled = <<>> /\ remaining = <<>>
    /\ stage # "greedy" => /\ unassigned = <<>>
                           /\ \A b \in ToSet(problem.order) : Settled(b)

\* The places of b in the four lists.
Placed(b) == {i \in DOMAIN blocks : blocks[i].block = b}
Waiting(b) == {i \in DOMAIN unassigned : unassigned[i].block = b}
Untried(b) == {i \in DOMAIN unscheduled : unscheduled[i] = b}
Tried(b) == {i \in DOMAIN remaining : remaining[i] = b}

LEMMA CountTypes ==
    ASSUME TypeOK, NEW b
    PROVE  /\ Placed(b) \in SUBSET (1 .. Len(blocks)) /\ Len(blocks) \in Nat
           /\ Waiting(b) \in SUBSET (1 .. Len(unassigned)) /\ Len(unassigned) \in Nat
           /\ Untried(b) \in SUBSET (1 .. Len(unscheduled)) /\ Len(unscheduled) \in Nat
           /\ Tried(b) \in SUBSET (1 .. Len(remaining)) /\ Len(remaining) \in Nat
           /\ IsFiniteSet(Placed(b)) /\ Cardinality(Placed(b)) \in Nat
           /\ IsFiniteSet(Waiting(b)) /\ Cardinality(Waiting(b)) \in Nat
           /\ IsFiniteSet(Untried(b)) /\ Cardinality(Untried(b)) \in Nat
           /\ IsFiniteSet(Tried(b)) /\ Cardinality(Tried(b)) \in Nat
<1>1. /\ Len(blocks) \in Nat /\ DOMAIN blocks = 1 .. Len(blocks)
      /\ Len(unassigned) \in Nat /\ DOMAIN unassigned = 1 .. Len(unassigned)
      /\ Len(unscheduled) \in Nat /\ DOMAIN unscheduled = 1 .. Len(unscheduled)
      /\ Len(remaining) \in Nat /\ DOMAIN remaining = 1 .. Len(remaining)
    BY LenProperties DEF TypeOK
<1>2. /\ Placed(b) \in SUBSET (1 .. Len(blocks))
      /\ Waiting(b) \in SUBSET (1 .. Len(unassigned))
      /\ Untried(b) \in SUBSET (1 .. Len(unscheduled))
      /\ Tried(b) \in SUBSET (1 .. Len(remaining))
    BY <1>1 DEF Placed, Waiting, Untried, Tried
<1>3. \A n \in Nat : IsFiniteSet(1 .. n)
    BY FS_Interval
<1>4. /\ IsFiniteSet(Placed(b)) /\ IsFiniteSet(Waiting(b))
      /\ IsFiniteSet(Untried(b)) /\ IsFiniteSet(Tried(b))
    BY <1>1, <1>2, <1>3, FS_Subset
<1>5. QED
    BY <1>1, <1>2, <1>4, FS_CardinalityType

LEMMA CountsAre ==
    \A b : /\ Times(b) = Cardinality(Placed(b))
           /\ Pending(b) = Cardinality(Waiting(b)) + Cardinality(Untried(b))
                             + Cardinality(Tried(b))
BY DEF Times, Pending, Placed, Waiting, Untried, Tried

LEMMA OrderBlocks ==
    ASSUME ProblemOK(problem), NEW b \in ToSet(problem.order)
    PROVE  b \in Blocks /\ problem.repeats[b] \in Nat
<1>1. problem.order \in Seq(Blocks)
    BY DEF ProblemOK
<1>2. PICK i \in DOMAIN problem.order : problem.order[i] = b
    BY DEF ToSet
<1>3. b \in Blocks
    BY <1>1, <1>2, LenProperties
<1>4. QED
    BY <1>3, ProblemTypes

\* What is true of the counts of a block while the greedy search goes on.
LEMMA GreedyCounts ==
    ASSUME TypeOK, Accounted, stage = "greedy", NEW b \in ToSet(problem.order)
    PROVE  /\ Cardinality(Untried(b)) = 0 /\ Cardinality(Tried(b)) = 0
           /\ \/ Cardinality(Waiting(b)) = 1 /\ Times(b) <= problem.repeats[b]
              \/ Cardinality(Waiting(b)) = 0 /\ Times(b) = 1 + problem.repeats[b]
<1>1. /\ Distinct /\ Owing /\ Covered /\ unscheduled = <<>> /\ remaining = <<>>
      /\ ProblemOK(problem) /\ unassigned \in Seq(Entries)
    BY DEF Accounted, TypeOK
<1>2. Untried(b) = {} /\ Tried(b) = {}
    BY <1>1 DEF Untried, Tried
<1>3. Cardinality(Untried(b)) = 0 /\ Cardinality(Tried(b)) = 0
    BY <1>2, FS_EmptySet
<1>4. b \in Blocks /\ problem.repeats[b] \in Nat
    BY <1>1, OrderBlocks
<1>5. Times(b) \in Nat
    BY CountTypes, CountsAre
<1>6. CASE \E k \in DOMAIN unassigned : unassigned[k].block = b
    <2>1. PICK k \in DOMAIN unassigned : unassigned[k].block = b
        BY <1>6
    <2>2. Waiting(b) = {k}
        BY <1>1, <2>1 DEF Waiting, Distinct
    <2>3. Cardinality(Waiting(b)) = 1
        BY <2>2, FS_Singleton
    <2>4. Times(b) + unassigned[k].rem = problem.repeats[b]
        BY <1>1, <1>4, <2>1 DEF Owing
    <2>5. unassigned[k].rem \in Nat
        BY <1>1, EntriesTypes
    <2>6. Times(b) <= problem.repeats[b]
        BY <1>4, <1>5, <2>4, <2>5
    <2>7. QED
        BY <1>3, <2>3, <2>6
<1>7. CASE ~\E k \in DOMAIN unassigned : unassigned[k].block = b
    <2>1. Waiting(b) = {}
        BY <1>7 DEF Waiting
    <2>2. Cardinality(Waiting(b)) = 0
        BY <2>1, FS_EmptySet
    <2>3. Times(b) = 1 + problem.repeats[b]
        BY <1>1, <1>7 DEF Covered
    <2>4. QED
        BY <1>3, <2>2, <2>3
<1>8. QED
    BY <1>6, <1>7

LEMMA AccountedEnough ==
    ASSUME TypeOK, Accounted
    PROVE  AllAccounted
<1> SUFFICES ASSUME NEW b \in ToSet(problem.order)
             PROVE  /\ Times(b) <= 1 + problem.repeats[b]
                    /\ Pending(b) <= 1
                    /\ Times(b) + Pending(b) >= 1
                    /\ problem.repeats[b] = 0 => Times(b) + Pending(b) = 1
    BY DEF AllAccounted
<1>1. problem.repeats[b] \in Nat
    BY OrderBlocks DEF TypeOK
<1>2. Times(b) \in Nat
    BY CountTypes, CountsAre
<1>3. CASE stage = "greedy"
    <2>1. /\ Cardinality(Untried(b)) = 0 /\ Cardinality(Tried(b)) = 0
          /\ \/ Cardinality(Waiting(b)) = 1 /\ Times(b) <= problem.repeats[b]
             \/ Cardinality(Waiting(b)) = 0 /\ Times(b) = 1 + problem.repeats[b]
        BY <1>3, GreedyCounts
    <2>2. Pending(b) = Cardinality(Waiting(b))
        BY <2>1, CountsAre
    <2>3. QED
        BY <1>1, <1>2, <2>1, <2>2
<1>4. CASE stage # "greedy"
    <2>1. Settled(b)
        BY <1>4 DEF Accounted
    <2>2. QED
        BY <1>1, <1>2, <2>1 DEF Settled
<1>5. QED
    BY <1>3, <1>4

LEMMA InitAccounted ==
    ASSUME Init, ListedOnce(problem)
    PROVE  Accounted
<1> DEFINE D == 1 .. Len(problem.order)
<1>1. PICK h \in Bijection(D, D) :
         unassigned = [k \in D |->
                         [block |-> problem.order[h[k]], available |-> 0,
                          rem |-> problem.repeats[problem.order[h[k]]]]]
    BY FirstList
<1>2. /\ h \in [D -> D]
      /\ \A i, j \in D : h[i] = h[j] => i = j
      /\ \A e \in D : \E i \in D : h[i] = e
    BY DEF Bijection, Injection, IsInjective, Surjection
<1>3. /\ DOMAIN unassigned = D
      /\ \A k \in D : /\ unassigned[k].block = problem.order[h[k]]
                      /\ unassigned[k].rem = problem.repeats[problem.order[h[k]]]
    BY <1>1
<1>4. /\ DOMAIN problem.order = D
      /\ \A i \in D : problem.order[i] \in Blocks
      /\ ProblemOK(problem)
    BY FirstList
<1> HIDE DEF D
<1>5. Distinct
    BY <1>2, <1>3, <1>4 DEF Distinct, ListedOnce
<1>6. ASSUME NEW b \in Blocks
      PROVE  Times(b) = 0
    <2>1. Placed(b) = {}
        BY DEF Init, Placed
    <2>2. QED
        BY <2>1, CountsAre, FS_EmptySet
<1>7. Owing
    <2>1. ASSUME NEW b \in Blocks, NEW k \in D, unassigned[k].block = b
          PROVE  Times(b) + unassigned[k].rem = problem.repeats[b]
        <3>1. problem.repeats[b] \in Nat
            BY <1>4, ProblemTypes
        <3>2. unassigned[k].rem = problem.repeats[b]
            BY <1>3, <2>1
        <3>3. QED
            BY <1>6, <3>1, <3>2
    <2>2. QED
        BY <1>3, <2>1 DEF Owing
<1>8. Covered
    <2>1. ASSUME NEW b \in ToSet(problem.order)
          PROVE  \E k \in D : unassigned[k].block = b
        <3>1. PICK i \in D : problem.order[i] = b
            BY <1>4 DEF ToSet
        <3>2. PICK k \in D : h[k] = i
            BY <1>2
        <3>3. QED
            BY <1>3, <3>1, <3>2
    <2>2. QED
        BY <1>3, <2>1 DEF Covered
<1>9. stage = "greedy" /\ unscheduled = <<>> /\ remaining = <<>>
    BY DEF Init
<1>10. QED
    BY <1>5, <1>7, <1>8, <1>9 DEF Accounted

\* A step that leaves the four lists alone.
LEMMA SameAccounted ==
    ASSUME Accounted,
           UNCHANGED <<problem, stage, unassigned, blocks, unscheduled, remaining>>
    PROVE  Accounted'
BY DEF Accounted, Distinct, Owing, Covered, Settled, Times, Pending

\* After the greedy search: a step that leaves each block as often in the
\* schedule, and as often to be placed.
LEMMA SettledStays ==
    ASSUME TypeOK, Accounted, stage # "greedy", stage' # "greedy",
           UNCHANGED <<problem, unassigned>>,
           \A b \in ToSet(problem.order) :
              Settled(b) => Settled(b)'
    PROVE  Accounted'
BY DEF Accounted

\* One more block in the schedule, at place k.
LEMMA TimesAfter ==
    ASSUME TypeOK, TypeOK', NEW k \in 1 .. Len(blocks) + 1,
           Len(blocks') = Len(blocks) + 1,
           \A i \in 1 .. Len(blocks) :
              blocks'[IF i < k THEN i ELSE i + 1].block = blocks[i].block,
           NEW b
    PROVE  Times(b)' = Times(b) + IF blocks'[k].block = b THEN 1 ELSE 0
<1> DEFINE n == Len(blocks)
<1>1. /\ n \in Nat /\ DOMAIN blocks = 1 .. n /\ DOMAIN blocks' = 1 .. n + 1
    BY LenProperties DEF TypeOK
<1>2. Placed(b) \in SUBSET (1 .. n) /\ Placed(b)' \in SUBSET (1 .. n + 1)
    BY <1>1 DEF Placed
<1>3. \A i \in 1 .. n :
         i \in Placed(b) <=> (IF i < k THEN i ELSE i + 1) \in Placed(b)'
    BY <1>1 DEF Placed
<1>4. k \in Placed(b)' <=> blocks'[k].block = b
    BY <1>1 DEF Placed
<1> DEFINE A == Placed(b)
           B == Placed(b)'
<1>5. Times(b) = Cardinality(A) /\ Times(b)' = Cardinality(B)
    BY CountsAre DEF Times, Placed
<1>6. Widens(n, k, A, B) /\ k \in 1 .. n + 1
    BY <1>2, <1>3 DEF Widens
<1> HIDE DEF n, A, B
<1>7. Cardinality(B) = Cardinality(A) + IF k \in B THEN 1 ELSE 0
    <2>1. n \in Nat
        BY <1>1
    <2>2. QED
        BY <1>6, <2>1, OneMore
<1>8. k \in B <=> blocks'[k].block = b
    BY <1>4 DEF B
<1>9. QED
    BY <1>5, <1>7, <1>8

\* A placement uses the observation its item stands for; if repeats are to
\* come, the item stands for the next of them.
LEMMA GreedyPlaceAccounted ==
    ASSUME Sound, Sound', Accounted, GreedyPlace
    PROVE  Accounted'
<1> DEFINE n == Len(blocks)
           m == Len(unassigned)
<1>1. /\ TypeOK /\ TypeOK' /\ ProblemOK(problem) /\ unassigned \in Seq(Entries)
      /\ stage = "greedy"
    BY DEF Sound, TypeOK, GreedyPlace, Searching
<1>2. PICK k \in 1 .. m :
         LET item == unassigned[k]
         IN  /\ Len(blocks') = n + 1
             /\ \A i \in 1 .. n : blocks'[i] = blocks[i]
             /\ blocks'[n + 1] = Placement(item.block, GreedyStart(item.block),
                                   GreedySetup(item.block))
             /\ unassigned' = SubSeq(unassigned, 1, k - 1)
                                \o Again(item, blocks'[n + 1].end)
                                \o SubSeq(unassigned, k + 1, m)
             /\ UNCHANGED <<problem, stage, unscheduled, searchVars>>
    BY GreedyPlaceEffect
<1> DEFINE item == unassigned[k]
           b == item.block
           e == blocks'[n + 1].end
<1>3. /\ n \in Nat /\ m \in Nat /\ DOMAIN unassigned = 1 .. m
      /\ \A j \in 1 .. m : /\ unassigned[j] \in Entries
                           /\ unassigned[j].block \in Blocks
                           /\ unassigned[j].rem \in Nat
    BY <1>1, BlocksTypes, EntriesTypes
<1>4. /\ Distinct /\ Owing /\ Covered /\ unscheduled = <<>> /\ remaining = <<>>
    BY <1>1 DEF Accounted
<1>5. UNCHANGED <<problem, stage, unscheduled, remaining>>
    BY <1>2 DEF searchVars
<1>6. blocks'[n + 1].block = b
    BY <1>2 DEF Placement
<1>7. \A c : Times(c)' = Times(c) + IF b = c THEN 1 ELSE 0
    <2>1. TAKE c
    <2>2. n + 1 \in 1 .. n + 1
        BY <1>3
    <2>3. \A i \in 1 .. n : blocks'[IF i < n + 1 THEN i ELSE i + 1].block = blocks[i].block
        BY <1>2, <1>3
    <2>4. Times(c)' = Times(c) + IF blocks'[n + 1].block = c THEN 1 ELSE 0
        BY <1>1, <1>2, <2>2, <2>3, TimesAfter
    <2>5. QED
        BY <1>6, <2>4
<1>8. \A c : Times(c) \in Nat
    BY <1>1, CountTypes, CountsAre
<1>9. \A c \in Blocks : problem.repeats[c] \in Nat
    BY <1>1, ProblemTypes
<1>10. Times(b) + item.rem = problem.repeats[b]
    BY <1>3, <1>4 DEF Owing
<1>11. \A c \in Blocks, j \in 1 .. m :
          unassigned[j].block = c => Times(c) + unassigned[j].rem = problem.repeats[c]
    BY <1>3, <1>4 DEF Owing
<1>12. \A i, j \in 1 .. m : unassigned[i].block = unassigned[j].block => i = j
    BY <1>3, <1>4 DEF Distinct
<1>13. \A c \in ToSet(problem.order) :
          \/ \E j \in 1 .. m : unassigned[j].block = c
          \/ Times(c) = 1 + problem.repeats[c]
    BY <1>3, <1>4 DEF Covered
<1>14. b \in Blocks /\ item \in Entries /\ item.rem \in Nat
    BY <1>3
<1> HIDE DEF n, b
<1>15. CASE item.rem = 0
    <2>1. unassigned' = SubSeq(unassigned, 1, k - 1) \o <<>>
                          \o SubSeq(unassigned, k + 1, m)
        BY <1>2, <1>15 DEF Again
    <2>2. /\ unassigned' \in Seq(Entries)
          /\ Len(unassigned') = m - 1
          /\ \A i \in 1 .. m - 1 :
                unassigned'[i] = unassigned[IF i < k THEN i ELSE i + 1]
        BY <1>1, <2>1, Dropped
    <2>3. DOMAIN unassigned' = 1 .. m - 1
        BY <2>2, LenProperties
    <2>4. \A i \in 1 .. m - 1 :
             /\ IF i < k THEN i \in 1 .. m ELSE i + 1 \in 1 .. m
             /\ unassigned'[i].block # b
        <3>1. TAKE i \in 1 .. m - 1
        <3>2. CASE i < k
            BY <1>3, <1>12, <2>2, <3>2 DEF b
        <3>3. CASE ~(i < k)
            <4>1. i + 1 \in 1 .. m /\ i + 1 # k /\ unassigned'[i] = unassigned[i + 1]
                BY <1>3, <2>2, <3>3
            <4>2. QED
                BY <1>12, <3>3, <4>1 DEF b
        <3>4. QED
            BY <3>2, <3>3
    <2>5. Distinct'
        <3>1. ASSUME NEW i \in 1 .. m - 1, NEW j \in 1 .. m - 1,
                     unassigned'[i].block = unassigned'[j].block
              PROVE  i = j
            <4>1. (IF i < k THEN i ELSE i + 1) = (IF j < k THEN j ELSE j + 1)
                BY SMTT(20), <1>12, <2>2, <2>4, <3>1
            <4>2. QED
                BY <4>1, <1>3
        <3>2. QED
            BY <2>3, <3>1 DEF Distinct
    <2>6. Owing'
        <3>1. ASSUME NEW c \in Blocks, NEW i \in 1 .. m - 1, unassigned'[i].block = c
              PROVE  Times(c)' + unassigned'[i].rem = problem.repeats[c]
            <4>1. b # c
                BY <2>4, <3>1
            <4>2. Times(c)' = Times(c)
                BY <1>7, <1>8, <4>1
            <4>3. QED
                BY <1>11, <2>2, <2>4, <3>1, <4>2
        <3>2. QED
            BY <1>5, <2>3, <3>1 DEF Owing
    <2>7. Covered'
        <3>1. ASSUME NEW c \in ToSet(problem.order)
              PROVE  \/ \E i \in 1 .. m - 1 : unassigned'[i].block = c
                     \/ Times(c)' = 1 + problem.repeats[c]
            <4>1. CASE c = b
                BY <1>7, <1>8, <1>9, <1>10, <1>14, <1>15, <4>1
            <4>2. CASE c # b /\ \E j \in 1 .. m : unassigned[j].block = c
                <5>1. PICK j \in 1 .. m : unassigned[j].block = c
                    BY <4>2
                <5>2. j # k
                    BY <4>2, <5>1 DEF b
                <5>3. CASE j < k
                    <6>1. j \in 1 .. m - 1 /\ unassigned'[j] = unassigned[j]
                        BY <1>3, <2>2, <5>3
                    <6>2. QED
                        BY <5>1, <6>1
                <5>4. CASE ~(j < k)
                    <6>1. j - 1 \in 1 .. m - 1 /\ unassigned'[j - 1] = unassigned[j]
                        BY <1>3, <2>2, <5>2, <5>4
                    <6>2. QED
                        BY <5>1, <6>1
                <5>5. QED
                    BY <5>3, <5>4
            <4>3. CASE c # b /\ Times(c) = 1 + problem.repeats[c]
                BY <1>7, <1>8, <4>3
            <4>4. QED
                BY <1>13, <4>1, <4>2, <4>3
        <3>2. QED
            BY <1>5, <2>3, <3>1 DEF Covered
    <2>8. QED
        BY <1>1, <1>4, <1>5, <2>5, <2>6, <2>7 DEF Accounted
<1>16. CASE item.rem # 0
    <2> DEFINE again == [item EXCEPT !.rem = @ - 1,
                           !.available = e + problem.minInterval[item.block]]
    <2>1. Again(item, e) = <<again>>
        BY <1>16 DEF Again
    <2>2. again \in Entries /\ again.block = b /\ again.rem = item.rem - 1
        <3>1. item.rem - 1 \in Nat
            BY <1>14, <1>16
        <3>2. e \in Nat
            <4>1. n + 1 \in 1 .. Len(blocks')
                BY <1>2, <1>3 DEF n
            <4>2. blocks' \in Seq(Slots)
                BY <1>1 DEF TypeOK
            <4>3. blocks'[n + 1] \in Slots
                BY <4>1, <4>2
            <4>4. QED
                BY <4>3 DEF Slots
        <3>3. problem.minInterval[item.block] \in Nat
            BY <1>1, <1>14, ProblemTypes DEF b
        <3>4. e + problem.minInterval[item.block] \in Nat
            BY <3>2, <3>3
        <3> HIDE DEF item, e
        <3>5. QED
            BY <1>14, <3>1, <3>4 DEF Entries, b
    <2> HIDE DEF again
    <2>3. unassigned' = SubSeq(unassigned, 1, k - 1) \o <<again>>
                          \o SubSeq(unassigned, k + 1, m)
        BY <1>2, <2>1 DEF n
    <2>4. /\ unassigned' \in Seq(Entries)
          /\ Len(unassigned') = m
          /\ \A i \in 1 .. m : unassigned'[i] = IF i = k THEN again ELSE unassigned[i]
        <3>1. unassigned' = With(unassigned, k, again)
            BY <2>3 DEF With
        <3> HIDE DEF e, item
        <3>2. again \in Entries /\ unassigned \in Seq(Entries)
            BY <1>1, <2>2
        <3>3. k \in 1 .. Len(unassigned)
            OBVIOUS
        <3>4. IsWith(With(unassigned, k, again), Entries, unassigned, k, again)
            BY <3>2, <3>3, Replaced
        <3>5. QED
            BY <3>1, <3>4 DEF IsWith
    <2>5. DOMAIN unassigned' = 1 .. m
        BY <2>4, LenProperties
    <2>6. \A i \in 1 .. m : unassigned'[i].block = unassigned[i].block
        BY <2>2, <2>4 DEF b
    <2>7. Distinct'
        BY <1>12, <2>5, <2>6 DEF Distinct
    <2>8. Owing'
        <3>1. ASSUME NEW c \in Blocks, NEW i \in 1 .. m, unassigned'[i].block = c
              PROVE  Times(c)' + unassigned'[i].rem = problem.repeats[c]
            <4>1. CASE i = k
                <5>1. c = b
                    BY <2>6, <3>1, <4>1 DEF b
                <5>2. unassigned'[i].rem = item.rem - 1
                    BY <2>2, <2>4, <4>1
                <5>3. Times(c)' = Times(c) + 1
                    BY <1>7, <5>1
                <5>4. Times(c) + item.rem = problem.repeats[c]
                    BY <1>11, <5>1 DEF b
                <5>5. Times(c) \in Nat /\ item.rem \in Nat
                    BY <1>8, <1>14
                <5> HIDE DEF item
                <5>6. QED
                    BY <5>2, <5>3, <5>4, <5>5
            <4>2. CASE i # k
                <5>1. c # b
                    BY <1>12, <2>6, <3>1, <4>2 DEF b
                <5>2. Times(c)' = Times(c)
                    BY <1>7, <1>8, <5>1
                <5>3. QED
                    BY <1>11, <2>4, <3>1, <4>2, <5>2
            <4>3. QED
                BY <4>1, <4>2
        <3>2. QED
            BY <1>5, <2>5, <3>1 DEF Owing
    <2>9. Covered'
        <3>1. ASSUME NEW c \in ToSet(problem.order)
              PROVE  \/ \E i \in 1 .. m : unassigned'[i].block = c
                     \/ Times(c)' = 1 + problem.repeats[c]
            <4>1. CASE \E j \in 1 .. m : unassigned[j].block = c
                BY <2>6, <4>1
            <4>2. CASE ~\E j \in 1 .. m : unassigned[j].block = c
                <5>1. c # b
                    BY <4>2 DEF b
                <5>2. Times(c)' = Times(c)
                    BY <1>7, <1>8, <5>1
                <5>3. QED
                    BY <1>13, <4>2, <5>2
            <4>3. QED
                BY <4>1, <4>2
        <3>2. QED
            BY <1>5, <2>5, <3>1 DEF Covered
    <2>10. QED
        BY <1>1, <1>4, <1>5, <2>7, <2>8, <2>9 DEF Accounted
<1>17. QED
    BY <1>15, <1>16

\* The pending counts after a step that leaves no item to the greedy search.
LEMMA PendingAfter ==
    ASSUME unassigned' = <<>>, NEW b,
           Cardinality(Untried(b)') \in Nat, Cardinality(Tried(b)') \in Nat
    PROVE  Pending(b)' = Cardinality(Untried(b)') + Cardinality(Tried(b)')
<1>1. Pending(b)' = Cardinality(Waiting(b)') + Cardinality(Untried(b)')
                      + Cardinality(Tried(b)')
    BY DEF Pending, Waiting, Untried, Tried
<1>2. Waiting(b)' = {}
    BY DEF Waiting
<1>3. Cardinality(Waiting(b)') = 0
    BY <1>2, FS_EmptySet
<1>4. QED
    BY <1>1, <1>3

LEMMA PendingIs ==
    ASSUME TypeOK, unassigned = <<>>, NEW b
    PROVE  /\ Pending(b) = Cardinality(Untried(b)) + Cardinality(Tried(b))
           /\ Cardinality(Untried(b)) \in Nat /\ Cardinality(Tried(b)) \in Nat
<1>1. Waiting(b) = {}
    BY DEF Waiting
<1>2. Cardinality(Waiting(b)) = 0
    BY <1>1, FS_EmptySet
<1>3. Cardinality(Untried(b)) \in Nat /\ Cardinality(Tried(b)) \in Nat
    BY CountTypes
<1>4. QED
    BY <1>2, <1>3, CountsAre

LEMMA GreedyEndsAccounted ==
    ASSUME Sound, Accounted, GreedyEnds
    PROVE  Accounted'
<1>1. /\ TypeOK /\ stage = "greedy" /\ stage' = "swap" /\ unassigned' = <<>>
      /\ unscheduled' = [k \in DOMAIN unassigned |-> unassigned[k].block]
      /\ UNCHANGED <<problem, blocks, remaining>>
    BY DEF Sound, GreedyEnds, searchVars
<1>2. ProblemOK(problem)
    BY <1>1 DEF TypeOK
<1>3. ASSUME NEW b \in ToSet(problem.order)
      PROVE  Settled(b)'
    <2>1. Untried(b)' = Waiting(b) /\ Tried(b)' = Tried(b)
        BY <1>1 DEF Untried, Waiting, Tried
    <2>2. Times(b)' = Times(b)
        BY <1>1 DEF Times
    <2>3. /\ Cardinality(Tried(b)) = 0
          /\ \/ Cardinality(Waiting(b)) = 1 /\ Times(b) <= problem.repeats[b]
             \/ Cardinality(Waiting(b)) = 0 /\ Times(b) = 1 + problem.repeats[b]
        BY <1>1, GreedyCounts
    <2>4. /\ Cardinality(Untried(b)') = Cardinality(Waiting(b))
          /\ Cardinality(Tried(b)') = 0
        BY <2>1, <2>3
    <2>5. Pending(b)' = Cardinality(Waiting(b))
        BY <1>1, <2>3, <2>4, PendingAfter
    <2>6. problem.repeats[b] \in Nat /\ Times(b) \in Nat
        BY <1>1, <1>2, OrderBlocks, CountTypes, CountsAre
    <2>7. \/ Pending(b)' = 1 /\ Times(b)' <= problem.repeats[b]
          \/ Pending(b)' = 0 /\ Times(b)' \in 1 .. 1 + problem.repeats[b]
        BY <2>2, <2>3, <2>5, <2>6
    <2>8. QED
        BY <1>1, <2>7 DEF Settled
<1>4. QED
    BY <1>1, <1>3 DEF Accounted

\* A swap exchanges two places of the schedule.
LEMMA SwapPairAccounted ==
    ASSUME Sound, Accounted, SwapPair
    PROVE  Accounted'
<1> DEFINE n == Len(blocks)
           D == 1 .. n
           h == [i \in D |-> IF i = at THEN at + 1 ELSE IF i = at + 1 THEN at ELSE i]
<1>1. /\ TypeOK /\ stage = "swap" /\ at \in Nat \ {0}
      /\ UNCHANGED <<problem, stage, unassigned, unscheduled, remaining>>
    BY DEF Sound, TypeOK, SwapPair, greedyVars
<1>2. PICK X \in Slots, Y \in Slots :
         /\ at + 1 \in 1 .. Len(blocks)
         /\ X.block = blocks[at + 1].block /\ Y.block = blocks[at].block
         /\ blocks' = SetSetup([blocks EXCEPT ![at] = X, ![at + 1] = Y],
                               at + 2, NextSetup(blocks[at].block, Y.end, at + 2))
    BY SwapEffect
<1>3. n \in Nat /\ DOMAIN blocks = D
    BY <1>1, BlocksTypes
<1>4. /\ DOMAIN blocks' = D
      /\ \A i \in D : blocks'[i].block = (IF i = at THEN X ELSE IF i = at + 1 THEN Y
                                          ELSE blocks[i]).block
    BY <1>2, SwapPlaces
<1>5. at \in D /\ at + 1 \in D /\ at + 1 # at
    BY <1>1, <1>2, <1>3
<1>6. \A i \in D : h[i] \in D /\ blocks'[h[i]].block = blocks[i].block
    BY <1>2, <1>4, <1>5
<1>7. h \in Bijection(D, D)
    <2>1. h \in [D -> D]
        BY <1>6
    <2>2. \A i, j \in D : h[i] = h[j] => i = j
        BY <1>5
    <2>3. \A i \in D : h[h[i]] = i
        BY <1>5
    <2> HIDE DEF h, D
    <2>4. \A e \in D : \E i \in D : h[i] = e
        BY <1>6, <2>3
    <2>5. QED
        BY <2>1, <2>2, <2>4 DEF Bijection, Injection, IsInjective, Surjection
<1>8. IsFiniteSet(D)
    BY <1>3, FS_Interval
<1> HIDE DEF h, D, n
<1>9. ASSUME NEW b \in ToSet(problem.order), Settled(b)
      PROVE  Settled(b)'
    <2>1. Carries(h, D, D, Placed(b), Placed(b)')
        BY <1>3, <1>4, <1>6 DEF Carries, Placed
    <2>2. Cardinality(Placed(b)') = Cardinality(Placed(b))
        BY <1>7, <1>8, <2>1, SameCount
    <2>3. Times(b)' = Times(b)
        BY <2>2 DEF Times, Placed
    <2>4. Pending(b)' = Pending(b)
        BY <1>1 DEF Pending
    <2>5. QED
        BY <1>1, <1>9, <2>3, <2>4 DEF Settled
<1>10. QED
    BY <1>1, <1>9 DEF Accounted

\* Sorting the unscheduled list keeps it what it is.
LEMMA SwapEndsAccounted ==
    ASSUME Sound, Accounted, SwapEnds
    PROVE  Accounted'
<1> DEFINE D == 1 .. Len(unscheduled)
<1>1. /\ TypeOK /\ ProblemOK(problem) /\ stage = "swap" /\ stage' = "insert"
      /\ unscheduled \in Seq(Blocks) /\ unscheduled' = ByPriority(unscheduled)
      /\ UNCHANGED <<problem, unassigned, blocks, remaining>>
    BY DEF Sound, TypeOK, SwapEnds, greedyVars, searchVars
<1>2. PICK h \in Bijection(D, D) : unscheduled' = [k \in D |-> unscheduled[h[k]]]
    BY <1>1, ByPriorityPermutes, ProblemTypes
<1>3. Len(unscheduled) \in Nat /\ DOMAIN unscheduled = D /\ IsFiniteSet(D)
    BY <1>1, LenProperties, FS_Interval
<1>4. h \in [D -> D]
    BY DEF Bijection, Surjection
<1>5. /\ DOMAIN unscheduled' = D
      /\ \A i \in D : unscheduled'[i] = unscheduled[h[i]]
    BY <1>2
<1>6. unassigned = <<>> /\ unassigned' = <<>>
    BY <1>1 DEF Accounted
<1> HIDE DEF D
<1>7. ASSUME NEW b \in ToSet(problem.order), Settled(b)
      PROVE  Settled(b)'
    <2>1. Carries(h, D, D, Untried(b)', Untried(b))
        BY <1>3, <1>4, <1>5 DEF Carries, Untried
    <2>2. Cardinality(Untried(b)) = Cardinality(Untried(b)')
        BY <1>3, <2>1, SameCount
    <2>3. Tried(b)' = Tried(b) /\ Times(b)' = Times(b)
        BY <1>1 DEF Tried, Times
    <2>4. /\ Pending(b) = Cardinality(Untried(b)) + Cardinality(Tried(b))
          /\ Cardinality(Untried(b)) \in Nat /\ Cardinality(Tried(b)) \in Nat
        BY <1>1, <1>6, PendingIs
    <2>5. Pending(b)' = Pending(b)
        BY <1>6, <2>2, <2>3, <2>4, PendingAfter
    <2>6. QED
        BY <1>1, <1>7, <2>3, <2>5 DEF Settled
<1>8. QED
    BY <1>1, <1>6, <1>7 DEF Accounted

\* The block an insert pass takes up is no longer one of those to try.
LEMMA TakenUp ==
    ASSUME TypeOK, unscheduled # <<>>, unscheduled' = Tail(unscheduled), NEW b
    PROVE  /\ Cardinality(Untried(b)') \in Nat
           /\ Cardinality(Untried(b))
                = Cardinality(Untried(b)') + IF Head(unscheduled) = b THEN 1 ELSE 0
<1> DEFINE m == Len(Tail(unscheduled))
           A == Untried(b)'
           B == Untried(b)
<1>1. unscheduled \in Seq(Blocks) /\ unscheduled # <<>>
    BY DEF TypeOK
<1>2. /\ m \in Nat /\ Len(unscheduled) = m + 1
      /\ DOMAIN unscheduled = 1 .. m + 1 /\ DOMAIN unscheduled' = 1 .. m
      /\ \A i \in 1 .. m : unscheduled'[i] = unscheduled[i + 1]
    <2>1. /\ Tail(unscheduled) \in Seq(Blocks)
          /\ Len(Tail(unscheduled)) = Len(unscheduled) - 1
          /\ \A i \in 1 .. Len(Tail(unscheduled)) :
                Tail(unscheduled)[i] = unscheduled[i + 1]
        BY <1>1, HeadTailProperties
    <2>2. Len(unscheduled) \in Nat /\ DOMAIN unscheduled = 1 .. Len(unscheduled)
        BY <1>1, LenProperties
    <2>3. m \in Nat /\ DOMAIN Tail(unscheduled) = 1 .. m
        BY <2>1, LenProperties
    <2>4. QED
        BY <2>1, <2>2, <2>3
<1> HIDE DEF m
<1>3. A \in SUBSET (1 .. m) /\ B \in SUBSET (1 .. m + 1)
    BY <1>2 DEF Untried
<1>4. \A i \in 1 .. m : i \in A <=> (IF i < 1 THEN i ELSE i + 1) \in B
    BY <1>2 DEF Untried
<1>5. Widens(m, 1, A, B) /\ 1 \in 1 .. m + 1
    BY <1>2, <1>3, <1>4 DEF Widens
<1>6. 1 \in B <=> Head(unscheduled) = b
    <2>1. Head(unscheduled) = unscheduled[1]
        OBVIOUS
    <2>2. QED
        BY <1>2, <2>1 DEF Untried
<1> HIDE DEF A, B
<1>7. /\ Cardinality(A) \in Nat
      /\ Cardinality(B) = Cardinality(A) + IF 1 \in B THEN 1 ELSE 0
    BY <1>2, <1>5, OneMore
<1>8. QED
    BY <1>6, <1>7 DEF A, B

LEMMA InsertAccounted ==
    ASSUME Sound, Sound', Accounted, Insert
    PROVE  Accounted'
<1> DEFINE n == Len(blocks)
           c == Head(unscheduled)
<1>1. /\ TypeOK /\ TypeOK' /\ ProblemOK(problem) /\ blocks \in Seq(Slots)
      /\ stage = "insert" /\ unscheduled # <<>> /\ unscheduled' = Tail(unscheduled)
      /\ UNCHANGED <<problem, stage, unassigned, remaining>>
    BY DEF Sound, TypeOK, Insert, greedyVars
<1>2. PICK k \in 1 .. n + 1, P \in Slots :
         /\ P.block = c
         /\ IsSlew(P.setup, PrevBlock(k), c, PrevEnd(k), P.start)
         /\ P.start = PrevEnd(k) + P.setup
         /\ P.end = P.start + problem.duration[c]
         /\ k <= n => P.end + NextSetup(c, P.end, k) <= blocks[k].start
         /\ blocks' = ByStart(ToSet(SetSetup(blocks, k, NextSetup(c, P.end, k))) \cup {P})
    BY InsertEffect
<1>3. /\ n \in Nat /\ PrevEnd(k) \in Nat
      /\ \A i \in 1 .. n : blocks[i].block \in Blocks /\ blocks[i].start \in Nat
    BY <1>1, BlocksTypes
<1>4. P.start \in Nat /\ P.end \in Nat /\ P.setup \in Nat /\ P.block \in Blocks
    BY DEF Slots
<1>5. k <= n => NextSetup(P.block, P.end, k) \in Nat /\ k \in 1 .. n
    <2>1. NextSetup(P.block, P.end, k) \in Nat
        BY <1>1, <1>4, NextSetupTypes
    <2>2. QED
        BY <1>3, <2>1
<1>6. PrevEnd(k) <= P.start /\ (k <= n => P.end <= blocks[k].start)
    BY <1>2, <1>3, <1>4, <1>5
<1> DEFINE t == ByStart(ToSet(SetSetup(blocks, k, NextSetup(P.block, P.end, k))) \cup {P})
<1>7. blocks' = t /\ P.end = P.start + problem.duration[P.block]
    BY <1>2
<1>8. /\ t \in Seq(Slots)
      /\ Len(t) = n + 1
      /\ t[k] = P
      /\ \A i \in 1 .. n :
            LET m == IF i < k THEN i ELSE i + 1
            IN  /\ t[m].block = blocks[i].block
                /\ t[m].start = blocks[i].start
                /\ t[m].end = blocks[i].end
                /\ t[m].score = blocks[i].score
                /\ t[m].setup = IF i = k THEN NextSetup(P.block, P.end, k)
                                ELSE blocks[i].setup
    BY ZenonT(20), <1>6, <1>7, InsertPlaces
<1> HIDE DEF t
<1>9. /\ Len(blocks') = n + 1
      /\ \A i \in 1 .. n : blocks'[IF i < k THEN i ELSE i + 1].block = blocks[i].block
      /\ blocks'[k].block = c
    BY <1>2, <1>7, <1>8
<1>10. unassigned = <<>> /\ unassigned' = <<>>
    BY <1>1 DEF Accounted
<1> HIDE DEF c
<1>11. ASSUME NEW b \in ToSet(problem.order), Settled(b)
       PROVE  Settled(b)'
    <2>1. Times(b)' = Times(b) + IF blocks'[k].block = b THEN 1 ELSE 0
        BY <1>1, <1>9, TimesAfter
    <2>2. /\ Cardinality(Untried(b)') \in Nat
          /\ Cardinality(Untried(b))
               = Cardinality(Untried(b)') + IF c = b THEN 1 ELSE 0
        BY <1>1, TakenUp DEF c
    <2>3. Tried(b)' = Tried(b)
        BY <1>1 DEF Tried
    <2>4. /\ Pending(b) = Cardinality(Untried(b)) + Cardinality(Tried(b))
          /\ Cardinality(Untried(b)) \in Nat /\ Cardinality(Tried(b)) \in Nat
        BY <1>1, <1>10, PendingIs
    <2>5. Pending(b)' = Cardinality(Untried(b)') + Cardinality(Tried(b))
        BY <1>10, <2>2, <2>3, <2>4, PendingAfter
    <2>6. problem.repeats[b] \in Nat /\ Times(b) \in Nat
        BY <1>1, OrderBlocks, CountTypes, CountsAre
    <2>7. \/ Pending(b) = 1 /\ Times(b) <= problem.repeats[b]
          \/ Pending(b) = 0 /\ Times(b) \in 1 .. 1 + problem.repeats[b]
        BY <1>11 DEF Settled
    <2>8. \/ Pending(b)' = 1 /\ Times(b)' <= problem.repeats[b]
          \/ Pending(b)' = 0 /\ Times(b)' \in 1 .. 1 + problem.repeats[b]
        <3>1. CASE c = b
            <4>1. Times(b)' = Times(b) + 1
                BY <1>9, <2>1, <3>1
            <4>2. Pending(b) = Pending(b)' + 1 /\ Pending(b)' \in Nat
                BY <2>2, <2>4, <2>5, <3>1
            <4>3. QED
                BY <2>6, <2>7, <4>1, <4>2
        <3>2. CASE c # b
            <4>1. Times(b)' = Times(b)
                BY <1>9, <2>1, <2>6, <3>2
            <4>2. Pending(b)' = Pending(b)
                BY <2>2, <2>4, <2>5, <3>2
            <4>3. QED
                BY <2>7, <4>1, <4>2
        <3>3. QED
            BY <3>1, <3>2
    <2>9. QED
        BY <1>1, <2>8 DEF Settled
<1>12. QED
    BY <1>1, <1>10, <1>11 DEF Accounted

LEMMA InsertSkipsAccounted ==
    ASSUME Sound, Accounted, InsertSkips
    PROVE  Accounted'
<1> DEFINE c == Head(unscheduled)
           m == Len(remaining)
<1>1. /\ TypeOK /\ ProblemOK(problem) /\ stage = "insert"
      /\ unscheduled \in Seq(Blocks) /\ remaining \in Seq(Blocks)
      /\ unscheduled # <<>> /\ unscheduled' = Tail(unscheduled)
      /\ remaining' = Append(remaining, c)
      /\ UNCHANGED <<problem, stage, unassigned, blocks>>
    BY DEF Sound, TypeOK, InsertSkips, greedyVars
<1>2. c \in Blocks
    BY <1>1, HeadTailProperties
<1>3. /\ m \in Nat /\ DOMAIN remaining = 1 .. m /\ DOMAIN remaining' = 1 .. m + 1
      /\ \A i \in 1 .. m : remaining'[i] = remaining[i]
      /\ remaining'[m + 1] = c
    <2> HIDE DEF c
    <2>1. QED
        BY <1>1, <1>2, AppendProperties, LenProperties
<1>4. unassigned = <<>> /\ unassigned' = <<>>
    BY <1>1 DEF Accounted
<1> HIDE DEF c, m
<1>5. ASSUME NEW b \in ToSet(problem.order), Settled(b)
      PROVE  Settled(b)'
    <2> DEFINE A == Tried(b)
               B == Tried(b)'
    <2>1. A \in SUBSET (1 .. m) /\ B \in SUBSET (1 .. m + 1)
        BY <1>3 DEF Tried
    <2>2. \A i \in 1 .. m : i \in A <=> (IF i < m + 1 THEN i ELSE i + 1) \in B
        BY <1>3 DEF Tried
    <2>3. m + 1 \in B <=> c = b
        BY <1>3 DEF Tried
    <2>4. Widens(m, m + 1, A, B) /\ m + 1 \in 1 .. m + 1
        BY <1>3, <2>1, <2>2 DEF Widens
    <2> HIDE DEF A, B
    <2>5. /\ Cardinality(A) \in Nat
          /\ Cardinality(B) = Cardinality(A) + IF m + 1 \in B THEN 1 ELSE 0
        BY <1>3, <2>4, OneMore
    <2>6. /\ Cardinality(Untried(b)') \in Nat
          /\ Cardinality(Untried(b))
               = Cardinality(Untried(b)') + IF c = b THEN 1 ELSE 0
        BY <1>1, TakenUp DEF c
    <2>7. Pending(b) = Cardinality(Untried(b)) + Cardinality(A)
        BY <1>1, <1>4, PendingIs DEF A
    <2>8. Pending(b)' = Cardinality(Untried(b)') + Cardinality(B)
        <3>1. Cardinality(B) \in Nat
            BY <2>5
        <3>2. QED
            BY <1>4, <2>6, <3>1, PendingAfter DEF B
    <2>9. Pending(b)' = Pending(b)
        BY <2>3, <2>5, <2>6, <2>7, <2>8
    <2>10. Times(b)' = Times(b)
        BY <1>1 DEF Times
    <2>11. QED
        BY <1>1, <1>5, <2>9, <2>10 DEF Settled
<1>6. QED
    BY <1>1, <1>4, <1>5 DEF Accounted

\* Those tried become those to try.
LEMMA PassEndsAccounted ==
    ASSUME Sound, Accounted, PassEnds
    PROVE  Accounted'
<1>1. /\ TypeOK /\ stage = "insert" /\ stage' # "greedy"
      /\ unscheduled = <<>> /\ unscheduled' = remaining /\ remaining' = <<>>
      /\ UNCHANGED <<problem, unassigned, blocks>>
    BY DEF Sound, PassEnds, greedyVars
<1>2. unassigned = <<>> /\ unassigned' = <<>>
    BY <1>1 DEF Accounted
<1>3. ASSUME NEW b \in ToSet(problem.order), Settled(b)
      PROVE  Settled(b)'
    <2>1. /\ Untried(b)' = Tried(b) /\ Untried(b) = {} /\ Tried(b)' = {}
          /\ Times(b)' = Times(b)
        BY <1>1 DEF Untried, Tried, Times
    <2>2. /\ Pending(b) = Cardinality(Untried(b)) + Cardinality(Tried(b))
          /\ Cardinality(Tried(b)) \in Nat
        BY <1>1, <1>2, PendingIs
    <2>3. /\ Cardinality(Untried(b)) = 0 /\ Cardinality(Tried(b)') = 0
          /\ Cardinality(Untried(b)') = Cardinality(Tried(b))
        BY <2>1, FS_EmptySet
    <2>4. Pending(b)' = Cardinality(Untried(b)') + Cardinality(Tried(b)')
        BY <1>2, <2>2, <2>3, PendingAfter
    <2>5. Pending(b)' = Pending(b)
        BY <2>2, <2>3, <2>4
    <2>6. QED
        BY <1>1, <1>3, <2>1, <2>5 DEF Settled
<1>4. QED
    BY <1>1, <1>2, <1>3 DEF Accounted

LEMMA NextAccounted ==
    ASSUME Sound, Sound', Accounted, [Next]_vars
    PROVE  Accounted'
<1>1. CASE GreedyPlace
    BY <1>1, GreedyPlaceAccounted
<1>2. CASE GreedyWait
    BY <1>2, SameAccounted DEF GreedyWait, searchVars
<1>3. CASE GreedyEnds
    BY <1>3, GreedyEndsAccounted
<1>4. CASE SwapPair
    BY <1>4, SwapPairAccounted
<1>5. CASE SwapSkips
    BY <1>5, SameAccounted DEF SwapSkips, greedyVars
<1>6. CASE SwapEnds
    BY <1>6, SwapEndsAccounted
<1>7. CASE Insert
    BY <1>7, InsertAccounted
<1>8. CASE InsertSkips
    BY <1>8, InsertSkipsAccounted
<1>9. CASE PassEnds
    BY <1>9, PassEndsAccounted
<1>10. CASE UNCHANGED vars
    BY <1>10, SameAccounted DEF vars
<1>11. QED
    BY <1>1, <1>2, <1>3, <1>4, <1>5, <1>6, <1>7, <1>8, <1>9, <1>10 DEF Next

\* No block is lost, and none observed more often than was asked, if the list
\* as given names none twice: strategies take what they are given, and a block
\* named twice is two items that know nothing of each other.
THEOREM ScheduleAllAccounted ==
    ASSUME \A p \in Problems : ProblemOK(p) => ListedOnce(p)
    PROVE  Spec => []AllAccounted
<1>1. Init => Accounted
    <2>1. Init => problem \in Problems /\ ProblemOK(problem)
        BY DEF Init
    <2>2. QED
        BY <2>1, InitAccounted
<1>2. Sound /\ Sound' /\ Accounted /\ [Next]_vars => Accounted'
    BY NextAccounted
<1>3. Sound /\ Accounted => AllAccounted
    BY AccountedEnough DEF Sound
<1>4. QED
    BY <1>1, <1>2, <1>3, SchedulerSound, PTL DEF Spec

---------------------------------------------------------------------------
(* The cadence. Nothing after the greedy search looks at it.               *)

\* An item waits until its block can be observed again.
Waits ==
    \A i \in DOMAIN blocks, k \in DOMAIN unassigned :
        unassigned[k].block = blocks[i].block =>
            blocks[i].end + problem.minInterval[blocks[i].block]
                <= unassigned[k].available

\* No pass has moved a block or inserted one.
Unimproved == pass = 0 /\ improved = FALSE

Rested ==
    /\ stage = "greedy" => CadenceKept /\ Waits
    /\ Unimproved => CadenceKept

LEMMA GreedyPlaceRested ==
    ASSUME Sound, Sound', Accounted, Rested, GreedyPlace
    PROVE  Rested'
<1> DEFINE n == Len(blocks)
           m == Len(unassigned)
<1>1. /\ TypeOK /\ TypeOK' /\ ProblemOK(problem) /\ unassigned \in Seq(Entries)
      /\ stage = "greedy" /\ currentTime \in Nat /\ Timed
    BY DEF Sound, TypeOK, GreedyPlace, Searching
<1>2. PICK k \in 1 .. m :
         LET item == unassigned[k]
         IN  /\ CanPlace(item)
             /\ Len(blocks') = n + 1
             /\ \A i \in 1 .. n : blocks'[i] = blocks[i]
             /\ blocks'[n + 1] = Placement(item.block, GreedyStart(item.block),
                                   GreedySetup(item.block))
             /\ unassigned' = SubSeq(unassigned, 1, k - 1)
                                \o Again(item, blocks'[n + 1].end)
                                \o SubSeq(unassigned, k + 1, m)
             /\ UNCHANGED <<problem, stage, unscheduled, searchVars>>
    BY GreedyPlaceEffect
<1> DEFINE item == unassigned[k]
           b == item.block
           q == blocks'[n + 1]
<1>3. /\ n \in Nat /\ m \in Nat /\ DOMAIN unassigned = 1 .. m /\ DOMAIN blocks = 1 .. n
      /\ \A j \in 1 .. m : /\ unassigned[j] \in Entries
                           /\ unassigned[j].block \in Blocks
                           /\ unassigned[j].available \in Nat
                           /\ unassigned[j].rem \in Nat
      /\ \A i \in 1 .. n : blocks[i].block \in Blocks /\ blocks[i].end \in Nat
      /\ PrevBlock(n + 1) \in Blocks \cup {None}
    <2>1. n \in Nat /\ n + 1 \in 1 .. n + 1
        BY <1>1, BlocksTypes
    <2>2. PrevBlock(n + 1) \in Blocks \cup {None}
        BY <1>1, <2>1, BlocksTypes
    <2>3. /\ DOMAIN blocks = 1 .. n
          /\ \A i \in 1 .. n : blocks[i].block \in Blocks /\ blocks[i].end \in Nat
        BY <1>1, BlocksTypes
    <2>4. QED
        BY <1>1, <2>1, <2>2, <2>3, EntriesTypes
<1>4. /\ \A i, j \in 1 .. m : unassigned[i].block = unassigned[j].block => i = j
      /\ \A i, j \in 1 .. n : i < j /\ blocks[i].block = blocks[j].block =>
            blocks[j].start >= blocks[i].end + problem.minInterval[blocks[i].block]
      /\ \A i \in 1 .. n, j \in 1 .. m : unassigned[j].block = blocks[i].block =>
            blocks[i].end + problem.minInterval[blocks[i].block]
                <= unassigned[j].available
      /\ \A i \in 1 .. n : blocks[i].end <= currentTime
    BY <1>1, <1>3 DEF Accounted, Distinct, Rested, CadenceKept, Waits, Timed
<1>5. UNCHANGED <<problem, stage, unscheduled, remaining>>
    BY <1>2 DEF searchVars
<1>6. b \in Blocks /\ item \in Entries /\ item.rem \in Nat /\ item.available \in Nat
    BY <1>3
<1>7. /\ problem.duration[b] \in Nat /\ problem.minInterval[b] \in Nat
      /\ GreedySetup(b) \in Nat
      /\ \A c \in Blocks : problem.minInterval[c] \in Nat
    BY <1>1, <1>3, <1>6, ProblemTypes, GreedySetupTypes
<1>8. /\ q.block = b
      /\ q.start = currentTime + GreedySetup(b)
      /\ q.end = q.start + problem.duration[b]
    BY <1>2 DEF Placement, GreedyStart
<1>9. item.available <= currentTime
    BY <1>1, <1>2, <1>6 DEF CanPlace
<1>10. DOMAIN blocks' = 1 .. n + 1 /\ \A i \in 1 .. n + 1 : i = n + 1 \/ i \in 1 .. n
    <2>1. blocks' \in Seq(Slots) /\ Len(blocks') = n + 1
        BY <1>1, <1>2 DEF TypeOK
    <2>2. DOMAIN blocks' = 1 .. n + 1
        BY <2>1, LenProperties
    <2>3. QED
        BY <1>3, <2>2
<1>11. \A i \in 1 .. n : blocks'[i] = blocks[i]
    BY <1>2
<1> DEFINE e == q.end
           again == [item EXCEPT !.rem = @ - 1,
                        !.available = e + problem.minInterval[item.block]]
<1>12. /\ currentTime <= q.start /\ q.start \in Nat
       /\ currentTime <= e /\ e \in Nat
    <2> HIDE DEF q, b
    <2>1. QED
        BY <1>1, <1>7, <1>8
<1>13. unassigned' = IF item.rem = 0
                     THEN SubSeq(unassigned, 1, k - 1) \o <<>> \o SubSeq(unassigned, k + 1, m)
                     ELSE With(unassigned, k, again)
    BY <1>2 DEF Again, With
<1>14. ASSUME NEW i \in DOMAIN unassigned'
       PROVE  \/ unassigned'[i].block = b /\ unassigned'[i].available
                                              = e + problem.minInterval[b]
              \/ /\ unassigned'[i].block # b
                 /\ \E j \in 1 .. m : unassigned'[i] = unassigned[j]
    <2>1. CASE item.rem = 0
        <3>1. /\ Len(unassigned') = m - 1
              /\ unassigned' \in Seq(Entries)
              /\ \A x \in 1 .. m - 1 :
                    unassigned'[x] = unassigned[IF x < k THEN x ELSE x + 1]
            BY <1>1, <1>13, <2>1, Dropped
        <3>2. i \in 1 .. m - 1
            BY <3>1, LenProperties
        <3>3. PICK j \in 1 .. m : j # k /\ unassigned'[i] = unassigned[j]
            <4>1. CASE i < k
                <5>1. i \in 1 .. m /\ i # k /\ unassigned'[i] = unassigned[i]
                    BY <1>3, <3>1, <3>2, <4>1
                <5>2. QED
                    BY <5>1
            <4>2. CASE ~(i < k)
                <5>1. i + 1 \in 1 .. m /\ i + 1 # k /\ unassigned'[i] = unassigned[i + 1]
                    BY <1>3, <3>1, <3>2, <4>2
                <5>2. QED
                    BY <5>1
            <4>3. QED
                BY <4>1, <4>2
        <3>4. QED
            BY <1>4, <3>3
    <2>2. CASE item.rem # 0
        <3>1. again \in Entries
            <4>1. item.rem - 1 \in Nat
                BY <1>6, <2>2
            <4>2. e + problem.minInterval[item.block] \in Nat
                BY <1>7, <1>12
            <4> HIDE DEF item, e
            <4>3. QED
                BY <1>6, <4>1, <4>2 DEF Entries
        <3>2. again.block = b /\ again.available = e + problem.minInterval[b]
            <4> HIDE DEF e
            <4>1. item \in [block : Blocks, available : Nat, rem : Nat]
                BY <1>6 DEF Entries
            <4>2. QED
                BY <4>1
        <3> HIDE DEF again, e
        <3>3. unassigned' = With(unassigned, k, again) /\ unassigned \in Seq(Entries)
            BY <1>1, <1>13, <2>2
        <3>4. IsWith(unassigned', Entries, unassigned, k, again)
            <4> HIDE DEF item, b, m
            <4>1. k \in 1 .. Len(unassigned)
                BY DEF m
            <4>2. IsWith(With(unassigned, k, again), Entries, unassigned, k, again)
                BY <3>1, <3>3, <4>1, Replaced
            <4>3. QED
                BY <3>3, <4>2
        <3>5. /\ DOMAIN unassigned' = 1 .. m
              /\ \A x \in 1 .. m : unassigned'[x] = IF x = k THEN again ELSE unassigned[x]
            BY <3>4, LenProperties DEF IsWith
        <3>6. CASE i = k
            BY <3>2, <3>5, <3>6
        <3>7. CASE i # k
            BY <1>4, <3>5, <3>7
        <3>8. QED
            BY <3>6, <3>7
    <2>3. QED
        BY <2>1, <2>2
<1> HIDE DEF n, m, item, b, q, e
<1>15. CadenceKept'
    <2>1. ASSUME NEW i \in 1 .. n + 1, NEW j \in 1 .. n + 1, i < j,
                 blocks'[i].block = blocks'[j].block
          PROVE  blocks'[j].start
                    >= blocks'[i].end + problem.minInterval[blocks'[i].block]
        <3>1. i \in 1 .. n /\ blocks'[i] = blocks[i]
            BY <1>3, <1>10, <1>11, <2>1
        <3>2. CASE j \in 1 .. n
            BY <1>4, <1>11, <2>1, <3>1, <3>2
        <3>3. CASE j = n + 1
            <4>1. blocks[i].block = b
                BY <1>8, <2>1, <3>1, <3>3 DEF q
            <4>2. blocks[i].end + problem.minInterval[b] <= item.available
                BY <1>4, <3>1, <4>1 DEF item, b
            <4>3. blocks[i].end \in Nat
                BY <1>3, <3>1
            <4>4. blocks[i].end + problem.minInterval[b] <= q.start
                BY <1>1, <1>6, <1>7, <1>9, <1>12, <4>2, <4>3
            <4>5. QED
                BY <3>1, <3>3, <4>1, <4>4 DEF q
        <3>4. QED
            BY <1>10, <3>2, <3>3
    <2>2. QED
        BY <1>5, <1>10, <2>1 DEF CadenceKept
<1>16. Waits'
    <2>1. ASSUME NEW i \in 1 .. n + 1, NEW x \in DOMAIN unassigned',
                 unassigned'[x].block = blocks'[i].block
          PROVE  blocks'[i].end + problem.minInterval[blocks'[i].block]
                    <= unassigned'[x].available
        <3>1. CASE unassigned'[x].block = b
                   /\ unassigned'[x].available = e + problem.minInterval[b]
            <4>1. blocks'[i].end <= e /\ blocks'[i].end \in Nat
                <5>1. CASE i = n + 1
                    BY <1>12, <5>1 DEF e, q
                <5>2. CASE i \in 1 .. n
                    BY <1>1, <1>3, <1>4, <1>11, <1>12, <5>2
                <5>3. QED
                    BY <1>10, <5>1, <5>2
            <4>2. blocks'[i].block = b
                BY <2>1, <3>1
            <4>3. QED
                BY <1>7, <1>12, <3>1, <4>1, <4>2
        <3>2. CASE /\ unassigned'[x].block # b
                   /\ \E j \in 1 .. m : unassigned'[x] = unassigned[j]
            <4>1. i # n + 1
                BY <1>8, <2>1, <3>2 DEF q
            <4>2. i \in 1 .. n /\ blocks'[i] = blocks[i]
                BY <1>10, <1>11, <4>1
            <4>3. QED
                BY <1>4, <2>1, <3>2, <4>2
        <3>3. QED
            BY <1>14, <3>1, <3>2
    <2>2. QED
        BY <1>5, <1>10, <2>1 DEF Waits
<1>17. QED
    BY <1>15, <1>16 DEF Rested

\* The greedy search keeps the cadence asked of it, and as long as no pass has
\* changed anything the schedule still does, so it is the passes that break it;
\* the list as given naming no block twice.
THEOREM GreedyCadenceKept ==
    ASSUME \A p \in Problems : ProblemOK(p) => ListedOnce(p)
    PROVE  Spec => [](Unimproved => CadenceKept)
<1>1. Init => Accounted /\ Rested
    <2>1. Init => problem \in Problems /\ ProblemOK(problem)
        BY DEF Init
    <2>2. Init => Rested
        BY DEF Init, Rested, CadenceKept, Waits
    <2>3. QED
        BY <2>1, <2>2, InitAccounted
<1>2. Sound /\ Sound' /\ Accounted /\ Rested /\ [Next]_vars => Rested'
    <2> SUFFICES ASSUME Sound, Sound', Accounted, Rested, [Next]_vars
                 PROVE  Rested'
        OBVIOUS
    <2>1. CASE GreedyPlace
        BY <2>1, GreedyPlaceRested
    <2>2. CASE GreedyWait \/ SwapSkips \/ UNCHANGED vars
        BY <2>2 DEF GreedyWait, SwapSkips, vars, greedyVars, searchVars, Rested,
                    Unimproved, CadenceKept, Waits
    <2>3. CASE GreedyEnds \/ SwapEnds \/ InsertSkips
        BY <2>3 DEF GreedyEnds, SwapEnds, InsertSkips, greedyVars, searchVars,
                    Rested, Unimproved, CadenceKept
    <2>4. CASE SwapPair \/ Insert
        <3>1. improved' # FALSE /\ stage' # "greedy"
            BY <2>4, Zenon DEF SwapPair, Insert
        <3>2. QED
            BY <3>1 DEF Rested, Unimproved
    <2>5. CASE PassEnds
        <3>1. pass' # 0 /\ stage' # "greedy"
            BY <2>5 DEF PassEnds, Sound, TypeOK
        <3>2. QED
            BY <3>1 DEF Rested, Unimproved
    <2>6. QED
        BY <2>1, <2>2, <2>3, <2>4, <2>5 DEF Next
<1>3. Rested => (Unimproved => CadenceKept)
    BY DEF Rested
<1>4. Sound /\ Sound' /\ Accounted /\ [Next]_vars => Accounted'
    BY NextAccounted
<1>5. QED
    BY <1>1, <1>2, <1>3, <1>4, SchedulerSound, PTL DEF Spec

===========================================================================
