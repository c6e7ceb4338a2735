----------------------------- MODULE Scheduler -----------------------------
(* The observation scheduler of package plan: GreedyStrategy and            *)
(* PriorityStrategy build a schedule forwards in time (schedule.go), and    *)
(* SwapOptimizedStrategy improves it by passes of adjacent swaps and of     *)
(* insertions into the gaps (strategy.go).                                  *)
(*                                                                          *)
(* The window is 0..Horizon. What the sky, the site and the user decide is  *)
(* a problem, chosen at the start and fixed: when each block's constraints  *)
(* hold, what its score is at each start, and what each slew costs when.    *)
(* The code keys the tabu list and the merged constraints by Block.ID; here *)
(* every block has an ID of its own, which nothing in the code checks.      *)
EXTENDS Integers, Sequences, FiniteSets, SequencesExt, Sorting

CONSTANTS
    Blocks,     \* the blocks to observe
    None,       \* "from" of the first slew of the night
    Problems,   \* the problems explored, see ProblemOK
    Transitions, \* the transition models explored
    SlewCost,   \* what a slew costs under each: from a block, to a block, when
                \* it is left, and about when the telescope gets there
    Horizon,    \* the end of the window; its start is 0
    MaxPasses,  \* SwapOptimizedStrategy.MaxPasses
    Tenure      \* how many passes a swapped pair stays tabu, 0 for no tabu

ASSUME NoneAssumption == None \notin Blocks
ASSUME BoundsAssumption == /\ Horizon \in Nat
                           /\ MaxPasses \in Nat \ {0}
                           /\ Tenure \in Nat
ASSUME SlewAssumption ==
    SlewCost \in [Transitions ->
                    [Blocks \cup {None} ->
                      [Blocks -> [0..Horizon -> [0..Horizon -> Nat]]]]]

VARIABLES
    problem,      \* the problem being solved
    stage,        \* "greedy", "swap", "insert" or "done"
    currentTime,  \* how far the greedy search has come
    unassigned,   \* its items: a block, when it is available, repeats to come
    blocks,       \* Schedule.Blocks
    unscheduled,  \* Schedule.Unscheduled; in an insert pass, those not tried
    remaining,    \* those an insert pass tried and could not place
    pass,         \* the number of the pass, from 0
    idlePasses,   \* passes in a row that changed nothing
    improved,     \* whether this pass changed anything
    at,           \* the pair a swap pass is about to try
    tabu          \* the swaps made: <<a, b, pass>>

vars == <<problem, stage, currentTime, unassigned, blocks, unscheduled,
          remaining, pass, idlePasses, improved, at, tabu>>
greedyVars == <<currentTime, unassigned>>
searchVars == <<remaining, pass, idlePasses, improved, at, tabu>>

---------------------------------------------------------------------------
(* What the problem says.                                                  *)

ProblemOK(p) ==
    /\ p.order \in Seq(Blocks)                     \* the list as given
    /\ p.base \in {"greedy", "priority"}
    /\ p.step \in Nat \ {0}    \* the time increment of searches and checks
    /\ p.priority \in [Blocks -> Int]
    /\ p.duration \in [Blocks -> Nat \ {0}]
    /\ p.repeats \in [Blocks -> Nat]               \* Cadence.Repeats
    /\ p.minInterval \in [Blocks -> Nat]           \* Cadence.MinInterval
    /\ p.up \in [Blocks -> SUBSET (0..Horizon)]    \* its constraints pass
    /\ p.score \in [Blocks -> [0..Horizon -> Int]] \* by time of start
    /\ p.transition \in Transitions

\* The cost of a slew begun at fromTime and thought to end at toTime. Past the
\* window it is what it is at its end: nothing is placed there.
InWindow(t) == IF t > Horizon THEN Horizon ELSE t
Overhead(from, to, fromTime, toTime) ==
    SlewCost[problem.transition][from][to][InWindow(fromTime)][InWindow(toTime)]

\* Whether that is the cost of a slew begun between earliest and latest.
IsSlew(cost, from, to, earliest, latest) ==
    \E leave \in earliest..latest, arrive \in 0..Horizon :
       cost = Overhead(from, to, leave, arrive)

\* The instants a placement is checked at: every step from its start, and
\* its end.
Checked(start, end) ==
    {t \in start..end : (t - start) % problem.step = 0} \cup {end}

Observable(b, start) ==
    Checked(start, start + problem.duration[b]) \subseteq problem.up[b]

Placement(b, start, setup) ==
    [block |-> b, start |-> start, end |-> start + problem.duration[b],
     setup |-> setup, score |-> problem.score[b][start]]

\* sort.SliceStable by priority, highest first.
ByPriority(s) ==
    LET before == {ij \in (DOMAIN s) \X (DOMAIN s) :
                     LET p == problem.priority[s[ij[1]]]
                         q == problem.priority[s[ij[2]]]
                     IN  p > q \/ (p = q /\ ij[1] < ij[2])}
        order == InOrder(DOMAIN s, before)
    IN  [k \in DOMAIN s |-> s[order[k]]]

ByStart(placements) ==
    InOrder(placements,
            {pq \in placements \X placements : pq[1].start < pq[2].start})

\* The block before place i, and when it ends.
PrevBlock(i) == IF i = 1 THEN None ELSE blocks[i - 1].block
PrevEnd(i) == IF i = 1 THEN 0 ELSE blocks[i - 1].end

---------------------------------------------------------------------------
(* The greedy pass.                                                        *)

Init ==
    /\ problem \in {p \in Problems : ProblemOK(p)}
    /\ stage = "greedy"
    /\ currentTime = 0
    /\ unassigned =
         LET list == IF problem.base = "greedy"
                     THEN problem.order ELSE ByPriority(problem.order)
         IN  [k \in DOMAIN list |->
                [block |-> list[k], available |-> 0,
                 rem |-> problem.repeats[list[k]]]]
    /\ blocks = <<>>
    /\ unscheduled = <<>>
    /\ remaining = <<>>
    /\ pass = 0
    /\ idlePasses = 0
    /\ improved = FALSE
    /\ at = 1
    /\ tabu = {}

Searching == stage = "greedy" /\ currentTime < Horizon /\ unassigned # <<>>

\* The cost of the slew to b, first for an arrival at once and then for the
\* arrival that gives.
GreedySetup(b) ==
    LET from == PrevBlock(Len(blocks) + 1)
        guess == Overhead(from, b, currentTime, currentTime)
    IN  Overhead(from, b, currentTime, currentTime + guess)

GreedyStart(b) == currentTime + GreedySetup(b)

CanPlace(item) ==
    LET start == GreedyStart(item.block)
    IN  /\ currentTime >= item.available
        /\ start + problem.duration[item.block] <= Horizon
        /\ Observable(item.block, start)

\* Faulty variant of Again: its repeats are not counted down.
AgainUncounted(item, end) ==
    IF item.rem = 0 THEN <<>>
    ELSE <<[item EXCEPT !.available = end + problem.minInterval[item.block]]>>

\* The item left when one of its observations has been placed, if any is.
Again(item, end) ==
    IF item.rem = 0 THEN <<>>
    ELSE <<[item EXCEPT !.rem = @ - 1,
                        !.available = end + problem.minInterval[item.block]]>>

\* The first item of the list that can be observed now is placed.
GreedyPlace ==
    /\ Searching
    /\ \E k \in DOMAIN unassigned :
         LET item == unassigned[k]
             placed == Placement(item.block, GreedyStart(item.block),
                                 GreedySetup(item.block))
         IN  /\ CanPlace(item)
             /\ \A j \in 1..(k - 1) : ~CanPlace(unassigned[j])
             /\ blocks' = Append(blocks, placed)
             /\ currentTime' = placed.end
             /\ unassigned' = SubSeq(unassigned, 1, k - 1)
                                \o Again(item, placed.end)
                                \o SubSeq(unassigned, k + 1, Len(unassigned))
    /\ UNCHANGED <<problem, stage, unscheduled, searchVars>>

\* Nothing can be placed: a step on, or, if every item is waiting for its
\* cadence, to the first that stops waiting.
NextTime ==
    LET waits == {unassigned[k].available : k \in DOMAIN unassigned}
    IN  IF \A a \in waits : currentTime < a
        THEN CHOOSE t \in waits \cup {Horizon} :
               \A a \in waits \cup {Horizon} : t <= a
        ELSE currentTime + problem.step

GreedyWait ==
    /\ Searching
    /\ \A k \in DOMAIN unassigned : ~CanPlace(unassigned[k])
    /\ currentTime' = NextTime
    /\ UNCHANGED <<problem, stage, unassigned, blocks, unscheduled, searchVars>>

GreedyEnds ==
    /\ stage = "greedy"
    /\ ~Searching
    /\ stage' = "swap"
    /\ unscheduled' = [k \in DOMAIN unassigned |-> unassigned[k].block]
    /\ unassigned' = <<>>
    /\ UNCHANGED <<problem, currentTime, blocks, searchVars>>

---------------------------------------------------------------------------
(* The swap pass, over the pairs at, at + 1 of the schedule.               *)

\* Faulty variant of SwapStart, as it was until #547.
SwapStartInPlace(i) == blocks[i].start

\* What the slew costs and when block i + 1 starts if it is moved into the
\* place of block i.
SwapSetup(i) ==
    Overhead(PrevBlock(i), blocks[i + 1].block, PrevEnd(i), blocks[i].start)

SwapStart(i) ==
    LET earliest == PrevEnd(i) + SwapSetup(i)
    IN  IF earliest > blocks[i].start THEN earliest ELSE blocks[i].start

\* The pair in its new order.
Swapped(i) ==
    LET bi == blocks[i].block
        bj == blocks[i + 1].block
        j == Placement(bj, SwapStart(i), SwapSetup(i))
        back == Overhead(bj, bi, j.end, j.end)
    IN  <<j, Placement(bi, j.end + back, back)>>

\* The slew to what follows from a block that ends at end, and whether there
\* is time for it.
NextSetup(b, end, next) ==
    IF next \in DOMAIN blocks
    THEN Overhead(b, blocks[next].block, end, blocks[next].start) ELSE 0

ReachesNext(b, end, next) ==
    next \in DOMAIN blocks =>
        end + NextSetup(b, end, next) <= blocks[next].start

\* Where the pair would go, with no score looked up: it may lie past the end.
SwapFits(i) ==
    LET bi == blocks[i].block
        bj == blocks[i + 1].block
        endJ == SwapStart(i) + problem.duration[bj]
        startI == endJ + Overhead(bj, bi, endJ, endJ)
        endI == startI + problem.duration[bi]
    IN  /\ Observable(bj, SwapStart(i))
        /\ endI <= Horizon
        /\ ReachesNext(bi, endI, i + 2)
        /\ Observable(bi, startI)

\* Faulty variant of NoWorse: the block that moves up decides alone.
NoWorseForOne(i) == Swapped(i)[1].score >= blocks[i + 1].score

NoWorse(i) ==
    Swapped(i)[1].score + Swapped(i)[2].score
        >= blocks[i].score + blocks[i + 1].score

\* Keyed by the pair of Block.ID; blocks that share an ID, or have none, are
\* left out.
IsTabu(a, b) ==
    \E s \in tabu : {s[1], s[2]} = {a, b} /\ pass - s[3] < Tenure

SetSetup(s, i, setup) ==
    IF i \in DOMAIN s THEN [s EXCEPT ![i].setup = setup] ELSE s

Swaps(i) ==
    /\ SwapFits(i)
    /\ NoWorse(i)
    /\ ~IsTabu(blocks[i].block, blocks[i + 1].block)

SwapPair ==
    /\ stage = "swap"
    /\ at < Len(blocks)
    /\ Swaps(at)
    /\ blocks' = SetSetup([blocks EXCEPT ![at] = Swapped(at)[1],
                                         ![at + 1] = Swapped(at)[2]],
                          at + 2, NextSetup(blocks[at].block, Swapped(at)[2].end,
                                            at + 2))
    /\ LET a == blocks[at].block
           b == blocks[at + 1].block
       IN  tabu' = {s \in tabu : <<s[1], s[2]>> # <<a, b>>}
                     \cup {<<a, b, pass>>}
    /\ improved' = TRUE
    /\ at' = at + 1
    /\ UNCHANGED <<problem, stage, greedyVars, unscheduled, remaining, pass,
                   idlePasses>>

SwapSkips ==
    /\ stage = "swap"
    /\ at < Len(blocks)
    /\ ~Swaps(at)
    /\ at' = at + 1
    /\ UNCHANGED <<problem, stage, greedyVars, blocks, unscheduled, remaining,
                   pass, idlePasses, improved, tabu>>

SwapEnds ==
    /\ stage = "swap"
    /\ at >= Len(blocks)
    /\ stage' = "insert"
    /\ unscheduled' = ByPriority(unscheduled)
    /\ UNCHANGED <<problem, greedyVars, blocks, searchVars>>

---------------------------------------------------------------------------
(* The insert pass, over the unscheduled blocks.                           *)

\* Faulty variant of Gaps: the night ends with its last block.
GapsBetween ==
    {g \in {[next |-> i, start |-> PrevEnd(i), end |-> blocks[i].start] :
              i \in DOMAIN blocks} : g.start < g.end}

\* scheduleGaps: the idle intervals, each with the place it is before.
Gaps ==
    {g \in {[next |-> i, start |-> PrevEnd(i),
             end |-> IF i > Len(blocks) THEN Horizon ELSE blocks[i].start] :
              i \in 1..(Len(blocks) + 1)} : g.start < g.end}

InsertSetup(b, g) == Overhead(PrevBlock(g.next), b, g.start, g.start)
InsertStart(b, g) == g.start + InsertSetup(b, g)

FitsGap(b, g) ==
    LET end == InsertStart(b, g) + problem.duration[b]
    IN  /\ end <= g.end
        /\ ReachesNext(b, end, g.next)
        /\ Observable(b, InsertStart(b, g))

\* The next unscheduled block goes into the first gap it fits.
Insert ==
    /\ stage = "insert"
    /\ unscheduled # <<>>
    /\ \E g \in Gaps :
         LET b == Head(unscheduled)
             placed == Placement(b, InsertStart(b, g), InsertSetup(b, g))
             moved == SetSetup(blocks, g.next, NextSetup(b, placed.end, g.next))
         IN  /\ FitsGap(b, g)
             /\ \A f \in Gaps : f.start < g.start => ~FitsGap(b, f)
             /\ blocks' = ByStart(ToSet(moved) \cup {placed})
    /\ unscheduled' = Tail(unscheduled)
    /\ improved' = TRUE
    /\ UNCHANGED <<problem, stage, greedyVars, remaining, pass, idlePasses, at,
                   tabu>>

InsertSkips ==
    /\ stage = "insert"
    /\ unscheduled # <<>>
    /\ \A g \in Gaps : ~FitsGap(Head(unscheduled), g)
    /\ unscheduled' = Tail(unscheduled)
    /\ remaining' = Append(remaining, Head(unscheduled))
    /\ UNCHANGED <<problem, stage, greedyVars, blocks, pass, idlePasses,
                   improved, at, tabu>>

\* A pass is over; the search stops after two that changed nothing.
PassEnds ==
    /\ stage = "insert"
    /\ unscheduled = <<>>
    /\ unscheduled' = remaining
    /\ remaining' = <<>>
    /\ idlePasses' = IF improved THEN 0 ELSE idlePasses + 1
    /\ pass' = pass + 1
    /\ stage' = IF idlePasses' >= 2 \/ pass' = MaxPasses
                THEN "done" ELSE "swap"
    /\ improved' = FALSE
    /\ at' = 1
    /\ UNCHANGED <<problem, greedyVars, blocks, tabu>>

---------------------------------------------------------------------------

Next == \/ GreedyPlace \/ GreedyWait \/ GreedyEnds
        \/ SwapPair \/ SwapSkips \/ SwapEnds
        \/ Insert \/ InsertSkips \/ PassEnds

Spec == Init /\ [][Next]_vars

---------------------------------------------------------------------------
(* Properties.                                                             *)

\* The schedule can be carried out: every block lies in the window, is
\* observable at every instant checked, and starts no sooner than the
\* telescope, done with the block before it, has slewed; and the setup time
\* recorded for it is that of a slew from there, begun when the block before
\* was done and not later than this one starts. Each pass moves blocks under
\* the feet of the ones after them (strategy.go until #547).
Feasible ==
    \A i \in DOMAIN blocks :
        LET p == blocks[i]
        IN  /\ p.end <= Horizon
            /\ Observable(p.block, p.start)
            /\ IsSlew(p.setup, PrevBlock(i), p.block, PrevEnd(i), p.start)
            /\ p.start >= PrevEnd(i) + p.setup

\* The score of a schedule, added up block by block.
Total ==
    LET sum[i \in 0..Len(blocks)] ==
          IF i = 0 THEN 0 ELSE sum[i - 1] + blocks[i].score
    IN  sum[Len(blocks)]

\* "Optimization is monotonic: the total schedule score never decreases"
\* (strategy.go:19), each block being scored where it now stands. A score may be
\* negative (where scoring fails it is the block's Priority), and then the
\* sentence holds of swaps and not of insertions: inserting such a block lowers
\* the total by its score, and nothing else ever does.
ScoreNeverFalls ==
    [][/\ stage # "greedy" /\ Total' < Total =>
            /\ stage = "insert"
            /\ \E i \in DOMAIN blocks' :
                 blocks'[i].score < 0 /\ Total' = Total + blocks'[i].score
       /\ \A i \in DOMAIN blocks' :
            blocks'[i].score = problem.score[blocks'[i].block][blocks'[i].start]
      ]_vars

Times(b) == Cardinality({i \in DOMAIN blocks : blocks[i].block = b})
Pending(b) ==
    Cardinality({i \in DOMAIN unassigned : unassigned[i].block = b})
        + Cardinality({i \in DOMAIN unscheduled : unscheduled[i] = b})
        + Cardinality({i \in DOMAIN remaining : remaining[i] = b})

\* No block is lost and none is observed more often than was asked: a block
\* is in the schedule or listed as not scheduled, once in all when it is not
\* to be repeated.
AllAccounted ==
    \A b \in ToSet(problem.order) :
        /\ Times(b) <= 1 + problem.repeats[b]
        /\ Pending(b) <= 1
        /\ Times(b) + Pending(b) >= 1
        /\ problem.repeats[b] = 0 => Times(b) + Pending(b) = 1

\* A search that stopped because it converged reports a block as not
\* scheduled only if, begun as soon as the telescope gets there, it fits
\* neither before the first block, nor between two, nor after the last.
NothingLeftFits ==
    stage = "done" /\ idlePasses >= 2 =>
        \A k \in DOMAIN unscheduled, i \in 1..(Len(blocks) + 1) :
            LET b == unscheduled[k]
                start == PrevEnd(i) + Overhead(PrevBlock(i), b, PrevEnd(i), PrevEnd(i))
                end == start + problem.duration[b]
            IN  \/ ~Observable(b, start)
                \/ end > Horizon
                \/ ~ReachesNext(b, end, i)

\* "Minimum time to wait before re-observing" (schedule.go:22): a block is
\* not observed again sooner than that after the end of its last observation.
CadenceKept ==
    \A i, j \in DOMAIN blocks :
        i < j /\ blocks[i].block = blocks[j].block =>
            blocks[j].start >=
                blocks[i].end + problem.minInterval[blocks[i].block]

=============================================================================
