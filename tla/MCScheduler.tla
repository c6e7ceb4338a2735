---------------------------- MODULE MCScheduler ----------------------------
(***************************************************************************)
(* Small instances of Scheduler: three blocks, one observed again or not,  *)
(* each in every combination of the intervals it may be up for, of scores  *)
(* that rise, fall or peak with time, and of the costs of slewing.         *)
(***************************************************************************)
EXTENDS Scheduler, TLC

CONSTANTS b1, b2, b3

Ups == {0..Horizon, 0..3, 2..Horizon}
Scores == {[t \in 0..Horizon |-> t], [t \in 0..Horizon |-> Horizon - t],
           [t \in 0..Horizon |-> IF t = 3 THEN 4 ELSE -1]}

\* What a slew costs: always the same, or more out of b2 once it has sunk, or
\* less to b3 once it has risen.
Costs == {"flat", "setting", "rising"}
Cost(m, f, t, leave, arrive) ==
    CASE m = "flat"    -> 1
      [] m = "setting" -> IF f = b2 /\ leave >= 3 THEN 2 ELSE IF f = None THEN 1 ELSE 0
      [] m = "rising"  -> IF t = b3 /\ arrive < 4 THEN 2 ELSE 0
SlewCosts ==
    [m \in Costs |->
      [f \in Blocks \cup {None} |->
        [t \in Blocks |->
          [leave \in 0..Horizon |-> [arrive \in 0..Horizon |->
             Cost(m, f, t, leave, arrive)]]]]]

Given ==
    [order : {<<b1, b2, b3>>}, base : {"greedy", "priority"}, step : {1, 2},
     priority : {b1 :> 1 @@ b2 :> 2 @@ b3 :> 2},
     duration : {b1 :> 1 @@ b2 :> 2 @@ b3 :> 1},
     repeats : {b1 :> 0 @@ b2 :> 0 @@ b3 :> 0, b1 :> 1 @@ b2 :> 0 @@ b3 :> 0},
     minInterval : {b1 :> 2 @@ b2 :> 0 @@ b3 :> 0},
     up : [Blocks -> Ups], score : [Blocks -> Scores], transition : Costs]
=============================================================================
