--------------------------- MODULE MCLeapSeconds ---------------------------
(***************************************************************************)
(* A record of three steps over seven days, and tables of up to three      *)
(* entries, which can restate it, extend it, stop short of its end, skip   *)
(* a step or contradict it.                                                *)
(***************************************************************************)
EXTENDS LeapSeconds

ThreeSteps == << [day |-> 2, dat |-> 10], [day |-> 4, dat |-> 11], [day |-> 6, dat |-> 12] >>
SevenDays == 1 .. 7
NearbyValues == 9 .. 13
=============================================================================
