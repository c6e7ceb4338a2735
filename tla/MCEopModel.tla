----------------------------- MODULE MCEopModel -----------------------------
(***************************************************************************)
(* Two lookups and one Reset, over a clock that runs for longer than one   *)
(* cooldown. The cfgs give every constant its value.                       *)
(***************************************************************************)
EXTENDS EopModel
=============================================================================
