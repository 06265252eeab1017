--------------------------- MODULE MCChatPipeline ---------------------------
(***************************************************************************)
(* ChatPipeline for TLC: every turn is in the one conversation there is,   *)
(* and the turns are interchangeable (no run that checks liveness uses     *)
(* the symmetry).                                                          *)
(***************************************************************************)
EXTENDS ChatPipeline, TLC

OneSession == [t \in Turns |-> CHOOSE s \in Sessions : TRUE]

TurnSymmetry == Permutations(Turns)
=============================================================================
