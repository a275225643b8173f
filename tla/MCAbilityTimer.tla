--------------------------- MODULE MCAbilityTimer ---------------------------
(* The condition timer on a small instance; its threads are alike. *)
EXTENDS AbilityConditionTimer, TLC

Symmetric == Permutations(Thread)
==============================================================================
