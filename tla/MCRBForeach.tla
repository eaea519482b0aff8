---------------------------- MODULE MCRBForeach ----------------------------
(* The red-black tree and its loops for TLC: loops run over trees of a few *)
(* of the keys only.                                                       *)
EXTENDS RBForeach

CONSTANTS LoopKeys

Bounded == x' # Null \/ side' = "left" => KeysIn(tree') \subseteq LoopKeys

NextBounded == NextLoop /\ Bounded

FairBounded == InitLoop /\ [][NextBounded]_loopVars /\ WF_loopVars(Settle)
=============================================================================
