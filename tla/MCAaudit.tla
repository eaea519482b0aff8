----------------------------- MODULE MCAaudit ------------------------------
(***************************************************************************)
(* Instances of Aaudit for TLC.  The processes are alike, and so are the   *)
(* contents of a file; only invariants are checked under the symmetry.     *)
(***************************************************************************)
EXTENDS AauditProps, TLC

(* Files of the same contents are taken for renamed, others for new.       *)
SameContents == {<<c, c>> : c \in Contents}

Symmetry == Permutations(Handlers) \cup Permutations(Contents)
=============================================================================
