----------------------------- MODULE MCDialBack -----------------------------
(* Small instances of DialBack. *)
EXTENDS DialBack, TLC

NoRemap == <<>>
Symmetry == Permutations(Server)
=============================================================================
