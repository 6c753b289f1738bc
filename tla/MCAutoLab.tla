------------------------------ MODULE MCAutoLab ------------------------------
(* Small instances of AutoLab. *)
EXTENDS AutoLabClaims

\* Init chooses a member of Zones; nothing tells references apart.
Symmetry == Permutations(Refs)
=============================================================================
