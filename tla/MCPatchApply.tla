---------------------------- MODULE MCPatchApply ----------------------------
(***************************************************************************)
(* PatchApply for TLC: the files are interchangeable.                      *)
(***************************************************************************)
EXTENDS PatchApply, TLC

Symmetry == Permutations(Paths)
=============================================================================
