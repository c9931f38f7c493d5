----------------------------- MODULE MCOutputClaim -----------------------------
(***************************************************************************)
(* OutputClaim for TLC: the paths of the cases are interchangeable.        *)
(***************************************************************************)
EXTENDS OutputClaim, TLC

Interchangeable == Permutations(CasePaths)
===============================================================================
