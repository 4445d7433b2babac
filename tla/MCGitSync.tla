----------------------------- MODULE MCGitSync -----------------------------
(***************************************************************************)
(* A current branch, one that only the origin has, and a ref that is not a *)
(* branch; a stash in which the user's entry lies below those of earlier   *)
(* updates; two submodules and two edits, so that the first pop can        *)
(* succeed and the second fail.                                            *)
(***************************************************************************)
EXTENDS GitSync, TLC

CONSTANTS main, rel, pr, u, a, b, e1, e2

Local == {main}
Origin == {main, rel}
Others == {pr}
FallbackOrder == <<rel>>
SomeLeftovers == {<<"ours", "ours", u>>}
TwoSubmodules == <<a, b>>
TwoEdits == {e1, e2}

Symmetry == Permutations(TwoEdits)
=============================================================================
