----------------------------- MODULE MCBumpHeap -----------------------------
(***************************************************************************)
(* BumpHeap scaled down: 2 bytes for 16 (headers, least alignment), 8 for  *)
(* the 4096 of a page, 2^7 for the range of size_t.                        *)
(***************************************************************************)
EXTENDS BumpHeap, TLC

CONSTANTS v1, v2

MCRequest == {0, 3, 6}
PageAlignment == {1, 8}
BeyondPageAlignment == {8, 16}
MCValue == {v1, v2}

\* One product that fits, one of zero, two that wrap: to zero and to two.
MCCallocArg == {<<1, 3>>, <<0, 5>>, <<16, 8>>, <<65, 2>>}

Symmetry == Permutations(MCValue)
=============================================================================
