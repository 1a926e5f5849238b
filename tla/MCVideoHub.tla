----------------------------- MODULE MCVideoHub -----------------------------
(* Two viewers with queues of two frames and a backlog of two; five frame   *)
(* numbers give an overflow of either, an IDR after it, and a second        *)
(* encoder.                                                                 *)
EXTENDS VideoHub, TLC

CONSTANTS v1, v2

Symmetry == Permutations({v1, v2})

=============================================================================
