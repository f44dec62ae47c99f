------------------------------- MODULE Offsets -------------------------------
(***************************************************************************)
(* The stages in which a curve is put together (offset_e).                 *)
(***************************************************************************)
EXTENDS Integers

SEED == 0
FIELD == 1
A == 2
B == 3
CURVE == 4
ORDER == 5
GENERATORS == 6
POINTS == 7
METADATA == 8
END == 9

Stage == SEED .. METADATA   \* each has its product in the curve_t

\* Products with memory on the heap, which only their unroll function or
\* curve_free gives back.
OnHeap == {SEED, CURVE, GENERATORS, POINTS}

INT_MIN == -100   \* stands for the C constant, far below any difference
==============================================================================
