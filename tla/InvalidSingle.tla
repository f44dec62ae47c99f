----------------------------- MODULE InvalidSingle -----------------------------
(***************************************************************************)
(* The invalid-curve method with one thread: invalid_do around             *)
(* invalid_curves_single.                                                  *)
(*                                                                         *)
(* A curve_t is a heap object, named by a number; its parameters are on    *)
(* the PARI stack, at the stack depth `depth` recorded when they were put  *)
(* there.  The driver hands the curve_t it works on over to the array of   *)
(* results, and copies it only for the second and later primes one curve   *)
(* serves.                                                                 *)
(***************************************************************************)
EXTENDS Integers, FiniteSets, Sequences

CONSTANTS
  N,      \* bound on nprimes, what invalid_primes returns
  None    \* NULL

ASSUME NAssumption == N \in Nat

Prime == 0 .. N - 1    \* indices of the arrays `primes` and `curves`
Object == 1 .. 2 * N + 1   \* every curve_t the driver can allocate

ASSUME NoneAssumption == None \notin Object

VARIABLES
  nprimes,   \* what invalid_primes returns, fixed by the option and the order
  pc,        \* where the driver is
  order,     \* the primes that divide invalid->order
  curves,    \* curves[i]: the curve_t of the i-th prime
  invalid,   \* the curve_t being worked on
  ncurves,   \* how many primes have their curve
  cursor,    \* index i + 1 of the saving loop
  count,     \* how many primes the curve at hand has been saved for
  output,    \* what was written
  heap,      \* the allocated curve_t
  avma,      \* depth of the PARI stack
  btop,      \* its depth at the top of the loop
  depth,     \* depth[o]: depth at which the parameters of o end
  live       \* the curve_t whose parameters were not given back

memory == <<heap, avma, btop, depth, live>>
vars == <<nprimes, pc, order, curves, invalid, ncurves, cursor, count, output,
          memory>>

\* What output_o_begin, output_o_end, output_o_separator and output_o of the
\* original curve write; output_o of an invalid curve writes its index.
Begin == -1
End == -2
Separator == -3
Original == -4

Fresh == CHOOSE o \in Object : o \notin heap

Init ==
  /\ nprimes \in 0 .. N
  /\ pc = "start"
  /\ order = {}
  /\ curves = [i \in Prime |-> None]
  /\ invalid = None
  /\ ncurves = 0
  /\ cursor = 0
  /\ count = 0
  /\ output = <<>>
  /\ heap = {}
  /\ avma = 0
  /\ btop = 0
  /\ depth = [o \in Object |-> 0]
  /\ live = {}

\* invalid_original_curve: without it the program exits and writes nothing.
NoOriginal ==
  /\ pc = "start"
  /\ pc' = "exited"
  /\ UNCHANGED <<nprimes, order, curves, invalid, ncurves, cursor, count,
                 output, memory>>

WriteOriginal ==
  /\ pc = "start"
  /\ output' = <<Begin, Original, Separator>>
  /\ pc' = "primes"
  /\ UNCHANGED <<nprimes, order, curves, invalid, ncurves, cursor, count, memory>>

\* "No orders to generate curves for, quitting."
NoPrimes ==
  /\ pc = "primes"
  /\ nprimes = 0
  /\ pc' = "exited"
  /\ UNCHANGED <<nprimes, order, curves, invalid, ncurves, cursor, count,
                 output, memory>>

\* curve_new, with the field and a of the original curve.
NewInvalid ==
  /\ invalid' = Fresh
  /\ heap' = heap \cup {Fresh}
  /\ avma' = avma + 1

Enter ==
  /\ pc = "primes"
  /\ nprimes > 0
  /\ NewInvalid
  /\ pc' = "loop"
  /\ UNCHANGED <<nprimes, order, curves, ncurves, cursor, count, output, btop,
                 depth, live>>

\* Fault: a prime that has its curve gets another.
MissingAny(i) == TRUE

\* Has the i-th prime no curve yet?
Missing(i) == curves[i] = None

\* Fault: the test is the wrong way round.
Unwanted(i) == i < nprimes /\ ~Missing(i)

Wanted(i) == i < nprimes /\ Missing(i)

\* Fault: the depth of the stack is noted once, before the loop.
DrawNoTop(D) ==
  /\ pc = "loop"
  /\ ncurves < nprimes
  /\ avma' = avma + 1
  /\ order' = D
  /\ pc' = IF \E i \in D : Wanted(i) THEN "gens" ELSE "unroll"
  /\ UNCHANGED <<nprimes, curves, invalid, ncurves, cursor, count, output,
                 heap, btop, depth, live>>

\* exhaustive_gen(B .. GENERATORS): a curve whose order the primes D divide,
\* kept if one of them has no curve yet.
Draw(D) ==
  /\ pc = "loop"
  /\ ncurves < nprimes
  /\ btop' = avma
  /\ avma' = avma + 1
  /\ order' = D
  /\ pc' = IF \E i \in D : Wanted(i) THEN "gens" ELSE "unroll"
  /\ UNCHANGED <<nprimes, curves, invalid, ncurves, cursor, count, output,
                 heap, depth, live>>

\* exhaustive_gen_retry(GENERATORS .. POINTS, 1) may fail, with gens_gen_one.
Gens(ok) ==
  /\ pc = "gens"
  /\ pc' = IF ok THEN "points" ELSE "unroll"
  /\ UNCHANGED <<nprimes, order, curves, invalid, ncurves, cursor, count,
                 output, memory>>

\* exhaustive_gen(POINTS .. END); the curve is complete.
Points ==
  /\ pc = "points"
  /\ avma' = avma + 1
  /\ depth' = [depth EXCEPT ![invalid] = avma']
  /\ live' = live \cup {invalid}
  /\ cursor' = nprimes
  /\ count' = 0
  /\ pc' = "save"
  /\ UNCHANGED <<nprimes, order, curves, invalid, ncurves, output, heap, btop>>

\* Fault: every prime gets the one curve_t.
HandOverAlways == TRUE

\* Fault: the curve_t is copied for every prime.
HandOverNever == FALSE

\* The first prime gets the curve_t itself, the others copies.
HandOver == count = 0

\* Fault: a separator follows the last curve.
WritingAll(i) == <<i, Separator>>

\* What is written for the i-th prime.
Writing(i) == IF ncurves # nprimes - 1 THEN <<i, Separator>> ELSE <<i>>

\* One round of the loop `for (i = nprimes; i-- > 0;)` that saves the curve.
Save ==
  LET i == cursor - 1 IN
  /\ pc = "save"
  /\ cursor > 0
  /\ cursor' = i
  /\ IF i \in order /\ Missing(i)
     THEN /\ IF HandOver
             THEN /\ curves' = [curves EXCEPT ![i] = invalid]
                  /\ UNCHANGED memory
             ELSE /\ curves' = [curves EXCEPT ![i] = Fresh]
                  /\ heap' = heap \cup {Fresh}
                  /\ avma' = avma + 1
                  /\ depth' = [depth EXCEPT ![Fresh] = avma']
                  /\ live' = live \cup {Fresh}
                  /\ UNCHANGED btop
          /\ output' = output \o Writing(i)
          /\ ncurves' = ncurves + 1
          /\ count' = count + 1
     ELSE UNCHANGED <<curves, output, ncurves, count, memory>>
  /\ UNCHANGED <<nprimes, pc, order, invalid>>

\* The curve_t was handed over: the driver goes on with a new one.
Renew ==
  /\ pc = "save"
  /\ cursor = 0
  /\ NewInvalid
  /\ pc' = "loop"
  /\ UNCHANGED <<nprimes, order, curves, ncurves, cursor, count, output, btop,
                 depth, live>>

\* curve_unroll and `avma = btop`: the curve is forgotten.
Unroll ==
  /\ pc = "unroll"
  /\ avma' = btop
  /\ live' = {o \in live : depth[o] <= btop}
  /\ pc' = "loop"
  /\ UNCHANGED <<nprimes, order, curves, invalid, ncurves, cursor, count,
                 output, heap, btop, depth>>

\* curve_free of `invalid` at the end of the driver, and output_o_end.
Leave ==
  /\ pc = "loop"
  /\ ncurves >= nprimes
  /\ heap' = heap \ {invalid}
  /\ invalid' = None
  /\ output' = Append(output, End)
  /\ cursor' = 0
  /\ pc' = "free"
  /\ UNCHANGED <<nprimes, order, curves, ncurves, count, avma, btop, depth, live>>

\* curve_free of the ncurves results, and the return.
Free ==
  /\ pc = "free"
  /\ cursor < ncurves
  /\ heap' = heap \ {curves[cursor]}
  /\ curves' = [curves EXCEPT ![cursor] = None]
  /\ cursor' = cursor + 1
  /\ pc' = IF cursor' = ncurves THEN "done" ELSE "free"
  /\ UNCHANGED <<nprimes, order, invalid, ncurves, count, output, avma, btop,
                 depth, live>>

Returned == pc \in {"done", "exited"} /\ UNCHANGED vars

Next ==
  \/ NoOriginal
  \/ WriteOriginal
  \/ NoPrimes
  \/ Enter
  \/ \E D \in SUBSET (0 .. nprimes - 1) : Draw(D)
  \/ \E ok \in BOOLEAN : Gens(ok)
  \/ Points
  \/ Save
  \/ Renew
  \/ Unroll
  \/ Leave
  \/ Free
  \/ Returned

\* Random curves are not for ever curves whose order a given prime fails to
\* divide, nor, when it does, curves without generators.
Fairness ==
  /\ WF_vars(Next)
  /\ \A i \in Prime :
       /\ SF_vars(\E D \in SUBSET (0 .. nprimes - 1) : i \in D /\ Draw(D))
       /\ SF_vars(i \in order /\ Gens(TRUE))

SafeSpec == Init /\ [][Next]_vars
Spec == SafeSpec /\ Fairness

------------------------------------------------------------------------------
(* Properties.                                                               *)

Saved == {i \in Prime : curves[i] # None}

\* No two primes share a curve_t, and the one being worked on is nobody's
\* result while curves are generated into it: the hand-over of `invalid` to
\* the array and its replacement by a new object keep them apart.
NoAliasing ==
  /\ \A i, j \in Saved : i # j => curves[i] # curves[j]
  /\ pc \in {"loop", "gens", "points", "unroll"} =>
       \A i \in Saved : curves[i] # invalid

\* The parameters of a saved curve survive every `avma = btop` of the later
\* iterations, so what is freed at the end was valid all along.
SavedLive == \A i \in Saved : curves[i] \in heap \cap live

\* When the method ends in the regular way, every curve_t was freed.
NothingLeaks == pc = "done" => heap = {} /\ Saved = {}

Curves == {i \in Prime : i < nprimes}

\* The finished output is [original, c, ..., c]: every wanted prime has one
\* curve, and single separators stand between the curves.  An array that was begun
\* is left without its end only for a range without primes, at the return for those.
ArrayComplete ==
  /\ pc \in {"free", "done"} =>
       /\ Len(output) = 2 * nprimes + 3
       /\ output[1] = Begin /\ output[2] = Original /\ output[Len(output)] = End
       /\ \A k \in 1 .. nprimes : output[2 * k + 1] = Separator
       /\ {output[2 * k + 2] : k \in 1 .. nprimes} = Curves
  /\ pc = "exited" /\ output # <<>> => nprimes = 0

\* The method returns.
Terminates == <>(pc \in {"done", "exited"})

------------------------------------------------------------------------------
(* Refinement.                                                               *)

Written(i) == \E k \in DOMAIN output : output[k] = i

StageOf(i) ==
  IF i >= nprimes THEN "unwanted"
  ELSE IF Written(i) THEN "written"
  ELSE IF i \in order /\ pc = "points" THEN "taken"
  ELSE IF i \in order /\ pc = "save" THEN "delivered"
  ELSE "wanted"

\* The driver is the one worker of the abstract specification.
Driver == "invalid_curves_single"

Abstract == INSTANCE InvalidCurves WITH
  Worker <- {Driver},
  stage <- [i \in Prime |-> StageOf(i)],
  taken <- [w \in {Driver} |->
              IF pc = "points" THEN {i \in order : Wanted(i)} ELSE {}],
  closed <- pc \in {"free", "done"}

\* Each step is a step of InvalidCurves or none.
ImplementsInvalidCurves == Abstract!SafeSpec
==============================================================================
