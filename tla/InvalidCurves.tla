---------------------------- MODULE InvalidCurves ----------------------------
(***************************************************************************)
(* What the invalid-curve method promises, whichever of its two drivers    *)
(* runs (invalid_curves_single or invalid_curves_threaded): every prime    *)
(* order of the range is taken over by one worker, that worker delivers    *)
(* one curve for it, the curve is written once, and the array of curves    *)
(* is closed only when the curve of every prime has been written.          *)
(*                                                                         *)
(* The drivers' modules implement this specification.                      *)
(***************************************************************************)

CONSTANTS
  Prime,   \* the prime orders of the range: indices of the array `primes`
  Worker   \* who may take a prime over

VARIABLES
  stage,   \* stage[p]: how far the curve for prime p has come
  taken,   \* taken[w]: the primes worker w took over and has not delivered
  closed   \* has the output array been closed?

vars == <<stage, taken, closed>>

Stage == {"unwanted", "wanted", "taken", "delivered", "written"}

TypeOK ==
  /\ stage \in [Prime -> Stage]
  /\ taken \in [Worker -> SUBSET Prime]
  /\ closed \in BOOLEAN

Init ==
  /\ stage \in [Prime -> {"wanted", "unwanted"}]
  /\ taken = [w \in Worker |-> {}]
  /\ closed = FALSE

\* One curve serves every wanted prime that divides its order.
Take(w) ==
  /\ taken[w] = {}
  /\ \E S \in SUBSET {p \in Prime : stage[p] = "wanted"} :
       /\ S # {}
       /\ taken' = [taken EXCEPT ![w] = S]
       /\ stage' = [p \in Prime |-> IF p \in S THEN "taken" ELSE stage[p]]
  /\ UNCHANGED closed

\* All that one curve serves is delivered at once.
Deliver(w) ==
  /\ taken[w] # {}
  /\ stage' = [p \in Prime |-> IF p \in taken[w] THEN "delivered" ELSE stage[p]]
  /\ taken' = [taken EXCEPT ![w] = {}]
  /\ UNCHANGED closed

Write(p) ==
  /\ stage[p] = "delivered"
  /\ stage' = [stage EXCEPT ![p] = "written"]
  /\ UNCHANGED <<taken, closed>>

Close ==
  /\ ~closed
  /\ \A p \in Prime : stage[p] \in {"written", "unwanted"}
  /\ closed' = TRUE
  /\ UNCHANGED <<stage, taken>>

Next ==
  \/ \E w \in Worker : Take(w) \/ Deliver(w)
  \/ \E p \in Prime : Write(p)
  \/ Close

\* Without fairness: what no step may do.
SafeSpec == Init /\ [][Next]_vars

\* The method also makes progress until the array is closed.
Spec == SafeSpec /\ WF_vars(Next)
==============================================================================
