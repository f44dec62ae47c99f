------------------------------ MODULE InvalidPrimes ----------------------------
(***************************************************************************)
(* The primes of the --invalid option: one for each invalid curve.         *)
(***************************************************************************)
EXTENDS Numbers
LOCAL INSTANCE SequencesExt

\* "lo-hi", "lo" or no argument, for which the curve's order sets the end.
RangeArgument == [kind : {"range", "one", "none"}, lo : Nat \ {0}, hi : Nat]

\* strtol, less one, and the end of the range, 0 for an open one.
First(range) == IF range.kind = "none" THEN 1 ELSE range.lo - 1

Upper(range) ==
  CASE range.kind = "range" -> range.hi
    [] range.kind = "one" -> unextprime(First(range) + 1)
    [] OTHER -> 0

\* The array of primes, its size, and a write past it.
Start(range) ==
  [product |-> 1, last |-> First(range), primes |-> <<>>, size |-> 10,
   overrun |-> FALSE, done |-> FALSE]

\* The product is looked at only in an open range.
Continues(s, order, upper) ==
  (upper = 0 /\ order * order >= s.product) \/ s.last <= upper

\* Fault: a prime is counted into the product when it is found.
StepEarly(s, order, upper) ==
  LET next == unextprime(s.last + 1) IN
  IF s.done \/ ~Continues(s, order, upper) \/ (upper # 0 /\ next > upper)
  THEN [s EXCEPT !.done = TRUE]
  ELSE [s EXCEPT !.product = IF upper = 0 THEN @ * next ELSE @,
                 !.last = next, !.primes = Append(@, next)]

Step(s, order, upper) ==
  LET next == unextprime(s.last + 1)
      count == Len(s.primes) + 1
  IN  IF s.done \/ ~Continues(s, order, upper) \/ (upper # 0 /\ next > upper)
      THEN [s EXCEPT !.done = TRUE]
      ELSE [s EXCEPT !.product = IF upper = 0 THEN @ * s.last ELSE @,
                     !.last = next,
                     !.primes = Append(@, next),
                     !.size = IF count = @ THEN 2 * @ ELSE @,
                     !.overrun = @ \/ count > s.size]

\* As many steps as there can be primes.
invalid_primes(order, range) ==
  LET steps == IF range.kind = "range" THEN range.hi ELSE 12
  IN  FoldLeft(LAMBDA s, k : Step(s, order, Upper(range)), Start(range),
               [k \in 1 .. steps |-> k])

------------------------------------------------------------------------------
(* Properties.                                                               *)

ProductOf(primes, n) == FoldLeft(LAMBDA v, p : v * p, 1, SubSeq(primes, 1, n))

\* A range is all the primes in it; one number, the prime that is it or follows
\* it; no argument, primes enough that the residues modulo them, though the last
\* of them should be missing, determine a number up to the square of the order,
\* and no more.
PrimesExact(n) ==
  /\ \A lo \in 1 .. n :
       LET s == invalid_primes(1, [kind |-> "range", lo |-> lo, hi |-> n])
       IN  /\ s.primes = gtoset({p \in lo .. n : isprime(p)})
           /\ s.done /\ ~s.overrun
  /\ invalid_primes(1, [kind |-> "one", lo |-> n, hi |-> 0]).primes = <<unextprime(n)>>
  /\ LET s == invalid_primes(n, [kind |-> "none", lo |-> 1, hi |-> 0])
         count == Len(s.primes)
     IN  /\ s.primes = gtoset({p \in 2 .. s.last : isprime(p)})
         /\ s.done /\ ~s.overrun
         /\ ProductOf(s.primes, count - 1) > n * n
         /\ ProductOf(s.primes, count - 2) <= n * n
================================================================================
