--------------------------------- MODULE Numbers -------------------------------
(***************************************************************************)
(* The functions of PARI that the helpers of the generators call, on       *)
(* numbers small enough to be looked at one by one.                        *)
(***************************************************************************)
EXTENDS Integers, Sequences, FiniteSets
LOCAL INSTANCE FiniteSetsExt

divides(d, n) == n % d = 0

isprime(n) == n > 1 /\ \A d \in 2 .. n - 1 : ~divides(d, n)

divisors(n) == {d \in 1 .. n : divides(d, n)}

gcdii(m, n) == Max({d \in divisors(m) : divides(d, n)})

\* The least prime that is n or more.
unextprime(n) ==
  LET bound == IF n > 1 THEN 2 * n ELSE 2
  IN  Min({p \in n .. bound : isprime(p)})

sqrti(n) == CHOOSE r \in 0 .. n : r * r <= n /\ (r + 1) * (r + 1) > n

\* The elements of S in the order of less.
Ranked(S, less(_, _)) ==
  [k \in 1 .. Cardinality(S) |->
     CHOOSE x \in S : Cardinality({y \in S : less(y, x)}) = k - 1]

gtoset(S) == Ranked(S, LAMBDA x, y : x < y)

\* The prime divisors of n, each as often as it divides n: once for each of its
\* powers that does.
Z_factor(n) ==
  LET base(d) == {p \in divisors(d) : isprime(p)}
      powers == {d \in divisors(n) : Cardinality(base(d)) = 1}
      less(x, y) == Max(base(x)) < Max(base(y)) \/ (base(x) = base(y) /\ x < y)
      ranked == Ranked(powers, less)
  IN  [k \in DOMAIN ranked |-> Max(base(ranked[k]))]
================================================================================
