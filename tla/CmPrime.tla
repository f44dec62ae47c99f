---------------------------------- MODULE CmPrime ------------------------------
(***************************************************************************)
(* The search for a discriminant for a curve of prime order (cm_prime.c):  *)
(* products of signed primes that the order is a square modulo, more of    *)
(* them in every round.                                                    *)
(***************************************************************************)
EXTENDS Numbers
LOCAL INSTANCE SequencesExt
LOCAL INSTANCE FiniteSetsExt

CONSTANTS Rounds, MaxCalls   \* bounds: rounds of the search, calls

\* ground(glog(order)): one for each of sqrt(e), e sqrt(e), ... that it exceeds.
log(order) == Cardinality({k \in {2, 5, 13, 34, 91} : order >= k})

abs(n) == IF n < 0 THEN -n ELSE n

\* 1 of the Kronecker symbol.
IsResidue(order, p) ==
  IF p = 2 THEN order % 8 \in {1, 7}
  ELSE order % p # 0 /\ \E x \in 1 .. p - 1 : (x * x) % p = order % p

\* What solves x^2 + d y^2 = 4 order; only for a d that is 0 or 3 modulo 4.
cornacchia2(d, order) ==
  {x \in 1 .. 2 * order : d % 4 \in {0, 3} /\
     \E y \in 1 .. order : x * x + d * y * y = 4 * order}

pstar(p) == IF ((p - 1) \div 2) % 2 = 1 THEN -p ELSE p

\* Both ends of a range are in it: a prime between two rounds is added twice.
add_primes(r, order, Sp) ==
  LET more == gtoset({p \in r * log(order) .. (r + 1) * log(order) :
                        isprime(p) /\ IsResidue(order, p)})
  IN  Sp \o [k \in DOMAIN more |-> pstar(more[k])]

\* GET_BIT of i in as many bits as there are primes, the highest first.
Selected(i, n, j) == (i \div 2 ^ (n - j)) % 2 = 1

pprod(Sp, i) ==
  FoldLeftDomain(LAMBDA prod, j : IF Selected(i, Len(Sp), j) THEN prod * Sp[j] ELSE prod,
                 1, Sp)

\* The first of the two fields that fits, or 0.
Field(D, order) ==
  LET xs == cornacchia2(abs(D), order)
      x == CHOOSE y \in xs : TRUE
      fits(p) == isprime(p) /\ p >= 5
  IN  IF xs = {} THEN 0
      ELSE IF fits(order + 1 + x) THEN order + 1 + x
      ELSE IF fits(order + 1 - x) THEN order + 1 - x ELSE 0

\* State of the search: the round, the number of the next product, the primes.
Qdisc(r, i, Sp) == [r |-> r, i |-> i, Sp |-> Sp]

qdisc_init == Qdisc(0, 0, <<>>)

Good(q, i, order) ==
  LET D == pprod(q.Sp, i) IN
  abs(D) < ((q.r + 1) * log(order)) ^ 2 /\ D % 8 = 5 /\ Field(D, order) # 0

\* Fault: the products of a new round begin where those of the last one ended.
NextRound_on(q, order) ==
  Qdisc(q.r + 1, 2 ^ Len(q.Sp), add_primes(q.r + 1, order, q.Sp))

NextRound(q, order) == Qdisc(q.r + 1, 0, add_primes(q.r + 1, order, q.Sp))

\* The next discriminant, with the state to go on from.  When the last product of a
\* round was one, the primes of that round are added once more.
qdisc_next(q, order) ==
  LET start == IF q.Sp = <<>> \/ q.i = 2 ^ Len(q.Sp)
               THEN Qdisc(q.r, 0, add_primes(q.r, order, q.Sp)) ELSE q
      at[k \in 0 .. Rounds] == IF k = 0 THEN start ELSE NextRound(at[k - 1], order)
      found(k) == {i \in at[k].i .. 2 ^ Len(at[k].Sp) - 1 : Good(at[k], i, order)}
      ks == {k \in 0 .. Rounds : at[k].r < Rounds /\ found(k) # {}}
      last == at[Min(ks)]
      i == Min(found(Min(ks)))
  IN  IF ks = {} THEN [D |-> 0, next |-> q]
      ELSE [D |-> pprod(last.Sp, i), next |-> [last EXCEPT !.i = i + 1]]

\* cm_gen_curve_prime asks for the next one until there is a curve.
Calls(order, n) ==
  FoldLeft(LAMBDA found, c : Append(found, qdisc_next(found[Len(found)].next, order)),
           <<[D |-> 0, next |-> qdisc_init]>>, [c \in 1 .. n |-> c])

------------------------------------------------------------------------------
(* Properties.                                                               *)

squarefree(n) == \A k \in 2 .. n : ~divides(k * k, n)

\* Of a curve of the order: negative, 5 modulo 8 and without a square, with all of
\* its prime factors among the first rounds' primes.
Discriminants(order, rounds) ==
  {-d : d \in {e \in 1 .. (rounds * log(order)) ^ 2 - 1 :
     /\ (-e) % 8 = 5 /\ squarefree(e) /\ Field(-e, order) # 0
     /\ \A p \in divisors(e) : isprime(p) => p <= rounds * log(order)}}

\* Discriminants: whoever goes on asking is told all there are, although only primes
\* that the order is a square modulo are looked at, and of others only such as have
\* a prime twice.
DiscriminantsExact(order) ==
  isprime(order) /\ order >= 5 =>
    LET calls == Calls(order, MaxCalls)
        told == {calls[k].D : k \in DOMAIN calls} \ {0}
    IN  /\ calls[Len(calls)].D = 0
        /\ {D \in told : squarefree(abs(D))} = Discriminants(order, Rounds)
        /\ \A D \in told : D < 0 /\ Field(D, order) # 0
================================================================================
