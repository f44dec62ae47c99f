-------------------------------- MODULE Subgroups ------------------------------
(***************************************************************************)
(* Which orders of points the points stage looks for in the subgroup of a  *)
(* generator, and the points it makes of them.  The subgroup is that of    *)
(* the numbers modulo the generator's order, with 1 for the generator.     *)
(***************************************************************************)
EXTENDS Numbers
LOCAL INSTANCE SequencesExt
LOCAL INSTANCE FiniteSetsExt

Null == <<>>   \* no vector; the vector of no orders is not told from it

subgroups_divisors(order) == Z_factor(order)

\* Room for the products of more than min_bits factors.
Room(nprimes, min_bits) == 2^nprimes - min_bits * nprimes - 1

Product(factors, chosen) == FoldSet(LAMBDA k, v : factors[k] * v, 1, chosen)

\* Fault: products of min_bits factors are taken too.
subgroups_2n_atleast(factors, min_bits) ==
  LET groups == {chosen \in SUBSET DOMAIN factors :
                   chosen # {} /\ Cardinality(chosen) >= min_bits}
  IN  IF Len(factors) = min_bits THEN Null
      ELSE gtoset({Product(factors, chosen) : chosen \in groups})

\* The vector is filled with 0 first: what the loop leaves unfilled stays that.
subgroups_2n_factors(factors, min_bits) ==
  LET groups == {chosen \in SUBSET DOMAIN factors :
                   chosen # {} /\ Cardinality(chosen) > min_bits}
      unfilled == Room(Len(factors), min_bits) > Cardinality(groups)
  IN  IF Len(factors) = min_bits THEN Null
      ELSE gtoset({Product(factors, chosen) : chosen \in groups}
                    \cup IF unfilled THEN {0} ELSE {})

subgroups_prime(order) ==
  IF isprime(order) THEN <<order>> ELSE gtoset({p \in divisors(order) : isprime(p)})

subgroups_nonprime(order) ==
  IF isprime(order) THEN Null ELSE subgroups_2n_factors(subgroups_divisors(order), 1)

subgroups_all(order) ==
  IF isprime(order) THEN <<order>>
  ELSE subgroups_2n_factors(subgroups_divisors(order), 0)

\* ellmul and ellorder in that group.
ellmul(order, mul) == mul % order
ellorder(order, point) == IF point = 0 THEN 1 ELSE order \div gcdii(order, point)

\* The points of the orders asked for; none, a NULL, of one that does not divide.
points_from_orders(order, orders) ==
  [k \in DOMAIN orders |->
     IF orders[k] = order THEN {[point |-> 1, order |-> orders[k]]}
     ELSE IF orders[k] # 0 /\ divides(orders[k], order)
     THEN {[point |-> ellmul(order, order \div orders[k]), order |-> orders[k]]}
     ELSE {}]

\* vec_append copies, and the copy is dropped: only the first prime stays.
points_gen_trial(order, primes) ==
  LET dividing == SelectSeq(primes, LAMBDA p : p = order \/ divides(p, order))
  IN  IF dividing = <<>> THEN <<>> ELSE points_from_orders(order, <<dividing[1]>>)

points_gen_prime(order) == points_from_orders(order, subgroups_prime(order))
points_gen_allgroups(order) == points_from_orders(order, subgroups_all(order))
points_gen_nonprime(order) == points_from_orders(order, subgroups_nonprime(order))

------------------------------------------------------------------------------
(* Properties.                                                               *)

Made(points) == UNION {points[k] : k \in DOMAIN points}

\* The points made are one of each order asked for, and have it.
Each(points, orders) ==
  /\ \A k \in DOMAIN points : Cardinality(points[k]) = 1
  /\ {p.order : p \in Made(points)} = orders
  /\ Len(points) = Cardinality(orders)

\* subgroup.h: "All all subgroup orders of a given integer", the nonprime and the
\* prime ones: each once, however often a prime divides the order, and for each
\* the one point that points_free_deep and the output will look for.  Of one
\* or two primes by trial there is at least one, and none that was not asked for.
SubgroupsExact(order) ==
  LET Primes == {p \in 2 .. order : isprime(p)}
      dividing(S) == {p \in S : divides(p, order)}
  IN  /\ Each(points_gen_allgroups(order), divisors(order) \ {1})
      /\ Each(points_gen_prime(order), dividing(Primes))
      /\ Each(points_gen_nonprime(order), {d \in divisors(order) \ {1} : ~isprime(d)})
      /\ \A p, q \in Primes :
           LET points == points_gen_trial(order, IF p = q THEN <<p>> ELSE <<p, q>>)
               orders == {x.order : x \in Made(points)}
           IN  /\ Each(points, orders)
               /\ orders \subseteq dividing({p, q})
               /\ orders = {} => dividing({p, q}) = {}
      /\ \A p \in Made(points_gen_allgroups(order)) : ellorder(order, p.point) = p.order

\* point.h: points_gen_trial generates "prime order points", so that "points with
\* all prime orders specified exist", of two that divide the order too.
TrialOfAll(order) ==
  \A p, q \in {x \in divisors(order) : isprime(x)} :
    p # q => Each(points_gen_trial(order, <<p, q>>), {p, q})
================================================================================
