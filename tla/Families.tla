--------------------------------- MODULE Families ------------------------------
(***************************************************************************)
(* The families of pairing-friendly curves: the polynomials that give the  *)
(* field, the order of the subgroup and the trace for a number z.  They    *)
(* are looked at modulo a prime, ELL, which is 1 modulo all of the         *)
(* embedding degrees, so that each r has all of its roots there.           *)
(***************************************************************************)
EXTENDS Integers, Sequences, FiniteSets
LOCAL INSTANCE SequencesExt
LOCAL INSTANCE FiniteSetsExt

ELL == 2161

\* A numerator, by its terms <<coefficient, exponent>>, and coprime factors of the
\* denominator.
Quotient(terms, factors) == [terms |-> terms, factors |-> factors]

\* The embedding degree, n, p, r and t in z, and D without its sign.  (z - 1)^2 is
\* multiplied out.
families ==
  <<[name |-> "BN", k |-> 12, n |-> <<1, 0>>, D |-> 3,
     p |-> Quotient({<<36, 4>>, <<36, 3>>, <<24, 2>>, <<6, 1>>, <<1, 0>>}, <<>>),
     r |-> Quotient({<<36, 4>>, <<36, 3>>, <<18, 2>>, <<6, 1>>, <<1, 0>>}, <<>>),
     t |-> Quotient({<<6, 1>>, <<1, 0>>}, <<>>)],
    [name |-> "BLS12", k |-> 12, n |-> <<1, 0>>, D |-> 3,
     p |-> Quotient({<<1, 6>>, <<-2, 5>>, <<2, 3>>, <<1, 1>>, <<1, 0>>}, <<3>>),
     r |-> Quotient({<<1, 4>>, <<-1, 2>>, <<1, 0>>}, <<>>),
     t |-> Quotient({<<1, 1>>, <<1, 0>>}, <<>>)],
    [name |-> "BLS24", k |-> 24, n |-> <<1, 0>>, D |-> 3,
     p |-> Quotient({<<1, 10>>, <<-2, 9>>, <<1, 8>>, <<-1, 6>>, <<2, 5>>, <<-1, 4>>,
                     <<1, 2>>, <<1, 1>>, <<1, 0>>}, <<3>>),
     r |-> Quotient({<<1, 8>>, <<-1, 4>>, <<1, 0>>}, <<>>),
     t |-> Quotient({<<1, 1>>, <<1, 0>>}, <<>>)],
    [name |-> "KSS16", k |-> 16, n |-> <<70, 25>>, D |-> 4,
     p |-> Quotient({<<1, 10>>, <<2, 9>>, <<5, 8>>, <<48, 6>>, <<152, 5>>, <<240, 4>>,
                     <<625, 2>>, <<2398, 1>>, <<3125, 0>>}, <<980>>),
     r |-> Quotient({<<1, 8>>, <<48, 4>>, <<625, 0>>}, <<1250, 49>>),
     t |-> Quotient({<<2, 5>>, <<41, 1>>, <<35, 0>>}, <<35>>)],
    [name |-> "KSS18", k |-> 18, n |-> <<42, 14>>, D |-> 3,
     p |-> Quotient({<<1, 8>>, <<5, 7>>, <<7, 6>>, <<37, 5>>, <<188, 4>>, <<259, 3>>,
                     <<343, 2>>, <<1763, 1>>, <<2401, 0>>}, <<21>>),
     r |-> Quotient({<<1, 6>>, <<37, 3>>, <<343, 0>>}, <<343>>),
     t |-> Quotient({<<1, 4>>, <<16, 1>>, <<7, 0>>}, <<7>>)],
    [name |-> "KSS36", k |-> 36, n |-> <<777, 287>>, D |-> 3,
     p |-> Quotient({<<1, 14>>, <<-4, 13>>, <<7, 12>>, <<683, 8>>, <<-2510, 7>>,
                     <<4781, 6>>, <<117649, 2>>, <<-386569, 1>>, <<823543, 0>>}, <<28749>>),
     r |-> Quotient({<<1, 12>>, <<683, 6>>, <<117649, 0>>}, <<117649, 1369>>),
     t |-> Quotient({<<2, 7>>, <<757, 1>>, <<259, 0>>}, <<259>>)],
    [name |-> "KSS40", k |-> 40, n |-> <<2370, 1205>>, D |-> 4,
     p |-> Quotient({<<1, 22>>, <<-2, 21>>, <<5, 20>>, <<6232, 12>>, <<-10568, 11>>,
                     <<31160, 10>>, <<9765625, 2>>, <<-13398638, 1>>, <<48828125, 0>>},
                    <<180, 6241>>),
     r |-> Quotient({<<1, 16>>, <<8, 14>>, <<39, 12>>, <<112, 10>>, <<-79, 8>>,
                     <<2800, 6>>, <<24375, 4>>, <<125000, 2>>, <<390625, 0>>},
                    <<390625, 6241>>),
     t |-> Quotient({<<2, 11>>, <<6469, 1>>, <<1185, 0>>}, <<1185>>)]>>

------------------------------------------------------------------------------
(* Values of the polynomials modulo a number.                                *)

Power(x, e, m) ==
  LET power[k \in 0 .. e] ==
        LET half == power[k \div 2]
            square == half * half % m
        IN  IF k = 0 THEN 1 % m ELSE IF k % 2 = 0 THEN square ELSE square * x % m
  IN  power[e]

Inverted(x) == Power(x % ELL, ELL - 2, ELL)

Numerator(q, x, m) ==
  MapThenSumSet(LAMBDA c : (c[1] % m) * Power(x % m, c[2], m) % m, q.terms) % m

Denominator(q) == FoldLeft(LAMBDA d, f : d * (f % ELL) % ELL, 1, q.factors)

Value(q, x) == Numerator(q, x, ELL) * Inverted(Denominator(q)) % ELL

Degree(q) == Max({c[2] : c \in q.terms})

Roots(q) == {z \in 0 .. ELL - 1 : Numerator(q, z, ELL) = 0}

\* Whether (4 p - t^2) / D is a square at z.
SquareAt(f, t, z) ==
  LET p == Value(f.p, z)
      s == ((4 * p - t * t) % ELL) * Inverted(f.D) % ELL
  IN  Power(s, (ELL - 1) \div 2, ELL) \in {0, 1}

------------------------------------------------------------------------------
(* Properties.                                                               *)

\* Each row is a family of the embedding degree it is named for.  Where a prime
\* divides r, the order of p is k, so that the points of that order are paired
\* into the extension of degree k, and the order p + 1 - t of the curve is
\* divisible by the prime; such a curve exists, with the discriminant D; and, in
\* a KSS row, the z that n gives make p a whole number.  The trace of the BN row,
\* 6 z + 1, is not the one that its p and r belong to, 6 z^2 + 1; tz_store
\* is written and freed, but never read.
FamilyExact(i) ==
  LET f == families[i]
      trace == IF f.name = "BN" THEN Quotient({<<6, 2>>, <<1, 0>>}, <<>>) ELSE f.t
  IN  /\ Cardinality(Roots(f.r)) = Degree(f.r)
      /\ \A z \in Roots(f.r) :
           LET p == Value(f.p, z) IN
           /\ \A d \in {d \in 1 .. f.k : f.k % d = 0} : Power(p, d, ELL) = 1 <=> d = f.k
           /\ (p + 1 - Value(trace, z)) % ELL = 0
      /\ \A z \in 2 .. 19 : SquareAt(f, Value(trace, z), z)
      /\ f.n # <<1, 0>> =>
           \A m \in Range(f.p.factors) : \A z \in 0 .. 9 :
             Numerator(f.p, f.n[1] * z + f.n[2], m) = 0
================================================================================
