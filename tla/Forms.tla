---------------------------------- MODULE Forms --------------------------------
(***************************************************************************)
(* The class polynomials of IEEE P1363: the forms a discriminant has, the  *)
(* exponents that go with a form, and the series the invariants are        *)
(* computed from.  A discriminant is -D here as it is there.               *)
(***************************************************************************)
EXTENDS Numbers
LOCAL INSTANCE SequencesExt
LOCAL INSTANCE FiniteSetsExt

Form == [A : Nat \ {0}, B : Int, C : Nat \ {0}]

\* Fault: the form with -B is taken at the border too.
Both_border(A, B, C) == 0 < 2 * B /\ 2 * B <= A /\ A <= C

Both(A, B, C) == 0 < 2 * B /\ 2 * B < A /\ A < C

sq(D) == sqrti(D \div 3)   \* the bound on B

\* The vector has room for two forms to a B, but for the B = 0; of length 0 it
\* would be one 0.
Room(D) == IF sq(D) = 0 THEN 1 ELSE 2 * sq(D)

\* The forms of one B: by the divisors of D + B^2, in ascending order.
FormsOf(D, B) ==
  LET d == D + B * B
      found == {A \in divisors(d) :
                  /\ 2 * B <= A /\ A * A <= d
                  /\ gcdii(gcdii(A, IF B = 0 THEN A ELSE 2 * B), d \div A) = 1}
      form(A, b) == [A |-> A, B |-> b, C |-> d \div A]
  IN  FoldLeft(LAMBDA l, A : l \o IF Both(A, B, d \div A) THEN <<form(A, B), form(A, -B)>>
                                 ELSE <<form(A, B)>>, <<>>, gtoset(found))

\* One B at a time, into the vector whether it has room or not, and all of it read
\* back.  The bound lies behind the vector: the second entry too many makes it 0.
p1363_group(D) ==
  FoldLeft(LAMBDA l, B : IF B > 0 /\ Len(l) >= Room(D) + 2 THEN l ELSE l \o FormsOf(D, B),
           <<>>, [k \in 1 .. sq(D) + 1 |-> k - 1])

------------------------------------------------------------------------------
(* The exponents of a form, for D modulo 8 other than 0 and 4.  A and C are   *)
(* not both even: no two cases overlap.                                      *)

Odd(n) == n % 2 = 1

Error == -100   \* pari_err: a branch the program means never to take

p1363_I(D) ==
  CASE D % 8 \in {1, 2, 6, 7} -> 3
    [] D % 8 = 5 -> 6
    [] D % 8 = 3 -> IF divides(3, D) THEN 2 ELSE 0
    [] OTHER -> Error

p1363_J(f) ==
  CASE Odd(f.A * f.C) -> 0
    [] ~Odd(f.C) -> 1
    [] ~Odd(f.A) -> 2
    [] OTHER -> Error

p1363_K(D) ==
  CASE D % 8 \in {1, 2, 6} -> 2
    [] D % 8 \in {3, 7} -> 1
    [] D % 8 = 5 -> 5
    [] OTHER -> Error

p1363_L(D, f) ==
  LET cubic == f.A * f.C * f.C IN
  CASE Odd(f.A * f.C) \/ (D % 8 = 5 /\ ~Odd(f.C)) -> f.A - f.C + f.A * f.A * f.C
    [] ~Odd(f.A) -> f.A - f.C + IF D % 8 = 3 THEN 5 * cubic ELSE -cubic
    [] OTHER -> f.A + 2 * f.C - cubic

\* From whichever of the two is odd: the square, less one, in eighths.
Eighths(f) == IF Odd(f.A) THEN f.A * f.A - 1 ELSE f.C * f.C - 1

p1363_M(f) == IF Odd(Eighths(f) \div 8) THEN -1 ELSE 1

p1363_N(D, f) ==
  CASE D % 8 = 5 -> 1
    [] D % 8 \in {1, 2, 6} -> p1363_M(f)
    [] D % 8 = 3 -> IF Odd(f.A * f.C) THEN 1 ELSE -p1363_M(f)
    [] D % 8 = 7 -> IF Odd(f.A * f.C) THEN p1363_M(f) ELSE 1
    [] OTHER -> Error

------------------------------------------------------------------------------
(* The series F, as the coefficients of its powers of z up to the nth.       *)

\* What pass j of the loop adds to the coefficient of the kth power.
Term(j, k) ==
  IF 2 * k \in {3 * j * j - j, 3 * j * j + j} THEN IF Odd(j) THEN -1 ELSE 1 ELSE 0

\* Later passes add higher powers only.
p1363_func_F(n) ==
  [k \in 0 .. n |-> FoldSet(LAMBDA j, v : v + Term(j, k), IF k = 0 THEN 1 ELSE 0, 1 .. n)]

------------------------------------------------------------------------------
(* Properties.                                                               *)

\* The forms A x^2 + 2 B x y + C y^2 with A C - B^2 = D that are reduced and
\* primitive.
Reduced(D) ==
  {f \in {[A |-> A, B |-> B, C |-> (D + B * B) \div A] : A \in 1 .. D, B \in -D .. D} :
     /\ f.A * f.C - f.B * f.B = D
     /\ 2 * f.B <= f.A /\ -2 * f.B <= f.A /\ f.A <= f.C
     /\ (-2 * f.B = f.A \/ f.A = f.C) => f.B >= 0
     /\ ~\E p \in 2 .. D : divides(p, f.A) /\ divides(p, 2 * f.B) /\ divides(p, f.C)}

\* The product of 1 - z^k for k up to n.
EulerProduct(n) ==
  FoldLeft(LAMBDA c, k : [i \in 0 .. n |-> c[i] - IF i >= k THEN c[i - k] ELSE 0],
           [i \in 0 .. n |-> IF i = 0 THEN 1 ELSE 0], [k \in 1 .. n |-> k])

\* p1363.h: "Compute all the primitive reduced quadratic forms for a given
\* discriminant".  None but those, none of them twice, and all of them as long as the
\* bound of the loop is whole, whether the vector was overrun by one or not; each
\* has all its exponents; and the series their invariants are made of is the product
\* it stands for.
FormsExact(D) ==
  LET group == ToSet(p1363_group(D)) IN
  /\ group \subseteq Reduced(D)
  /\ Cardinality(group) = Len(p1363_group(D))
  /\ Cardinality(Reduced(D)) <= Room(D) + 1 => group = Reduced(D)
  /\ D % 8 \notin {0, 4} =>
       /\ Error \notin {p1363_I(D), p1363_K(D)}
       /\ \A f \in group :
            /\ p1363_J(f) \in 0 .. 2 /\ p1363_L(D, f) \in Int
            /\ p1363_N(D, f) \in {-1, 1} /\ divides(8, Eighths(f))
  /\ p1363_func_F(D) = EulerProduct(D)
================================================================================
