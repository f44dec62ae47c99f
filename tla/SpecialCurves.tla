------------------------------ MODULE SpecialCurves ----------------------------
(***************************************************************************)
(* Curves y^2 = x^3 + a x + b over a prime field that are constructed so   *)
(* that the order is known: anomalous ones, with as many points as the     *)
(* field has elements, and supersingular ones, with one more.              *)
(***************************************************************************)
EXTENDS Numbers

Squares(p) == {x * x % p : x \in 1 .. p - 1}

kronecker(a, p) ==
  IF a % p = 0 THEN 0 ELSE IF a % p \in Squares(p) THEN 1 ELSE -1

Fp_inv(a, p) == CHOOSE x \in 1 .. p - 1 : (a % p) * x % p = 1

Cube(a, p) == ((a % p) * (a % p) % p) * (a % p) % p

------------------------------------------------------------------------------
(* Anomalous curves.                                                         *)

\* The discriminant without its sign, the cube root of the j-invariant, and alpha
\* as its tens and its last digit.  What row 3 was given first, for 67, is replaced;
\* the last row stays empty.
disc_table ==
  [i \in 0 .. 3 |->
     <<[d |-> 11, root |-> -32, alpha |-> <<2, 1>>],
       [d |-> 19, root |-> -32 * 3, alpha |-> <<0, 3>>],
       [d |-> 43, root |-> -64 * 16, alpha |-> <<7, 0>>],
       [d |-> 163, root |-> -64 * 10005, alpha |-> <<371787801, 0>>]>>[i + 1]]

Alpha(i, p) ==
  LET alpha == disc_table[i].alpha IN ((alpha[1] % p) * 10 + alpha[2]) % p

\* The bounds are of real numbers, the ones under their roots are cut to integers
\* first, towards zero.
anomalous_prime(i, bits) ==
  LET D == disc_table[i].d
      last == (D + 1) \div 4
      cut(n) == IF n < 0 THEN -(-n \div D) ELSE n \div D
      lower == 4 * cut(2 ^ (bits - 1) - last) + 1
      upper == 4 * cut(2 ^ bits - last) + 1
      first(b) == D * b * b + D * b + last
  IN  {first(b) : b \in {b \in 0 .. upper : /\ (2 * b + 1) * (2 * b + 1) >= lower
                                            /\ (2 * b + 1) * (2 * b + 1) <= upper
                                            /\ isprime(first(b))}}

\* Fault: c is of the residue class of alpha.
anomalous_c_same(i, p) ==
  {c \in 1 .. p - 1 : kronecker(c, p) = kronecker(Alpha(i, p), p)}

anomalous_c(i, p) ==
  LET kroneck == kronecker(Alpha(i, p), p)
      squares == Squares(p)
  IN  CASE kroneck = 0 -> {}
        [] kroneck = 1 -> (1 .. p - 1) \ squares
        [] OTHER -> squares

\* That alpha is not zero is asked of the first row's, whichever row is used.
anomalous_gen_field(i, bits) == {p \in anomalous_prime(i, bits) : Alpha(0, p) # 0}

anomalous_gen_equation(i, p, c) ==
  LET j == Cube(disc_table[i].root, p)
      a == j * Fp_inv(1728 - j, p) % p
  IN  [a |-> 3 * ((c * c % p) * a) % p, b |-> 2 * (Cube(c, p) * a) % p]

anomalous_gen_order(p) == p

------------------------------------------------------------------------------
(* Supersingular curves.                                                     *)

\* The roots of the class polynomials of discriminant -q that are of degree one.
polclass_root == [q \in {7, 11, 19} |-> CASE q = 7 -> -15 [] q = 11 -> -32 [] OTHER -> -96]

NonResidue(p) ==
  CHOOSE q \in 3 .. p :
    LET fit(r) == isprime(r) /\ r % 4 = 3 /\ kronecker(p, r) = -1
    IN  fit(q) /\ \A r \in 3 .. q - 1 : ~fit(r)

supersingular_gen_equation(p) ==
  IF p % 4 = 3 THEN [a |-> p - 1, b |-> 0]
  ELSE IF NonResidue(p) = 3 THEN [a |-> 0, b |-> 1]
  ELSE LET root == Cube(polclass_root[NonResidue(p)], p)
           a == (27 * root % p) * Fp_inv(4 * (1728 - root), p) % p
       IN  [a |-> a, b |-> (-a) % p]

supersingular_gen_order(p) == p + 1

------------------------------------------------------------------------------
(* Properties.                                                               *)

\* The points of a curve, counted: one at infinity, and those above each x.
Count(e, p) ==
  LET square[x \in 0 .. p - 1] == (Cube(x, p) + e.a * x + e.b) % p
      squares == Squares(p)
  IN  1 + Cardinality({x \in 0 .. p - 1 : square[x] = 0})
        + 2 * Cardinality({x \in 0 .. p - 1 : square[x] \in squares})

\* What the order stage enters for a curve is its number of points, without counting
\* them, whichever of the c is drawn.  The row of 43, whose j-invariant is that
\* of -64 * 15 and not of -64 * 16, makes other curves; it is never used, since
\* the arguments of the stages always name row 3.  The prime has at most
\* the bits asked for, and falls short of them by less than D.
AnomalousExact(bits) ==
  \A i \in {0, 1, 3} : \A p \in anomalous_gen_field(i, bits) :
    /\ 2 ^ (bits - 1) >= disc_table[i].d =>
         /\ p < 2 ^ bits
         /\ p > 2 ^ (bits - 1) - disc_table[i].d
    /\ \A c \in {c \in anomalous_c(i, p) : c < 5} :
         Count(anomalous_gen_equation(i, p, c), p) = anomalous_gen_order(p)

\* The same of supersingular curves, over every field but that of two elements,
\* which is refused.
SupersingularExact(p) ==
  isprime(p) /\ p > 2 =>
    LET e == supersingular_gen_equation(p)
    IN  /\ (4 * Cube(e.a, p) + 27 * (e.b * e.b)) % p # 0
        /\ Count(e, p) = supersingular_gen_order(p)
================================================================================
