--------------------------------- MODULE Tables --------------------------------
(***************************************************************************)
(* The tables of data: the orders of Koblitz curves and the polynomials of *)
(* binary fields, with the binary search both are looked up by.  Of the    *)
(* polynomials, of which there are ten thousand, only the rows around the  *)
(* ends of the tables and of the degrees in between are here.              *)
(***************************************************************************)
EXTENDS Numbers
LOCAL INSTANCE SequencesExt

\* The entry that cmp, the order of the key and each entry, calls equal, if any.
bsearch(table, cmp) ==
  LET find[lo, hi \in 0 .. Len(table)] ==
        LET mid == (lo + hi) \div 2
            c == cmp[mid + 1]
        IN  IF lo = hi THEN {}
            ELSE IF c = 0 THEN {table[mid + 1]}
            ELSE IF c < 0 THEN find[lo, mid]
            ELSE find[mid + 1, hi]
  IN  find[0, Len(table)]

------------------------------------------------------------------------------
(* Koblitz curves y^2 + x y = x^3 + a x^2 + 1 over fields of 2^m elements.   *)

Low == 16^3   \* orders are kept modulo this: their last three digits

\* The degree m, the a, and the order.
koblitz_curves ==
  <<<<101, 1, 3286>>, <<103, 0, 2548>>, <<107, 0, 1988>>, <<107, 1, 2110>>,
    <<109, 1, 3382>>, <<113, 1, 1254>>, <<131, 0, 2468>>, <<163, 1, 3038>>,
    <<233, 0, 3964>>, <<239, 0, 660>>, <<277, 0, 3820>>, <<283, 0, 388>>,
    <<283, 1, 3710>>, <<311, 1, 3534>>, <<331, 1, 3774>>, <<347, 1, 2430>>,
    <<349, 0, 908>>, <<359, 1, 526>>, <<409, 0, 3900>>, <<571, 0, 4>>>>

compare_koblitz(m, a, curve) == IF m = curve[1] THEN a - curve[2] ELSE m - curve[1]

koblitz_find(m, a) ==
  bsearch(koblitz_curves,
          [k \in DOMAIN koblitz_curves |-> compare_koblitz(m, a, koblitz_curves[k])])

koblitz_get_order(m, a) == {curve[3] : curve \in koblitz_find(m, a)}

------------------------------------------------------------------------------
(* Polynomials x^m + x^e1 + x^e2 + x^e3 + 1; e2 and e3 are 0 in a trinomial. *)

hp_trinomials ==
  <<<<2, 1>>, <<3, 1>>, <<4, 1>>, <<5, 2>>, <<6, 1>>, <<7, 1>>, <<9, 1>>, <<10, 3>>,
    <<11, 2>>, <<12, 3>>, <<14, 5>>, <<15, 1>>, <<156, 9>>, <<159, 31>>, <<2001, 169>>,
    <<2004, 441>>>>

hp_pentanomials ==
  <<<<8, 4, 3, 1>>, <<13, 4, 3, 1>>, <<16, 5, 3, 1>>, <<157, 6, 5, 2>>,
    <<158, 8, 6, 5>>, <<2002, 22, 21, 11>>, <<2003, 12, 10, 8>>>>

ansi_trinomials ==
  <<<<161, 18>>, <<162, 27>>, <<1054, 105>>, <<1055, 24>>, <<1057, 198>>, <<1058, 27>>,
    <<1062, 49>>, <<1063, 168>>, <<1999, 367>>>>

ansi_pentanomials ==
  <<<<160, 1, 2, 117>>, <<163, 1, 2, 8>>, <<1056, 1, 2, 11>>, <<1059, 1, 3, 6>>,
    <<1061, 1, 2, 166>>, <<1064, 1, 2, 946>>, <<1997, 1, 2, 835>>, <<1998, 1, 3, 1290>>,
    <<2000, 1, 2, 981>>>>

\* The degrees these rows are of.
Degrees == (2 .. 16) \cup (156 .. 163) \cup (1054 .. 1064) \cup (1997 .. 2004)

poly_exists(m) == 2 <= m /\ m <= 10000

\* Fault: the first table is left for the second one degree late.
poly_find_late(m) ==
  LET hp == m <= 160 \/ m > 2000
      tri_table == IF hp THEN hp_trinomials ELSE ansi_trinomials
      pent_table == IF hp THEN hp_pentanomials ELSE ansi_pentanomials
      cmp(table) == [k \in DOMAIN table |-> m - table[k][1]]
      tri == bsearch(tri_table, cmp(tri_table))
  IN  IF tri # {} THEN tri
      ELSE bsearch(pent_table, cmp(pent_table))

poly_find(m) ==
  LET hp == m < 160 \/ m > 2000
      tri_table == IF hp THEN hp_trinomials ELSE ansi_trinomials
      pent_table == IF hp THEN hp_pentanomials ELSE ansi_pentanomials
      cmp(table) == [k \in DOMAIN table |-> m - table[k][1]]
      tri == bsearch(tri_table, cmp(tri_table))
  IN  IF ~poly_exists(m) THEN {}
      ELSE IF tri # {} THEN tri
      ELSE bsearch(pent_table, cmp(pent_table))

\* The exponents of the polynomial.
poly_gen(p) == {p[k] : k \in DOMAIN p} \cup {0}

------------------------------------------------------------------------------
(* Properties.                                                               *)

\* The order of the curve over the field of 2^m elements, from its trace there,
\* and that from the one over the field of 2 elements, mu.
Count(m, a) ==
  LET mu == IF a = 1 THEN 1 ELSE -1
      power(k) == IF k >= 12 THEN 0 ELSE 2^k
      \* The traces over the fields of 2^k and of 2^(k + 1) elements.
      traces[k \in 0 .. m] ==
        LET half == traces[k \div 2]
            h == k \div 2
            double == half[1] * half[1] - 2 * power(h)
            next == half[1] * half[2] - mu * power(h)
            after == half[2] * half[2] - 4 * power(h)
        IN  IF k = 0 THEN <<2, mu>>
            ELSE IF k % 2 = 0 THEN <<double % Low, next % Low>>
            ELSE <<next % Low, after % Low>>
  IN  (1 - traces[m][1]) % Low

\* Polynomials over the field of two elements, by the exponents they have.
Plus(p, q) == (p \ q) \cup (q \ p)

\* What remains of p, of degree m, divided by q, of degree d.
Remainder(p, m, q, d) ==
  FoldLeft(LAMBDA r, k : IF k \in r THEN Plus(r, {e + k - d : e \in q}) ELSE r,
           p, [k \in 1 .. m - d + 1 |-> m - k + 1])

Irreducible(p, m) ==
  \A d \in 1 .. m \div 2 : \A q \in SUBSET (0 .. d - 1) :
    Remainder(p, m, q \cup {d}, d) # {}

\* What is found in the tables is what was looked for: the orders of the curves
\* are those of the curves, and those of no others; a polynomial is of the
\* degree asked for, with three or five terms, and, checked up to degree 16, one
\* that makes a field.  poly.h, of poly_exists: "Whether a polynomial exists in the
\* polynomial data with degree m"; of degree 1060 there is none, which it says
\* exists, and poly_gen is then handed a NULL.
TablesExact(n) ==
  /\ n \in DOMAIN koblitz_curves =>
       LET curve == koblitz_curves[n] IN
       /\ koblitz_get_order(curve[1], curve[2]) = {Count(curve[1], curve[2])}
       /\ \A m \in {curve[1], curve[1] + 1} : \A a \in {0, 1} :
            koblitz_find(m, a) =
              {koblitz_curves[k] : k \in {k \in DOMAIN koblitz_curves :
                                            <<m, a>> = SubSeq(koblitz_curves[k], 1, 2)}}
  /\ n \in Degrees => poly_exists(n) /\ (poly_find(n) = {} <=> n = 1060)
  /\ n \in Degrees \ {1060} =>
       \E p \in poly_find(n) :
         /\ p[1] = n /\ Cardinality(poly_gen(p)) \in {3, 5}
         /\ \A k \in DOMAIN p : p[k] \in 1 .. n
         /\ n <= 16 => Irreducible(poly_gen(p), n)
================================================================================
