---------------------------------- MODULE Input --------------------------------
(***************************************************************************)
(* What is typed or piped into the program, and the generators that ask    *)
(* for it.  The input is a record of its items, each a number with the     *)
(* length of its text, and of whether the last one is delimited.  Every    *)
(* generator answers with a difference, with what is left of the input,    *)
(* and with the value it assigns.                                          *)
(***************************************************************************)
EXTENDS Offsets, Sequences, FiniteSets
LOCAL INSTANCE Numbers

CONSTANT BITS   \* cfg->bits
ASSUME BitsAssumption == BITS \in Nat \ {0}

\* The answers of input_i that stand for "not a number" and for the end of the
\* input; a number that is typed may be one of them.
gen_m1 == -1
gen_m2 == -2

Item(value, len) == [value |-> value, len |-> len]

Answer(diff, in, value) == [diff |-> diff, in |-> in, value |-> value]

------------------------------------------------------------------------------
(* Reading one item.                                                         *)

\* The length getdelim returns: it counts the delimiter, 0 is the end.
getdelim(in) ==
  IF in.items = <<>> THEN 0
  ELSE Head(in.items).len + (IF Len(in.items) > 1 \/ in.delimited THEN 1 ELSE 0)

\* feof, once the next item has been read.
AtEnd(in) == Len(in.items) <= 1 /\ ~in.delimited

Rest(in) == IF in.items = <<>> THEN in ELSE [in EXCEPT !.items = Tail(@)]

input_i(in, bits) ==
  IF getdelim(in) = 0 THEN gen_m2
  ELSE IF getdelim(in) = 1 /\ ~AtEnd(in) THEN gen_m1
  ELSE IF Head(in.items).value <= 2 ^ bits THEN Head(in.items).value
  ELSE gen_m1

input_prime(in, bits) ==
  LET read == input_i(in, bits)
  IN  IF read \in {gen_m1, gen_m2} \/ isprime(read) THEN read ELSE gen_m1

input_int(in, bits) == input_i(in, bits)

input_short(in) == input_i(in, 16)

\* The length of the text: its last byte is taken for the delimiter.
input_string(in) == IF getdelim(in) <= 1 THEN 0 ELSE getdelim(in) - 1

------------------------------------------------------------------------------
(* The generators that ask.                                                  *)

\* Over GF(2) for the small degrees: no root in {0, 1}, so that the number of
\* terms is odd.
polisirreducible(exponents) == Cardinality(exponents) % 2 = 1

field_gen_prime(in) ==
  LET p == input_prime(in, BITS)
  IN  Answer(CASE p = gen_m1 -> 0 [] p = gen_m2 -> INT_MIN [] OTHER -> 1, Rest(in), p)

\* Degree, then three exponents; only the degree is compared with cfg->bits.  The
\* first answer that does not fit ends the reading.
field_gen_binary(in) ==
  LET at[k \in 1 .. 5] == IF k = 1 THEN in ELSE Rest(at[k - 1])
      read(k) == input_short(at[k])
      unfit == {k \in 1 .. 4 : IF k = 1 THEN read(1) # BITS
                               ELSE read(k) = gen_m1 \/ read(k) > BITS}
      first == CHOOSE k \in unfit : \A l \in unfit : k <= l
      exponents == {0, BITS} \cup {read(k) : k \in {l \in 2 .. 4 : read(l) > 0}}
  IN  IF unfit # {} THEN Answer(0, at[first + 1], 0)
      ELSE IF (\A k \in 2 .. 4 : read(k) = 0) \/ ~polisirreducible(exponents)
        THEN Answer(0, at[5], 0)
        ELSE Answer(1, at[5], BITS)

field_gen_input(in, field) ==
  IF field = "prime" THEN field_gen_prime(in) ELSE field_gen_binary(in)

\* Fault: the end of the input is taken for a number that was mistyped.
a_gen_input_retry(in) ==
  LET inp == input_int(in, BITS)
  IN  Answer(IF inp \in {gen_m1, gen_m2} THEN 0 ELSE 1, Rest(in), inp)

a_gen_input(in) ==
  LET inp == input_int(in, BITS)
  IN  Answer(CASE inp = gen_m1 -> 0 [] inp = gen_m2 -> INT_MIN [] OTHER -> 1,
             Rest(in), inp)

b_gen_input(in) ==
  LET inp == input_int(in, BITS)
  IN  Answer(CASE inp = gen_m1 -> 0 [] inp = gen_m2 -> INT_MIN [] OTHER -> 1,
             Rest(in), inp)

\* ansi: SeedDigits hexadecimal digits or more, brainpool: as many.  The end of the
\* input reads as a seed that is too short.
SeedDigits == 2
seed_gen_input(in, exact) ==
  LET len == input_string(in)
      valid == IF exact THEN len = SeedDigits ELSE len >= SeedDigits
  IN  Answer(IF valid THEN 1 ELSE 0, Rest(in), len)
================================================================================
