---------------------------------- MODULE Output -------------------------------
(***************************************************************************)
(* A curve as it is written: the keys of the JSON object, as paths, and    *)
(* the conversions of a field and of its elements that go with them.  A    *)
(* binary polynomial is the set of its exponents.                          *)
(***************************************************************************)
EXTENDS Objects
LOCAL INSTANCE SequencesExt
LOCAL INSTANCE FiniteSetsExt

Data == INSTANCE Tables
In(m) == INSTANCE Input WITH BITS <- m

------------------------------------------------------------------------------
(* Fields and elements.                                                      *)

\* Fault: the exponents in ascending order.
field_params_low(field) ==
  LET terms == SetToSortSeq(field \ {0}, LAMBDA x, y : x < y)
  IN  [j \in 1 .. 4 |-> IF j <= Len(terms) THEN terms[j] ELSE 0]

\* The exponents but 0, from the degree down, in a vector that was filled with 0.
field_params(field) ==
  LET terms == SetToSortSeq(field \ {0}, LAMBDA x, y : x > y)
  IN  [j \in 1 .. 4 |-> IF j <= Len(terms) THEN terms[j] ELSE 0]

\* The coefficients, highest first, read as the digits of a number.
field_elementi(element) ==
  LET deg == IF element = {} THEN -1 ELSE Max(element)
      vec == [k \in 1 .. deg + 1 |-> IF deg + 1 - k \in element THEN 1 ELSE 0]
  IN  FoldLeft(LAMBDA n, digit : 2 * n + digit, 0, vec)

\* The digits of a number, below 2^31, as coefficients, reduced modulo the field.
field_ielement(field, in) ==
  LET digits == {k \in 0 .. 30 : (in \div 2 ^ k) % 2 = 1}
      deg == Max(field)
  IN  IF digits = {} THEN {} ELSE Data!Remainder(digits, Max(digits \cup {deg}), field, deg)

------------------------------------------------------------------------------
(* The keys.                                                                 *)

Under(at, keys) == {at \o key : key \in keys}

output_json_point(o, at) ==
  {<<"x">>, <<"y">>, <<"order">>}
  \cup {<<"cofactor">> : p \in Has(o, at, {"cofactor"})}

\* Fault: only the generator.
SubgroupKeys_flat(o, at) == output_json_point(o, at \o <<"generator">>)

\* An array has as many entries as the counter of the struct says.
SubgroupKeys(o, at) ==
  output_json_point(o, at \o <<"generator">>)
  \cup (UNION {Under(<<"points", p[Len(p)]>>, output_json_point(o, p)) :
                 p \in Entries(o, at \o <<"points">>)})

MetaKey ==
  [j_invariant |-> "j", discriminant |-> "discriminant",
   embedding_degree |-> "embedding_degree", frobenius_trace |-> "frobenius",
   cm_discriminant |-> "cm_discriminant", conductor |-> "conductor"]

output_jjson(o, field, metadata) ==
  Under(<<"field">>, IF field = "prime" THEN {<<"p">>}
                     ELSE {<<"m">>, <<"e1">>, <<"e2">>, <<"e3">>})
  \cup {<<"seed">> : p \in Has(o, <<"seed">>, {"seed"})}
  \cup {<<"a">>, <<"b">>, <<"order">>}
  \cup (UNION {Under(<<"subgroups", p[Len(p)]>>, SubgroupKeys(o, p)) :
                 p \in Entries(o, <<"generators">>)})
  \cup (IF metadata THEN {<<"meta", MetaKey[p[1]]>> : p \in Has(o, <<>>, Meta)} ELSE {})

------------------------------------------------------------------------------
(* Properties.                                                               *)

\* What is kept of a curve but not written.
Kept(p) ==
  \/ p \in {<<"curve">>, <<"cache">>, <<"generators">>}
  \/ Len(p) = 2 /\ p[1] = "seed" /\ p[2] # "seed"
  \/ Len(p) = 3 /\ p[3] = "points"

Shown(o) == {p \in o : ~Kept(p)}

\* A polynomial of n is written so that the same four numbers, typed in the order
\* they are written, are taken for it, and an element so that it reads as itself.
FieldsExact(n) ==
  LET params(p) == field_params(Data!poly_gen(p))
      typed(p) == [items |-> [k \in 1 .. 4 |-> In(n)!Item(params(p)[k], 1)], delimited |-> TRUE]
  IN  /\ n \in Data!Degrees => \A p \in Data!poly_find(n) :
           /\ In(n)!field_gen_binary(typed(p)).diff = 1
           /\ Data!poly_gen(p) = {0} \cup {params(p)[k] : k \in 1 .. 4}
      /\ n \in 2 .. 8 =>
           \A p \in Data!poly_find(n) : \A element \in SUBSET (0 .. n - 1) :
             field_ielement(Data!poly_gen(p), field_elementi(element)) = element

\* Curves are written alike only if they differ in nothing but what is not meant to
\* be seen.
WrittenApart(o, other) ==
  \A field \in {"prime", "binary"} :
    output_jjson(o, field, TRUE) = output_jjson(other, field, TRUE)
      <=> Shown(o) = Shown(other)

\* Without the metadata, as the invalid curves are, a copy is written as the original.
CopyWritten(o) ==
  \A field \in {"prime", "binary"} :
    output_jjson(curve_copy(o), field, FALSE) = output_jjson(o, field, FALSE)
================================================================================
