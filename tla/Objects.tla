--------------------------------- MODULE Objects -------------------------------
(***************************************************************************)
(* The curve object and what hangs on it: copies, clones and the freeing.  *)
(* An object is the set of the paths of its parts.  Structs and arrays are *)
(* on the heap; numbers are on the PARI stack, but on the heap in a clone. *)
(* The entries of an array have its path and their place in it.  What PARI *)
(* keeps for the curve, a part of its own here, is on the heap always.     *)
(***************************************************************************)
EXTENDS Integers, Sequences

Fields == {"field", "a", "b", "curve", "order"}
Meta ==
  {"j_invariant", "discriminant", "embedding_degree", "frobenius_trace",
   "cm_discriminant", "conductor"}
\* Of a binary field embedding_degree, cm_discriminant and conductor stay NULL.
BinaryMeta == {"j_invariant", "discriminant", "frobenius_trace"}
SeedNumbers == {"t", "s", "h", "r", "mult", "z"}
PointNumbers == {"point", "order", "cofactor"}

\* The parts of the given names at a path.
Has(o, at, names) == {at \o <<x>> : x \in names} \cap o

\* The entries of an array.
Entries(o, at) == {p \in o : Len(p) = Len(at) + 1 /\ SubSeq(p, 1, Len(at)) = at}

\* The numbers: of the curve, its seed, a generator and one of the points on it.
Number(p) ==
  \/ Len(p) = 1 /\ p[1] \in Fields \cup Meta
  \/ Len(p) = 2 /\ p[1] = "seed" /\ p[2] \in SeedNumbers
  \/ Len(p) = 4 /\ p[3] = "generator"
  \/ Len(p) = 5

------------------------------------------------------------------------------
(* The parts that a copy or a clone has.                                     *)

seed_copy(o, at) == {at} \cup Has(o, at, {"seed", "hash20"})

point_copy(o, at) == {at} \cup Has(o, at, PointNumbers)

points_copy(o, at) == {at} \cup (UNION {point_copy(o, p) : p \in Entries(o, at)})

subgroup_copy(o, at) ==
  {at} \cup (UNION {point_copy(o, p) : p \in Has(o, at, {"generator"})})
       \cup (UNION {points_copy(o, p) : p \in Has(o, at, {"points"})})

subgroups_copy(o, at) == {at} \cup (UNION {subgroup_copy(o, p) : p \in Entries(o, at)})

curve_copy(o) ==
  {<<>>} \cup Has(o, <<>>, Fields)
         \cup (UNION {seed_copy(o, p) : p \in Has(o, <<>>, {"seed"})})
         \cup (UNION {subgroups_copy(o, p) : p \in Has(o, <<>>, {"generators"})})

------------------------------------------------------------------------------
(* The parts that are given back: of the numbers, those that are clones.     *)

Clones(o, at, names, cloned) == IF cloned THEN Has(o, at, names) ELSE {}

\* Of a Brainpool seed the bits for a and b too, which no stage sets.
seed_free(o, at) == {at} \cup Has(o, at, {"seed", "hash20", "seed_a", "seed_b"})

point_free(o, at, cloned) == {at} \cup Clones(o, at, PointNumbers, cloned)

points_free_deep(o, at, cloned) ==
  {at} \cup (UNION {point_free(o, p, cloned) : p \in Entries(o, at)})

subgroup_free(o, at, cloned) ==
  {at} \cup (UNION {point_free(o, p, cloned) : p \in Has(o, at, {"generator"})})

subgroup_free_deep(o, at, cloned) ==
  subgroup_free(o, at, cloned)
  \cup (UNION {points_free_deep(o, p, cloned) : p \in Has(o, at, {"points"})})

\* Fault: only the structs, not what hangs on them.
subgroups_free_flat(o, at, cloned) ==
  {at} \cup (UNION {subgroup_free(o, p, cloned) : p \in Entries(o, at)})

subgroups_free_deep(o, at, cloned) ==
  {at} \cup (UNION {subgroup_free_deep(o, p, cloned) : p \in Entries(o, at)})

\* What PARI has found out of the curve and kept.
obj_free(o) == Has(o, <<>>, {"cache"})

curve_free(o, cloned) ==
  {<<>>} \cup Clones(o, <<>>, Fields, cloned)
         \cup (UNION {obj_free(o) : p \in Has(o, <<>>, {"curve"})})
         \cup (UNION {seed_free(o, p) : p \in Has(o, <<>>, {"seed"})})
         \cup (UNION {subgroups_free_deep(o, p, cloned) : p \in Has(o, <<>>, {"generators"})})

------------------------------------------------------------------------------
(* Properties.                                                               *)

Point(at, cofactor) ==
  {at, at \o <<"point">>, at \o <<"order">>}
  \cup (IF cofactor THEN {at \o <<"cofactor">>} ELSE {})

Unset == -1   \* a NULL for the array of points

Group(at, points) ==
  {at} \cup Point(at \o <<"generator">>, TRUE)
    \cup (IF points = Unset THEN {} ELSE {at \o <<"points">>})
    \cup (UNION {Point(at \o <<"points", l>>, FALSE) : l \in 1 .. points})

\* Of ANSI before and after its equation, of Brainpool before and after its
\* generator, and of a family.
SeedParts ==
  {{"seed", "hash20", "t", "s", "h"}, {"seed", "hash20", "t", "s", "h", "r"},
   {"seed"}, {"seed", "mult"}, {"seed", "z"}}

\* Curve objects, whole or as a failure leaves them: any of the fields, with what PARI
\* keeps for the curve or not, the metadata of a field or none, a seed or none, and an
\* array of any number of generators or none, with an array of any number of points
\* on each of them or none.
Shapes ==
  [fields : SUBSET Fields, cache : BOOLEAN, meta : {{}, BinaryMeta, Meta},
   seed : {{}} \cup SeedParts, generators : BOOLEAN, points : Seq(Nat \cup {Unset})]

Whole(shape) == shape.fields = Fields

\* Its parts but the seed and what is in the array of generators.
Own(shape) ==
  shape.fields \cup shape.meta
    \cup {x \in {"cache"} : shape.cache /\ "curve" \in shape.fields}
    \cup {x \in {"generators"} : shape.generators}

Object(shape) ==
  {<<>>} \cup {<<x>> : x \in Own(shape)}
    \cup (IF shape.seed = {} THEN {} ELSE {<<"seed">>} \cup {<<"seed", x>> : x \in shape.seed})
    \cup (IF shape.generators
          THEN UNION {Group(<<"generators", k>>, shape.points[k]) : k \in DOMAIN shape.points}
          ELSE {})

\* Some of them, with up to two generators and points, counted through.
Shape(n) ==
  [fields |-> IF n % 5 = 0 THEN {"field", "a", "b", "curve"} ELSE Fields,
   cache |-> n % 2 = 0,
   meta |-> CASE n % 3 = 0 -> {} [] n % 3 = 1 -> BinaryMeta [] n % 3 = 2 -> Meta,
   seed |-> CASE n % 7 = 0 -> {"seed", "hash20", "t", "s", "h"}
              [] n % 7 = 1 -> {"seed", "hash20", "t", "s", "h", "r"}
              [] n % 7 = 2 -> {"seed"}
              [] n % 7 = 3 -> {"seed", "mult"}
              [] n % 7 = 4 -> {"seed", "z"}
              [] OTHER -> {},
   generators |-> n % 11 # 0,
   points |-> [k \in 1 .. (n % 4) - 1 |-> (((n \div 4) + k) % 4) - 1]]

Structs(o) == {p \in o : ~Number(p)}

\* Freeing a curve gives back all of its heap, whether the stages made all of it or
\* were given up: of the curve, and of a copy and a clone with its numbers, before
\* and after PARI keeps something for them too.  And a copy lacks nothing but the
\* metadata, the numbers of the seed and what PARI keeps.
ObjectsExact(shape) ==
  LET o == Object(shape)
      copy == curve_copy(o)
      used == copy \cup {<<"cache">> : p \in Has(copy, <<>>, {"curve"})}
      special == {<<x>> : x \in Meta \cup {"cache"}} \cup {<<"seed", x>> : x \in SeedNumbers}
  IN  /\ curve_free(o, FALSE) = Structs(o)
      /\ \A c \in {copy, used} : curve_free(c, FALSE) = Structs(c) /\ curve_free(c, TRUE) = c
      /\ copy = o \ special
================================================================================
