------------------------------ MODULE Objects_proofs ----------------------------
(***************************************************************************)
(* Copies and frees of a curve object reach all of it, for any number of   *)
(* generators and of points on each of them.                               *)
(***************************************************************************)
EXTENDS Output, SequenceTheorems, TLAPS

------------------------------------------------------------------------------
(* Paths.                                                                    *)

LEMMA Path1 == \A x : <<>> \o <<x>> = <<x>>
<1> SUFFICES ASSUME NEW x PROVE <<>> \o <<x>> = <<x>>
  OBVIOUS
<1>1. <<x>> \in Seq({x})
  OBVIOUS
<1> QED BY <1>1, ConcatEmptySeq

LEMMA Path2 == \A a, x : <<a>> \o <<x>> = <<a, x>>
<1> SUFFICES ASSUME NEW a, NEW x PROVE <<a>> \o <<x>> = <<a, x>>
  OBVIOUS
<1> DEFINE S == {a, x}
<1>1. /\ <<a>> \in Seq(S) /\ <<x>> \in Seq(S) /\ <<a, x>> \in Seq(S)
      /\ Len(<<a>>) = 1 /\ Len(<<x>>) = 1 /\ Len(<<a, x>>) = 2
  OBVIOUS
<1> HIDE DEF S
<1>2. /\ Len(<<a>> \o <<x>>) = 2 /\ <<a>> \o <<x>> \in Seq(S)
      /\ \A k \in 1 .. 2 : (<<a>> \o <<x>>)[k] = <<a, x>>[k]
  BY <1>1, ConcatProperties
<1> QED BY <1>1, <1>2, SeqEqual

LEMMA Path3 == \A a, b, x : <<a, b>> \o <<x>> = <<a, b, x>>
<1> SUFFICES ASSUME NEW a, NEW b, NEW x PROVE <<a, b>> \o <<x>> = <<a, b, x>>
  OBVIOUS
<1> DEFINE S == {a, b, x}
<1>1. /\ <<a, b>> \in Seq(S) /\ <<x>> \in Seq(S) /\ <<a, b, x>> \in Seq(S)
      /\ Len(<<a, b>>) = 2 /\ Len(<<x>>) = 1 /\ Len(<<a, b, x>>) = 3
  OBVIOUS
<1> HIDE DEF S
<1>2. /\ Len(<<a, b>> \o <<x>>) = 3 /\ <<a, b>> \o <<x>> \in Seq(S)
      /\ \A k \in 1 .. 3 : (<<a, b>> \o <<x>>)[k] = <<a, b, x>>[k]
  BY <1>1, ConcatProperties
<1> QED BY <1>1, <1>2, SeqEqual

LEMMA Path4 == \A a, b, c, x : <<a, b, c>> \o <<x>> = <<a, b, c, x>>
<1> SUFFICES ASSUME NEW a, NEW b, NEW c, NEW x PROVE <<a, b, c>> \o <<x>> = <<a, b, c, x>>
  OBVIOUS
<1> DEFINE S == {a, b, c, x}
<1>1. /\ <<a, b, c>> \in Seq(S) /\ <<x>> \in Seq(S) /\ <<a, b, c, x>> \in Seq(S)
      /\ Len(<<a, b, c>>) = 3 /\ Len(<<x>>) = 1 /\ Len(<<a, b, c, x>>) = 4
  OBVIOUS
<1> HIDE DEF S
<1>2. /\ Len(<<a, b, c>> \o <<x>>) = 4 /\ <<a, b, c>> \o <<x>> \in Seq(S)
      /\ \A k \in 1 .. 4 : (<<a, b, c>> \o <<x>>)[k] = <<a, b, c, x>>[k]
  BY <1>1, ConcatProperties
<1> QED BY <1>1, <1>2, SeqEqual

LEMMA Path5 == \A a, b, c, d, x : <<a, b, c, d>> \o <<x>> = <<a, b, c, d, x>>
<1> SUFFICES ASSUME NEW a, NEW b, NEW c, NEW d, NEW x
             PROVE  <<a, b, c, d>> \o <<x>> = <<a, b, c, d, x>>
  OBVIOUS
<1> DEFINE S == {a, b, c, d, x}
<1>1. /\ <<a, b, c, d>> \in Seq(S) /\ <<x>> \in Seq(S) /\ <<a, b, c, d, x>> \in Seq(S)
      /\ Len(<<a, b, c, d>>) = 4 /\ Len(<<x>>) = 1 /\ Len(<<a, b, c, d, x>>) = 5
  OBVIOUS
<1> HIDE DEF S
<1>2. /\ Len(<<a, b, c, d>> \o <<x>>) = 5 /\ <<a, b, c, d>> \o <<x>> \in Seq(S)
      /\ \A k \in 1 .. 5 : (<<a, b, c, d>> \o <<x>>)[k] = <<a, b, c, d, x>>[k]
  BY <1>1, ConcatProperties
<1> QED BY <1>1, <1>2, SeqEqual

LEMMA Path22 == \A a, b, c, d : <<a, b>> \o <<c, d>> = <<a, b, c, d>>
<1> SUFFICES ASSUME NEW a, NEW b, NEW c, NEW d PROVE <<a, b>> \o <<c, d>> = <<a, b, c, d>>
  OBVIOUS
<1> DEFINE S == {a, b, c, d}
<1>1. /\ <<a, b>> \in Seq(S) /\ <<c, d>> \in Seq(S) /\ <<a, b, c, d>> \in Seq(S)
      /\ Len(<<a, b>>) = 2 /\ Len(<<c, d>>) = 2 /\ Len(<<a, b, c, d>>) = 4
  OBVIOUS
<1> HIDE DEF S
<1>2. /\ Len(<<a, b>> \o <<c, d>>) = 4 /\ <<a, b>> \o <<c, d>> \in Seq(S)
      /\ \A k \in 1 .. 4 : (<<a, b>> \o <<c, d>>)[k] = <<a, b, c, d>>[k]
  BY <1>1, ConcatProperties
<1> QED BY <1>1, <1>2, SeqEqual

\* The paths that the arrays' entries begin with.
LEMMA Prefix1 == \A a, x : SubSeq(<<a, x>>, 1, 1) = <<a>>
<1> SUFFICES ASSUME NEW a, NEW x PROVE SubSeq(<<a, x>>, 1, 1) = <<a>>
  OBVIOUS
<1> DEFINE S == {a, x}
<1>1. <<a>> \in Seq(S) /\ <<a, x>> \in Seq(S) /\ Len(<<a>>) = 1 /\ Len(<<a, x>>) = 2
  OBVIOUS
<1> HIDE DEF S
<1>2. /\ SubSeq(<<a, x>>, 1, 1) \in Seq(S) /\ Len(SubSeq(<<a, x>>, 1, 1)) = 1
      /\ \A k \in 1 .. 1 : SubSeq(<<a, x>>, 1, 1)[k] = <<a>>[k]
  BY <1>1, SubSeqProperties
<1> QED BY <1>1, <1>2, SeqEqual

LEMMA Prefix3 == \A a, b, c, x : SubSeq(<<a, b, c, x>>, 1, 3) = <<a, b, c>>
<1> SUFFICES ASSUME NEW a, NEW b, NEW c, NEW x
             PROVE  SubSeq(<<a, b, c, x>>, 1, 3) = <<a, b, c>>
  OBVIOUS
<1> DEFINE S == {a, b, c, x}
           w == <<a, b, c, x>>
<1>1. <<a, b, c>> \in Seq(S) /\ w \in Seq(S) /\ Len(<<a, b, c>>) = 3 /\ Len(w) = 4
  OBVIOUS
<1>2. \A k \in 1 .. 3 : w[k] = <<a, b, c>>[k] /\ w[k] \in S
  OBVIOUS
<1> HIDE DEF S, w
<1>3. /\ SubSeq(w, 1, 3) \in Seq(S) /\ Len(SubSeq(w, 1, 3)) = 3
      /\ \A k \in 1 .. 3 : SubSeq(w, 1, 3)[k] = <<a, b, c>>[k]
  BY <1>1, <1>2, SubSeqProperties
<1>4. SubSeq(w, 1, 3) = <<a, b, c>>
  BY <1>1, <1>2, <1>3, SeqEqual
<1> QED BY <1>4 DEF w

------------------------------------------------------------------------------
(* The curve object as a tree: its own parts M, whether it has a seed and the *)
(* parts Q of that, and the numbers of points T.                              *)

array == <<"generators">>
group(k) == <<"generators", k>>
generator(k) == <<"generators", k, "generator">>
points(k) == <<"generators", k, "points">>
point(k, l) == <<"generators", k, "points", l>>

Tops == Fields \cup Meta \cup {"cache", "generators"}

OwnParts(M) == {<<x>> : x \in M}
SeedOf(seeded, Q) == IF seeded THEN {<<"seed">>} \cup {<<"seed", x>> : x \in Q} ELSE {}
GroupsOf(T) == {group(k) : k \in DOMAIN T}
GeneratorsOf(T) == {generator(k) : k \in DOMAIN T}
GeneratorNumbers(T) ==
  {<<"generators", k, "generator", x>> : k \in DOMAIN T, x \in PointNumbers}
PointArrays(T) == {points(k) : k \in {j \in DOMAIN T : T[j] # Unset}}
PointsOf(T) == UNION {{point(k, l) : l \in 1 .. T[k]} : k \in DOMAIN T}
PointsNumbers(T) ==
  UNION {{<<"generators", k, "points", l, x>> : l \in 1 .. T[k], x \in {"point", "order"}} :
           k \in DOMAIN T}

Tree(M, seeded, Q, T) ==
  {<<>>} \cup OwnParts(M) \cup SeedOf(seeded, Q) \cup GroupsOf(T)
    \cup GeneratorsOf(T) \cup GeneratorNumbers(T) \cup PointArrays(T) \cup PointsOf(T)
    \cup PointsNumbers(T)

SeedNames == {"seed", "hash20"} \cup SeedNumbers

USE DEF array, group, generator, points, point

\* A path is one of a part of the tree.
Part(p, M, seeded, Q, T) ==
  \/ p = <<>>
  \/ \E x \in M : p = <<x>>
  \/ seeded /\ (p = <<"seed">> \/ \E x \in Q : p = <<"seed", x>>)
  \/ \E k \in DOMAIN T : p = group(k)
  \/ \E k \in DOMAIN T : p = generator(k)
  \/ \E k \in DOMAIN T, x \in PointNumbers : p = <<"generators", k, "generator", x>>
  \/ \E k \in DOMAIN T : T[k] # Unset /\ p = points(k)
  \/ \E k \in DOMAIN T : \E l \in 1 .. T[k] : p = point(k, l)
  \/ \E k \in DOMAIN T : \E l \in 1 .. T[k] : \E x \in {"point", "order"} :
       p = <<"generators", k, "points", l, x>>

LEMMA TreeParts ==
  ASSUME NEW M, NEW seeded \in BOOLEAN, NEW Q, NEW T, NEW p
  PROVE  p \in Tree(M, seeded, Q, T) <=> Part(p, M, seeded, Q, T)
<1>1. p \in OwnParts(M) <=> \E x \in M : p = <<x>>
  BY DEF OwnParts
<1>2. p \in SeedOf(seeded, Q) <=> seeded /\ (p = <<"seed">> \/ \E x \in Q : p = <<"seed", x>>)
  BY DEF SeedOf
<1>4. p \in GroupsOf(T) <=> \E k \in DOMAIN T : p = group(k)
  BY DEF GroupsOf
<1>5. p \in GeneratorsOf(T) <=> \E k \in DOMAIN T : p = generator(k)
  BY DEF GeneratorsOf
<1>6. p \in GeneratorNumbers(T)
        <=> \E k \in DOMAIN T, x \in PointNumbers : p = <<"generators", k, "generator", x>>
  BY DEF GeneratorNumbers
<1>7. p \in PointArrays(T) <=> \E k \in DOMAIN T : T[k] # Unset /\ p = points(k)
  BY DEF PointArrays
<1>8. p \in PointsOf(T) <=> \E k \in DOMAIN T : \E l \in 1 .. T[k] : p = point(k, l)
  BY DEF PointsOf
<1>9. p \in PointsNumbers(T)
        <=> \E k \in DOMAIN T : \E l \in 1 .. T[k] : \E x \in {"point", "order"} :
              p = <<"generators", k, "points", l, x>>
  BY DEF PointsNumbers
<1>10. p \in Tree(M, seeded, Q, T)
         <=> \/ p = <<>> \/ p \in OwnParts(M) \/ p \in SeedOf(seeded, Q)
             \/ p \in GroupsOf(T) \/ p \in GeneratorsOf(T)
             \/ p \in GeneratorNumbers(T) \/ p \in PointArrays(T) \/ p \in PointsOf(T)
             \/ p \in PointsNumbers(T)
  BY DEF Tree
<1> QED BY <1>1, <1>2, <1>4, <1>5, <1>6, <1>7, <1>8, <1>9, <1>10, Zenon DEF Part

\* What the lemmas below are about.
Fit(M, seeded, T) ==
  /\ M \in SUBSET Tops /\ seeded \in BOOLEAN
  /\ DOMAIN T # {} => "generators" \in M
  /\ "cache" \in M => "curve" \in M

LEMMA Parts1 ==
  ASSUME NEW M, NEW seeded \in BOOLEAN, NEW Q, NEW T, NEW x
  PROVE  Part(<<x>>, M, seeded, Q, T) <=> x \in M \/ (seeded /\ x = "seed")
BY DEF Part

LEMMA Parts2 ==
  ASSUME NEW M, NEW seeded \in BOOLEAN, NEW Q, NEW T, NEW x, NEW y
  PROVE  Part(<<x, y>>, M, seeded, Q, T) <=> \/ x = "seed" /\ seeded /\ y \in Q
                                             \/ x = "generators" /\ y \in DOMAIN T
BY DEF Part

LEMMA Parts3 ==
  ASSUME NEW M, NEW seeded \in BOOLEAN, NEW Q, NEW T, NEW x, NEW k, NEW y
  PROVE  Part(<<x, k, y>>, M, seeded, Q, T) <=>
               /\ x = "generators" /\ k \in DOMAIN T
               /\ y = "generator" \/ (y = "points" /\ T[k] # Unset)
BY DEF Part

LEMMA Parts4 ==
  ASSUME NEW M, NEW seeded \in BOOLEAN, NEW Q, NEW T,
         NEW x, NEW k, NEW y, NEW z
  PROVE  Part(<<x, k, y, z>>, M, seeded, Q, T) <=>
               /\ x = "generators" /\ k \in DOMAIN T
               /\ \/ y = "generator" /\ z \in PointNumbers
                  \/ y = "points" /\ z \in 1 .. T[k]
<1> DEFINE p == <<x, k, y, z>>
<1>1. (\E kk \in DOMAIN T : \E l \in 1 .. T[kk] : p = point(kk, l))
        <=> x = "generators" /\ k \in DOMAIN T /\ y = "points" /\ z \in 1 .. T[k]
  OBVIOUS
<1>2. (\E kk \in DOMAIN T, v \in PointNumbers : p = <<"generators", kk, "generator", v>>)
        <=> x = "generators" /\ k \in DOMAIN T /\ y = "generator" /\ z \in PointNumbers
  OBVIOUS
<1>3. Part(p, M, seeded, Q, T)
        <=> \/ \E kk \in DOMAIN T : \E l \in 1 .. T[kk] : p = point(kk, l)
            \/ \E kk \in DOMAIN T, v \in PointNumbers : p = <<"generators", kk, "generator", v>>
  BY DEF Part
<1> QED BY <1>1, <1>2, <1>3

LEMMA Parts5 ==
  ASSUME NEW M, NEW seeded \in BOOLEAN, NEW Q, NEW T,
         NEW x, NEW k, NEW y, NEW l, NEW z
  PROVE  Part(<<x, k, y, l, z>>, M, seeded, Q, T) <=>
               /\ x = "generators" /\ k \in DOMAIN T /\ y = "points"
               /\ l \in 1 .. T[k] /\ z \in {"point", "order"}
<1> DEFINE p == <<x, k, y, l, z>>
<1>1. (\E kk \in DOMAIN T : \E ll \in 1 .. T[kk] : \E v \in {"point", "order"} :
         p = <<"generators", kk, "points", ll, v>>)
        <=> /\ x = "generators" /\ k \in DOMAIN T /\ y = "points"
            /\ l \in 1 .. T[k] /\ z \in {"point", "order"}
  OBVIOUS
<1>2. Part(p, M, seeded, Q, T)
        <=> \E kk \in DOMAIN T : \E ll \in 1 .. T[kk] : \E v \in {"point", "order"} :
              p = <<"generators", kk, "points", ll, v>>
  BY DEF Part
<1> QED BY <1>1, <1>2

\* Which of them are that long.
LEMMA Lengths ==
  ASSUME NEW M, NEW seeded, NEW Q, NEW T, NEW p, Part(p, M, seeded, Q, T)
  PROVE  /\ Len(p) = 2 => (\E x : p = <<"seed", x>>) \/ (\E k \in DOMAIN T : p = group(k))
         /\ Len(p) = 4 =>
              \/ \E k \in DOMAIN T, x \in PointNumbers : p = <<"generators", k, "generator", x>>
              \/ \E k \in DOMAIN T : \E l \in 1 .. T[k] : p = point(k, l)
<1>1. /\ Len(<<>>) = 0 /\ \A x : Len(<<x>>) = 1
      /\ \A x, y : Len(<<x, y>>) = 2
      /\ \A x, y, z : Len(<<x, y, z>>) = 3
      /\ \A x, y, z, w : Len(<<x, y, z, w>>) = 4
      /\ \A x, y, z, w, v : Len(<<x, y, z, w, v>>) = 5
  OBVIOUS
<1>2. CASE p = <<>>
  BY <1>1, <1>2
<1>3. CASE \E x \in M : p = <<x>>
  BY <1>1, <1>3
<1>4. CASE p = <<"seed">> \/ \E x \in Q : p = <<"seed", x>>
  BY <1>1, <1>4
<1>6. CASE \E k \in DOMAIN T : p = group(k)
  BY <1>1, <1>6
<1>7. CASE (\E k \in DOMAIN T : p = generator(k)) \/ (\E k \in DOMAIN T : p = points(k))
  BY <1>1, <1>7
<1>8. CASE \E k \in DOMAIN T, x \in PointNumbers : p = <<"generators", k, "generator", x>>
  BY <1>1, <1>8
<1>9. CASE \E k \in DOMAIN T : \E l \in 1 .. T[k] : p = point(k, l)
  BY <1>1, <1>9
<1>10. CASE \E k \in DOMAIN T : \E l \in 1 .. T[k] : \E x \in {"point", "order"} :
              p = <<"generators", k, "points", l, x>>
  BY <1>1, <1>10
<1> QED
  BY <1>2, <1>3, <1>4, <1>6, <1>7, <1>8, <1>9, <1>10, Zenon DEF Part

\* What hangs on each part.
LEMMA TopHas ==
  ASSUME NEW M, NEW seeded, NEW Q, NEW T, Fit(M, seeded, T)
  PROVE  LET o == Tree(M, seeded, Q, T) IN
         /\ \A N : "seed" \notin N =>
              \A q : q \in Has(o, <<>>, N) <=> \E x \in M \cap N : q = <<x>>
         /\ \A q : q \in Has(o, <<>>, {"seed"}) <=> seeded /\ q = <<"seed">>
<1> USE DEF Fit
<1> DEFINE o == Tree(M, seeded, Q, T)
<1>1. \A x : <<x>> \in o <=> x \in M \/ (seeded /\ x = "seed")
  <2> HIDE DEF o
  <2>1. ASSUME NEW x PROVE <<x>> \in o <=> x \in M \/ (seeded /\ x = "seed")
    <3>1. Part(<<x>>, M, seeded, Q, T) <=> x \in M \/ (seeded /\ x = "seed")
      BY Parts1, Zenon
    <3>2. <<x>> \in o <=> Part(<<x>>, M, seeded, Q, T)
      BY TreeParts, Zenon DEF o
    <3> QED BY <3>1, <3>2
  <2> QED BY <2>1
<1>2. \A N : Has(o, <<>>, N) = {<<x>> : x \in N} \cap o
  BY Path1, Zenon DEF Has
<1> HIDE DEF o
<1>3. "seed" \notin M
  BY DEF Tops, Fields, Meta
<1>4. ASSUME NEW N, "seed" \notin N PROVE Has(o, <<>>, N) = {<<x>> : x \in M \cap N}
  <2>1. \A x \in N : <<x>> \in o <=> x \in M
    BY <1>1, <1>4
  <2>2. Has(o, <<>>, N) = {<<x>> : x \in N} \cap o
    BY <1>2
  <2> QED BY <2>1, <2>2
<1>5. Has(o, <<>>, {"seed"}) = IF seeded THEN {<<"seed">>} ELSE {}
  <2>1. Has(o, <<>>, {"seed"}) = {<<x>> : x \in {"seed"}} \cap o
    BY <1>2
  <2>2. <<"seed">> \in o <=> seeded
    BY <1>1, <1>3
  <2> QED BY <2>1, <2>2
<1> QED BY <1>4, <1>5 DEF o

LEMMA SeedHas ==
  ASSUME NEW M, NEW seeded, NEW Q, NEW T, Fit(M, seeded, T), NEW names
  PROVE  \A q : q \in Has(Tree(M, seeded, Q, T), <<"seed">>, names)
                  <=> seeded /\ \E x \in Q \cap names : q = <<"seed", x>>
<1> USE DEF Fit
<1> DEFINE o == Tree(M, seeded, Q, T)
<1>1. ASSUME NEW x PROVE <<"seed", x>> \in o <=> seeded /\ x \in Q
  <2>1. \A head : Part(<<head, x>>, M, seeded, Q, T)
                    <=> \/ head = "seed" /\ seeded /\ x \in Q
                        \/ head = "generators" /\ x \in DOMAIN T
    BY Parts2
  <2>2. Part(<<"seed", x>>, M, seeded, Q, T) <=> seeded /\ x \in Q
    BY <2>1
  <2> QED BY <2>2, TreeParts, Zenon
<1>2. Has(o, <<"seed">>, names) = {<<"seed", x>> : x \in names} \cap o
  BY Path2, Zenon DEF Has
<1> HIDE DEF o
<1>3. \A q : q \in Has(o, <<"seed">>, names)
          <=> seeded /\ \E x \in Q \cap names : q = <<"seed", x>>
  BY <1>1, <1>2
<1> QED BY <1>3 DEF o

LEMMA ArrayHas ==
  ASSUME NEW M, NEW seeded, NEW Q, NEW T, Fit(M, seeded, T)
  PROVE  \A q : q \in Entries(Tree(M, seeded, Q, T), array) <=> \E k \in DOMAIN T : q = group(k)
<1> USE DEF Fit
<1> DEFINE o == Tree(M, seeded, Q, T)
<1>1. ASSUME NEW k \in DOMAIN T PROVE group(k) \in Entries(o, array)
  <2>1. Part(<<"generators", k>>, M, seeded, Q, T)
    BY Parts2
  <2> HIDE DEF o
  <2>3. <<"generators", k>> \in o
    BY <2>1, TreeParts DEF o
  <2>2. Len(group(k)) = Len(array) + 1 /\ SubSeq(group(k), 1, Len(array)) = array
    BY Prefix1
  <2> QED BY <2>3, <2>2 DEF Entries
<1>2. ASSUME NEW p \in Entries(o, array) PROVE \E k \in DOMAIN T : p = group(k)
  <2>1. p \in o /\ Len(p) = 2 /\ SubSeq(p, 1, 1) = <<"generators">>
    BY DEF Entries
  <2>2. Part(p, M, seeded, Q, T)
    BY <2>1, TreeParts
  <2>3. Len(p) = 2
    BY <2>1
  <2>5. (\E x : p = <<"seed", x>>) \/ (\E k \in DOMAIN T : p = group(k))
    BY <2>2, <2>3, Lengths
  <2>4. \A x : <<"seed", x>> # p
    BY <2>1, Prefix1
  <2> QED BY <2>5, <2>4
<1> HIDE DEF o
<1>3. Entries(o, array) = {group(k) : k \in DOMAIN T}
  BY <1>1, <1>2
<1> QED BY <1>3 DEF o

LEMMA GroupHas ==
  ASSUME NEW M, NEW seeded, NEW Q, NEW T, Fit(M, seeded, T), NEW k \in DOMAIN T
  PROVE  LET o == Tree(M, seeded, Q, T) IN
         /\ \A q : q \in Has(o, group(k), {"generator"}) <=> q = generator(k)
         /\ \A q : q \in Has(o, group(k), {"points"}) <=> T[k] # Unset /\ q = points(k)
         /\ \A q : q \in Has(o, generator(k), PointNumbers)
                     <=> \E x \in PointNumbers : q = <<"generators", k, "generator", x>>
         /\ \A q : q \in Entries(o, points(k)) <=> \E l \in 1 .. T[k] : q = point(k, l)
<1> USE DEF Fit
<1> DEFINE o == Tree(M, seeded, Q, T)
<1>1. \A y : <<"generators", k, y>> \in o
                <=> y = "generator" \/ (y = "points" /\ T[k] # Unset)
  BY TreeParts, Parts3
<1>2. \A N : Has(o, group(k), N) = {<<"generators", k, y>> : y \in N} \cap o
  BY Path3, Zenon DEF Has
<1>3. \A N : Has(o, generator(k), N) = {<<"generators", k, "generator", z>> : z \in N} \cap o
  BY Path4, Zenon DEF Has
<1>4. \A z : <<"generators", k, "generator", z>> \in o <=> z \in PointNumbers
  BY TreeParts, Parts4
<1>5. ASSUME NEW l \in 1 .. T[k] PROVE point(k, l) \in Entries(o, points(k))
  <2>1. point(k, l) \in o
    BY TreeParts, Parts4
  <2>2. /\ Len(point(k, l)) = Len(points(k)) + 1
        /\ SubSeq(point(k, l), 1, Len(points(k))) = points(k)
    BY Prefix3
  <2> QED BY <2>1, <2>2 DEF Entries
<1>6. ASSUME NEW p \in Entries(o, points(k)) PROVE \E l \in 1 .. T[k] : p = point(k, l)
  <2>1. p \in o /\ Len(p) = 4 /\ SubSeq(p, 1, 3) = <<"generators", k, "points">>
    BY DEF Entries
  <2>2. Part(p, M, seeded, Q, T)
    BY <2>1, TreeParts
  <2>3. \/ \E kk \in DOMAIN T, x \in PointNumbers : p = <<"generators", kk, "generator", x>>
        \/ \E kk \in DOMAIN T : \E l \in 1 .. T[kk] : p = point(kk, l)
    BY <2>1, <2>2, Lengths
  <2>4. \A kk, x : p # <<"generators", kk, "generator", x>>
    BY <2>1, Prefix3
  <2>5. PICK kk \in DOMAIN T : \E l \in 1 .. T[kk] : p = point(kk, l)
    BY <2>3, <2>4
  <2>6. PICK l \in 1 .. T[kk] : p = point(kk, l)
    BY <2>5
  <2>7. kk = k
    BY <2>1, <2>6, Prefix3
  <2> QED BY <2>6, <2>7
<1> HIDE DEF o
<1>7. /\ Has(o, group(k), {"generator"}) = {generator(k)}
      /\ Has(o, group(k), {"points"}) = IF T[k] = Unset THEN {} ELSE {points(k)}
  BY <1>1, <1>2
<1>8. Has(o, generator(k), PointNumbers) = {<<"generators", k, "generator", x>> : x \in PointNumbers}
  BY <1>3, <1>4
<1>9. Entries(o, points(k)) = {point(k, l) : l \in 1 .. T[k]}
  BY <1>5, <1>6
<1> QED BY <1>7, <1>8, <1>9 DEF o

LEMMA PointHas ==
  ASSUME NEW M, NEW seeded, NEW Q, NEW T, Fit(M, seeded, T),
         NEW k \in DOMAIN T, NEW l \in 1 .. T[k]
  PROVE  \A q : q \in Has(Tree(M, seeded, Q, T), point(k, l), PointNumbers)
                  <=> \E x \in {"point", "order"} : q = <<"generators", k, "points", l, x>>
<1> USE DEF Fit
<1> DEFINE o == Tree(M, seeded, Q, T)
<1>1. \A x : <<"generators", k, "points", l, x>> \in o <=> x \in {"point", "order"}
  BY TreeParts, Parts5
<1>2. Has(o, point(k, l), PointNumbers)
        = {<<"generators", k, "points", l, x>> : x \in PointNumbers} \cap o
  <2>1. \A x : point(k, l) \o <<x>> = <<"generators", k, "points", l, x>>
    BY Path5
  <2> QED BY <2>1, Zenon DEF Has
<1> HIDE DEF o
<1>3. Has(o, point(k, l), PointNumbers)
        = {<<"generators", k, "points", l, x>> : x \in {"point", "order"}}
  BY <1>1, <1>2 DEF PointNumbers
<1> QED BY <1>3 DEF o

------------------------------------------------------------------------------
(* What a copy or a free reaches: the parts Q of the seed, the arrays, and   *)
(* the numbers of the names N and, if any, of the points.                    *)

GroupPart(p, k, numbers, T) ==
  \/ p = group(k)
  \/ p = generator(k)
  \/ numbers /\ \E x \in PointNumbers : p = <<"generators", k, "generator", x>>
  \/ T[k] # Unset /\ p = points(k)
  \/ \E l \in 1 .. T[k] : p = point(k, l)
  \/ numbers /\ \E l \in 1 .. T[k] : \E x \in {"point", "order"} :
       p = <<"generators", k, "points", l, x>>

Reached(p, N, numbers, seeded, Q, T) ==
  \/ p = <<>>
  \/ \E x \in N : p = <<x>>
  \/ seeded /\ (p = <<"seed">> \/ \E x \in Q : p = <<"seed", x>>)
  \/ \E k \in DOMAIN T : GroupPart(p, k, numbers, T)

\* An array that is not there has no entries.
LEMMA NoEntries == \A m, l : l \in 1 .. m => m # Unset
BY DEF Unset

\* That is all of a tree, with the numbers.
LEMMA TreeReached ==
  ASSUME NEW M, NEW seeded \in BOOLEAN, NEW Q, NEW T, NEW p, NEW numbers, numbers
  PROVE  p \in Tree(M, seeded, Q, T) <=> Reached(p, M, numbers, seeded, Q, T)
<1>1. p \in Tree(M, seeded, Q, T) <=> Part(p, M, seeded, Q, T)
  BY TreeParts
<1>2. Part(p, M, seeded, Q, T) => Reached(p, M, numbers, seeded, Q, T)
  BY Zenon DEF Part, Reached, GroupPart
<1>3. Reached(p, M, numbers, seeded, Q, T) => Part(p, M, seeded, Q, T)
  BY Zenon DEF Part, Reached, GroupPart
<1> QED BY <1>1, <1>2, <1>3

\* The parts under one generator, which a copy has and a free gives back.
LEMMA GroupCopy ==
  ASSUME NEW M, NEW seeded, NEW Q, NEW T, Fit(M, seeded, T), NEW k \in DOMAIN T,
         NEW p, NEW numbers, numbers
  PROVE  p \in subgroup_copy(Tree(M, seeded, Q, T), group(k)) <=> GroupPart(p, k, numbers, T)
<1> DEFINE o == Tree(M, seeded, Q, T)
<1>1. /\ \A q : q \in Has(o, group(k), {"generator"}) <=> q = generator(k)
      /\ \A q : q \in Has(o, group(k), {"points"}) <=> T[k] # Unset /\ q = points(k)
      /\ \A q : q \in Has(o, generator(k), PointNumbers)
                  <=> \E x \in PointNumbers : q = <<"generators", k, "generator", x>>
      /\ \A q : q \in Entries(o, points(k)) <=> \E l \in 1 .. T[k] : q = point(k, l)
  BY GroupHas, SMTT(60)
<1>2. \A l \in 1 .. T[k] : \A q :
        q \in Has(o, point(k, l), PointNumbers)
          <=> \E x \in {"point", "order"} : q = <<"generators", k, "points", l, x>>
  BY PointHas
<1> HIDE DEF o
<1>3. p \in point_copy(o, generator(k))
        <=> \/ p = generator(k)
            \/ \E x \in PointNumbers : p = <<"generators", k, "generator", x>>
  BY <1>1 DEF point_copy
<1>4. ASSUME NEW l \in 1 .. T[k]
      PROVE  p \in point_copy(o, point(k, l))
               <=> \/ p = point(k, l)
                   \/ \E x \in {"point", "order"} : p = <<"generators", k, "points", l, x>>
  BY <1>2 DEF point_copy
<1>5. p \in points_copy(o, points(k))
        <=> \/ p = points(k)
            \/ \E l \in 1 .. T[k] :
                 \/ p = point(k, l)
                 \/ \E x \in {"point", "order"} : p = <<"generators", k, "points", l, x>>
  <2>1. p \in points_copy(o, points(k))
          <=> p = points(k) \/ \E l \in 1 .. T[k] : p \in point_copy(o, point(k, l))
    <3>1. p \in points_copy(o, points(k))
              <=> p = points(k) \/ \E q \in Entries(o, points(k)) : p \in point_copy(o, q)
      BY DEF points_copy
    <3> QED BY <1>1, <3>1, Zenon
  <2> QED BY <2>1, <1>4
<1>6. p \in subgroup_copy(o, group(k))
        <=> \/ p = group(k) \/ p \in point_copy(o, generator(k))
            \/ T[k] # Unset /\ p \in points_copy(o, points(k))
  BY <1>1 DEF subgroup_copy
<1>7. p \in subgroup_copy(o, group(k)) <=> GroupPart(p, k, numbers, T)
  BY <1>3, <1>5, <1>6, NoEntries, Zenon DEF GroupPart
<1> QED BY <1>7 DEF o

LEMMA GroupFree ==
  ASSUME NEW M, NEW seeded, NEW Q, NEW T, Fit(M, seeded, T), NEW k \in DOMAIN T,
         NEW p, NEW cloned \in BOOLEAN
  PROVE  p \in subgroup_free_deep(Tree(M, seeded, Q, T), group(k), cloned)
           <=> GroupPart(p, k, cloned, T)
<1> DEFINE o == Tree(M, seeded, Q, T)
<1>1. /\ \A q : q \in Has(o, group(k), {"generator"}) <=> q = generator(k)
      /\ \A q : q \in Has(o, group(k), {"points"}) <=> T[k] # Unset /\ q = points(k)
      /\ \A q : q \in Has(o, generator(k), PointNumbers)
                  <=> \E x \in PointNumbers : q = <<"generators", k, "generator", x>>
      /\ \A q : q \in Entries(o, points(k)) <=> \E l \in 1 .. T[k] : q = point(k, l)
  BY GroupHas, SMTT(60)
<1>2. \A l \in 1 .. T[k] : \A q :
        q \in Has(o, point(k, l), PointNumbers)
          <=> \E x \in {"point", "order"} : q = <<"generators", k, "points", l, x>>
  BY PointHas
<1> HIDE DEF o
<1>3. p \in point_free(o, generator(k), cloned)
        <=> \/ p = generator(k)
            \/ cloned /\ \E x \in PointNumbers : p = <<"generators", k, "generator", x>>
  BY <1>1 DEF point_free, Clones
<1>4. ASSUME NEW l \in 1 .. T[k]
      PROVE  p \in point_free(o, point(k, l), cloned)
               <=> \/ p = point(k, l)
                   \/ cloned /\ \E x \in {"point", "order"} :
                        p = <<"generators", k, "points", l, x>>
  BY <1>2 DEF point_free, Clones
<1>5. p \in points_free_deep(o, points(k), cloned)
        <=> \/ p = points(k)
            \/ \E l \in 1 .. T[k] :
                 \/ p = point(k, l)
                 \/ cloned /\ \E x \in {"point", "order"} :
                      p = <<"generators", k, "points", l, x>>
  <2>1. p \in points_free_deep(o, points(k), cloned)
          <=> p = points(k) \/ \E l \in 1 .. T[k] : p \in point_free(o, point(k, l), cloned)
    <3>1. p \in points_free_deep(o, points(k), cloned)
              <=> p = points(k) \/ \E q \in Entries(o, points(k)) : p \in point_free(o, q, cloned)
      BY DEF points_free_deep
    <3> QED BY <1>1, <3>1, Zenon
  <2> QED BY <2>1, <1>4
<1>6. p \in subgroup_free_deep(o, group(k), cloned)
        <=> \/ p = group(k) \/ p \in point_free(o, generator(k), cloned)
            \/ T[k] # Unset /\ p \in points_free_deep(o, points(k), cloned)
  BY <1>1 DEF subgroup_free_deep, subgroup_free
<1>7. p \in subgroup_free_deep(o, group(k), cloned) <=> GroupPart(p, k, cloned, T)
  BY <1>3, <1>5, <1>6, NoEntries, Zenon DEF GroupPart
<1> QED BY <1>7 DEF o

LEMMA CurveCopy ==
  ASSUME NEW M, NEW seeded, NEW Q, NEW T, Fit(M, seeded, T), NEW p,
         NEW numbers, numbers
  PROVE  p \in curve_copy(Tree(M, seeded, Q, T))
           <=> Reached(p, M \cap (Fields \cup {"generators"}), numbers, seeded,
                       Q \cap {"seed", "hash20"}, T)
<1> DEFINE o == Tree(M, seeded, Q, T)
<1>1. /\ \A N : "seed" \notin N =>
           \A q : q \in Has(o, <<>>, N) <=> \E x \in M \cap N : q = <<x>>
      /\ \A q : q \in Has(o, <<>>, {"seed"}) <=> seeded /\ q = <<"seed">>
  BY TopHas
<1>2. \A names, q : q \in Has(o, <<"seed">>, names)
                      <=> seeded /\ \E x \in Q \cap names : q = <<"seed", x>>
  BY SeedHas
<1>3. \A q : q \in Entries(o, array) <=> \E k \in DOMAIN T : q = group(k)
  BY ArrayHas
<1>4. \A k \in DOMAIN T : p \in subgroup_copy(o, group(k)) <=> GroupPart(p, k, numbers, T)
  BY GroupCopy
<1> HIDE DEF o
<1>5. ASSUME seeded
      PROVE (p \in seed_copy(o, <<"seed">>)
                   <=> \/ p = <<"seed">>
                       \/ \E x \in Q \cap {"seed", "hash20"} : p = <<"seed", x>>)
  BY <1>2, <1>5 DEF seed_copy
<1>6. p \in subgroups_copy(o, array)
        <=> p = array \/ \E k \in DOMAIN T : GroupPart(p, k, numbers, T)
  <2>1. p \in subgroups_copy(o, array)
          <=> p = array \/ \E k \in DOMAIN T : p \in subgroup_copy(o, group(k))
    BY <1>3 DEF subgroups_copy
  <2> QED BY <2>1, <1>4
<1>7. /\ \A q : q \in Has(o, <<>>, Fields) <=> \E x \in M \cap Fields : q = <<x>>
      /\ \A q : q \in Has(o, <<>>, {"generators"}) <=> "generators" \in M /\ q = array
  BY <1>1 DEF Fields
<1>8. p \in curve_copy(o)
        <=> \/ p = <<>> \/ \E x \in M \cap Fields : p = <<x>>
            \/ seeded /\ p \in seed_copy(o, <<"seed">>)
            \/ "generators" \in M /\ p \in subgroups_copy(o, array)
  BY <1>1, <1>7 DEF curve_copy
<1>9. (\E k \in DOMAIN T : GroupPart(p, k, numbers, T)) => "generators" \in M
  BY DEF Fit
<1>10. (\E x \in M \cap (Fields \cup {"generators"}) : p = <<x>>)
         <=> (\E x \in M \cap Fields : p = <<x>>) \/ ("generators" \in M /\ p = array)
  OBVIOUS
<1>11. p \in curve_copy(o)
         <=> Reached(p, M \cap (Fields \cup {"generators"}), numbers, seeded,
                     Q \cap {"seed", "hash20"}, T)
  BY <1>5, <1>6, <1>8, <1>9, <1>10, Zenon DEF Reached
<1> QED BY <1>11 DEF o

\* The parts of the curve's own that a free gives back.
FreedOf(M, cloned) == M \cap ({"cache", "generators"} \cup IF cloned THEN Fields ELSE {})

LEMMA CurveFree ==
  ASSUME NEW M, NEW seeded, NEW Q \in SUBSET SeedNames, NEW T, Fit(M, seeded, T),
         NEW p, NEW cloned \in BOOLEAN
  PROVE  p \in curve_free(Tree(M, seeded, Q, T), cloned)
           <=> Reached(p, FreedOf(M, cloned), cloned, seeded, Q \cap {"seed", "hash20"}, T)
<1> DEFINE o == Tree(M, seeded, Q, T)
<1>1. /\ \A N : "seed" \notin N =>
           \A q : q \in Has(o, <<>>, N) <=> \E x \in M \cap N : q = <<x>>
      /\ \A q : q \in Has(o, <<>>, {"seed"}) <=> seeded /\ q = <<"seed">>
  BY TopHas
<1>2. \A names, q : q \in Has(o, <<"seed">>, names)
                      <=> seeded /\ \E x \in Q \cap names : q = <<"seed", x>>
  BY SeedHas
<1>3. \A q : q \in Entries(o, array) <=> \E k \in DOMAIN T : q = group(k)
  BY ArrayHas
<1>4. \A k \in DOMAIN T :
        p \in subgroup_free_deep(o, group(k), cloned) <=> GroupPart(p, k, cloned, T)
  BY GroupFree
<1> HIDE DEF o
<1>5. ASSUME seeded
      PROVE (p \in seed_free(o, <<"seed">>)
                   <=> \/ p = <<"seed">>
                       \/ \E x \in Q \cap {"seed", "hash20"} : p = <<"seed", x>>)
  <2>1. Q \cap {"seed", "hash20", "seed_a", "seed_b"} = Q \cap {"seed", "hash20"}
    BY DEF SeedNames, SeedNumbers
  <2> QED BY <1>2, <1>5, <2>1 DEF seed_free
<1>6. p \in subgroups_free_deep(o, array, cloned)
        <=> p = array \/ \E k \in DOMAIN T : GroupPart(p, k, cloned, T)
  <2>1. p \in subgroups_free_deep(o, array, cloned)
          <=> p = array \/ \E k \in DOMAIN T : p \in subgroup_free_deep(o, group(k), cloned)
    BY <1>3, Zenon DEF subgroups_free_deep
  <2> QED BY <2>1, <1>4
<1>7. /\ \A q : q \in Has(o, <<>>, Fields) <=> \E x \in M \cap Fields : q = <<x>>
      /\ \A q : q \in Has(o, <<>>, {"generators"}) <=> "generators" \in M /\ q = array
      /\ \A q : q \in Has(o, <<>>, {"curve"}) <=> "curve" \in M /\ q = <<"curve">>
      /\ \A q : q \in obj_free(o) <=> "cache" \in M /\ q = <<"cache">>
  BY <1>1 DEF Fields, obj_free
<1>8. p \in curve_free(o, cloned)
        <=> \/ p = <<>> \/ (cloned /\ \E x \in M \cap Fields : p = <<x>>)
            \/ "curve" \in M /\ p \in obj_free(o)
            \/ seeded /\ p \in seed_free(o, <<"seed">>)
            \/ "generators" \in M /\ p \in subgroups_free_deep(o, array, cloned)
  <2>1. p \in Clones(o, <<>>, Fields, cloned) <=> cloned /\ \E x \in M \cap Fields : p = <<x>>
    BY <1>7, Zenon DEF Clones
  <2>2. /\ p \in (UNION {obj_free(o) : q \in Has(o, <<>>, {"curve"})})
             <=> "curve" \in M /\ p \in obj_free(o)
        /\ p \in (UNION {seed_free(o, q) : q \in Has(o, <<>>, {"seed"})})
             <=> seeded /\ p \in seed_free(o, <<"seed">>)
        /\ p \in (UNION {subgroups_free_deep(o, q, cloned) : q \in Has(o, <<>>, {"generators"})})
             <=> "generators" \in M /\ p \in subgroups_free_deep(o, array, cloned)
    <3> HIDE DEF array
    <3>1. \A q : q \in Has(o, <<>>, {"seed"}) <=> seeded /\ q = <<"seed">>
      BY <1>1
    <3> QED BY <3>1, <1>7, Zenon
  <2> QED BY <2>1, <2>2, Zenon DEF curve_free
<1>9. /\ (\E k \in DOMAIN T : GroupPart(p, k, cloned, T)) => "generators" \in M
      /\ "cache" \in M => "curve" \in M
  BY DEF Fit
<1>10. (\E x \in FreedOf(M, cloned) : p = <<x>>)
         <=> \/ cloned /\ \E x \in M \cap Fields : p = <<x>>
             \/ "cache" \in M /\ p = <<"cache">>
             \/ "generators" \in M /\ p = array
  BY DEF FreedOf
<1>11. "curve" \in M /\ p \in obj_free(o) <=> "cache" \in M /\ p = <<"cache">>
  BY <1>7, <1>9
<1>12. p \in curve_free(o, cloned)
         <=> Reached(p, FreedOf(M, cloned), cloned, seeded, Q \cap {"seed", "hash20"}, T)
  BY <1>5, <1>6, <1>8, <1>9, <1>10, <1>11, Zenon DEF Reached
<1> QED BY <1>12 DEF o

\* The structs are what is reached without the numbers.
LEMMA TreeStructs ==
  ASSUME NEW M, NEW seeded, NEW Q \in SUBSET SeedNames, NEW T, Fit(M, seeded, T), NEW p,
         NEW numbers, ~numbers
  PROVE  p \in Structs(Tree(M, seeded, Q, T))
           <=> Reached(p, FreedOf(M, FALSE), numbers, seeded, Q \cap {"seed", "hash20"}, T)
<1> USE DEF Fit
<1> DEFINE o == Tree(M, seeded, Q, T)
           N == FreedOf(M, FALSE)
           P == Q \cap {"seed", "hash20"}
<1>1. p \in o <=> Part(p, M, seeded, Q, T)
  BY TreeParts
<1>2. /\ ~Number(<<>>) /\ ~Number(<<"seed">>)
      /\ \A x, y : x # "seed" => ~Number(<<x, y>>)
      /\ \A x, y, z : ~Number(<<x, y, z>>)
      /\ \A k, x : Number(<<"generators", k, "generator", x>>)
      /\ \A k, x : ~Number(<<"generators", k, "points", x>>)
      /\ \A x, y, z, w, v : Number(<<x, y, z, w, v>>)
  BY DEF Number, Fields, Meta
<1>3. /\ N \subseteq M /\ P \subseteq Q
      /\ \A x \in M : Number(<<x>>) <=> x \notin N
      /\ \A x \in Q : Number(<<"seed", x>>) <=> x \notin P
  BY DEF Number, Fields, Meta, Tops, SeedNames, SeedNumbers, FreedOf
<1>4. \A k : ~Number(group(k))
  BY <1>2
<1> HIDE DEF o, N, P
<1>5. ASSUME Part(p, M, seeded, Q, T), ~Number(p) PROVE Reached(p, N, numbers, seeded, P, T)
  BY <1>2, <1>3, <1>5, Zenon DEF Part, Reached, GroupPart
<1>6. ASSUME Reached(p, N, numbers, seeded, P, T) PROVE Part(p, M, seeded, Q, T) /\ ~Number(p)
  BY <1>2, <1>3, <1>4, <1>6, Zenon DEF Part, Reached, GroupPart
<1> QED BY <1>1, <1>5, <1>6 DEF Structs, o, N, P

------------------------------------------------------------------------------
(* Objects of every shape.                                                   *)

Seeded(shape) == shape.seed # {}

\* The numbers of points of its generators.
Counts(shape) == IF shape.generators THEN shape.points ELSE <<>>

LEMMA GroupIs ==
  ASSUME NEW T, NEW k, NEW p, NEW numbers, numbers
  PROVE  p \in Group(group(k), T[k]) <=> GroupPart(p, k, numbers, T)
<1>2. /\ group(k) \o <<"generator">> = generator(k) /\ group(k) \o <<"points">> = points(k)
      /\ \A l : group(k) \o <<"points", l>> = point(k, l)
  BY Path3, Path22
<1>3. \A x : generator(k) \o <<x>> = <<"generators", k, "generator", x>>
  BY Path4
<1>4. \A l, x : point(k, l) \o <<x>> = <<"generators", k, "points", l, x>>
  BY Path5
<1>5. p \in Point(generator(k), TRUE)
        <=> \/ p = generator(k)
            \/ \E x \in PointNumbers : p = <<"generators", k, "generator", x>>
  BY <1>3 DEF Point, PointNumbers
<1>6. \A l : p \in Point(point(k, l), FALSE)
               <=> \/ p = point(k, l)
                   \/ \E x \in {"point", "order"} : p = <<"generators", k, "points", l, x>>
  BY <1>4 DEF Point
<1>7. p \in Group(group(k), T[k])
        <=> \/ p = group(k) \/ p \in Point(generator(k), TRUE)
            \/ T[k] # Unset /\ p = points(k)
            \/ \E l \in 1 .. T[k] : p \in Point(point(k, l), FALSE)
  BY <1>2 DEF Group
<1>8. p \in Group(group(k), T[k]) <=> GroupPart(p, k, numbers, T)
  BY <1>5, <1>6, <1>7, Zenon DEF GroupPart
<1> QED BY <1>8

LEMMA ObjectIs ==
  ASSUME NEW shape \in Shapes, NEW p, NEW numbers, numbers
  PROVE  p \in Object(shape)
           <=> Reached(p, Own(shape), numbers, Seeded(shape), shape.seed, Counts(shape))
<1> DEFINE T == Counts(shape)
           own == Own(shape)
           seed == shape.seed
           named == IF seed = {} THEN {} ELSE {<<"seed">>} \cup {<<"seed", x>> : x \in seed}
           groups == IF shape.generators
                     THEN UNION {Group(<<"generators", k>>, shape.points[k]) : k \in DOMAIN shape.points}
                     ELSE {}
<1>1. \A k : p \in Group(group(k), T[k]) <=> GroupPart(p, k, numbers, T)
  BY GroupIs
<1>2. p \in groups <=> \E k \in DOMAIN T : p \in Group(group(k), T[k])
  <2>1. CASE shape.generators
    BY <2>1 DEF Counts
  <2>2. CASE ~shape.generators
    <3>1. DOMAIN T = {}
      BY <2>2 DEF Counts
    <3> QED BY <2>2, <3>1
  <2> QED BY <2>1, <2>2
<1>3. Object(shape) = {<<>>} \cup {<<x>> : x \in own} \cup named \cup groups
  BY Zenon DEF Object
<1>4. p \in named <=> Seeded(shape) /\ (p = <<"seed">> \/ \E x \in seed : p = <<"seed", x>>)
  BY DEF Seeded
<1>5. p \in {<<x>> : x \in own} <=> \E x \in own : p = <<x>>
  OBVIOUS
<1> HIDE DEF T, own, seed, named, groups
<1>6. p \in Object(shape)
        <=> \/ p = <<>> \/ p \in {<<x>> : x \in own} \/ p \in named \/ p \in groups
  BY <1>3
<1>7. p \in Object(shape) <=> Reached(p, own, numbers, Seeded(shape), seed, T)
  BY <1>1, <1>2, <1>4, <1>5, <1>6, Zenon DEF Reached
<1> QED BY <1>7 DEF T, own, seed

\* Of a seed a copy has its bits and its hash, and of the rest neither the metadata
\* nor what PARI keeps.
CopiedSeed(shape) == shape.seed \cap {"seed", "hash20"}
Copied(shape) == Own(shape) \cap (Fields \cup {"generators"})

LEMMA ShapeFits ==
  ASSUME NEW shape \in Shapes
  PROVE  /\ Fit(Own(shape), Seeded(shape), Counts(shape))
         /\ Fit(Copied(shape), Seeded(shape), Counts(shape))
         /\ Counts(shape) \in Seq(Nat \cup {Unset})
         /\ Seeded(shape) => "seed" \in shape.seed
         /\ shape.seed \in SUBSET SeedNames
<1>1. /\ shape.fields \in SUBSET Fields /\ shape.meta \in SUBSET Meta
      /\ shape.seed \in {{}} \cup SeedParts /\ shape.points \in Seq(Nat \cup {Unset})
      /\ shape.generators \in BOOLEAN
  BY DEF Shapes, Meta, BinaryMeta
<1>2. Counts(shape) \in Seq(Nat \cup {Unset}) /\ (DOMAIN Counts(shape) # {} => shape.generators)
  BY <1>1 DEF Counts
<1>3. /\ Own(shape) \in SUBSET Tops /\ Copied(shape) \in SUBSET Tops
      /\ "cache" \in Own(shape) => "curve" \in Own(shape)
      /\ "cache" \notin Copied(shape)
      /\ shape.generators => "generators" \in Own(shape) /\ "generators" \in Copied(shape)
  BY <1>1 DEF Own, Copied, Tops, Fields, Meta
<1>4. shape.seed \in SUBSET SeedNames /\ (Seeded(shape) => "seed" \in shape.seed)
  BY <1>1 DEF Seeded, SeedParts, SeedNames, SeedNumbers
<1>5. Seeded(shape) \in BOOLEAN
  BY DEF Seeded
<1> QED BY <1>2, <1>3, <1>4, <1>5 DEF Fit

LEMMA ObjectTrees ==
  ASSUME NEW shape \in Shapes
  PROVE  /\ Object(shape) = Tree(Own(shape), Seeded(shape), shape.seed, Counts(shape))
         /\ curve_copy(Object(shape))
              = Tree(Copied(shape), Seeded(shape), CopiedSeed(shape), Counts(shape))
<1> DEFINE M == Own(shape)
           s == Seeded(shape)
           Q == shape.seed
           T == Counts(shape)
           o == Object(shape)
           N == Copied(shape)
           P == CopiedSeed(shape)
           copy == curve_copy(o)
<1>1. Fit(M, s, T) /\ Fit(N, s, T)
  BY ShapeFits
<1>2. PICK numbers \in BOOLEAN : numbers
  OBVIOUS
<1> HIDE DEF M, s, Q, T, o, N, P, copy
<1>3. s \in BOOLEAN
  BY <1>1 DEF Fit
<1>4. o = Tree(M, s, Q, T)
  <2>1. ASSUME NEW p PROVE p \in o <=> Reached(p, M, numbers, s, Q, T)
    BY <1>2, ObjectIs DEF o, M, s, Q, T
  <2>2. ASSUME NEW p PROVE p \in Tree(M, s, Q, T) <=> Reached(p, M, numbers, s, Q, T)
    BY <1>2, <1>3, TreeReached
  <2> QED BY <2>1, <2>2
<1>5. copy = Tree(N, s, P, T)
  <2>1. ASSUME NEW p PROVE p \in copy <=> Reached(p, N, numbers, s, P, T)
    BY <1>1, <1>2, <1>4, CurveCopy DEF copy, N, P, Copied, CopiedSeed, M, Q
  <2>2. ASSUME NEW p PROVE p \in Tree(N, s, P, T) <=> Reached(p, N, numbers, s, P, T)
    BY <1>2, <1>3, TreeReached
  <2> QED BY <2>1, <2>2
<1> QED BY <1>4, <1>5 DEF o, copy, M, s, Q, T, N, P

\* What a free gives back of a tree: its heap, and of a clone without numbers that
\* are not clones all of it.
LEMMA TreeFreed ==
  ASSUME NEW M, NEW seeded, NEW Q \in SUBSET SeedNames, NEW T, Fit(M, seeded, T)
  PROVE  LET o == Tree(M, seeded, Q, T) IN
         /\ curve_free(o, FALSE) = Structs(o)
         /\ M \cap Meta = {} /\ Q \cap SeedNumbers = {} => curve_free(o, TRUE) = o
<1> DEFINE o == Tree(M, seeded, Q, T)
           P == Q \cap {"seed", "hash20"}
<1>1. ASSUME NEW p PROVE p \in curve_free(o, FALSE) <=> p \in Structs(o)
  <2>1. p \in Structs(o) <=> Reached(p, FreedOf(M, FALSE), FALSE, seeded, P, T)
    BY TreeStructs
  <2>2. p \in curve_free(o, FALSE) <=> Reached(p, FreedOf(M, FALSE), FALSE, seeded, P, T)
    BY CurveFree
  <2> QED BY <2>1, <2>2
<1>2. ASSUME M \cap Meta = {}, Q \cap SeedNumbers = {}, NEW p
      PROVE  p \in curve_free(o, TRUE) <=> p \in o
  <2>1. FreedOf(M, TRUE) = M
    BY <1>2 DEF FreedOf, Fit, Tops
  <2>2. P = Q
    BY <1>2 DEF SeedNames
  <2> HIDE DEF P
  <2>3. p \in o <=> Reached(p, M, TRUE, seeded, Q, T)
    BY TreeReached DEF Fit
  <2>4. p \in curve_free(o, TRUE) <=> Reached(p, FreedOf(M, TRUE), TRUE, seeded, P, T)
    BY CurveFree DEF P
  <2> QED BY <2>1, <2>2, <2>3, <2>4
<1> QED BY <1>1, <1>2

\* What PARI keeps for a copy makes it a tree that fits as well.
Used(o) == o \cup {<<"cache">> : p \in Has(o, <<>>, {"curve"})}
Caching(M) == M \cup {x \in {"cache"} : "curve" \in M}

LEMMA UsedTree ==
  ASSUME NEW M, NEW seeded, NEW Q \in SUBSET SeedNames, NEW T, Fit(M, seeded, T),
         NEW o, o = Tree(M, seeded, Q, T)
  PROVE  Used(o) = Tree(Caching(M), seeded, Q, T) /\ Fit(Caching(M), seeded, T)
<1> USE DEF Used, Caching
<1> DEFINE N == Caching(M)
           used == Used(o)
<1>1. \A q : q \in Has(o, <<>>, {"curve"}) <=> "curve" \in M /\ q = <<"curve">>
  <2>1. \A q : q \in Has(o, <<>>, {"curve"}) <=> \E x \in M \cap {"curve"} : q = <<x>>
    BY TopHas
  <2> QED BY <2>1
<1>2. Fit(N, seeded, T)
  BY DEF Fit, Tops
<1>3. PICK numbers \in BOOLEAN : numbers
  OBVIOUS
<1>4. seeded \in BOOLEAN
  BY DEF Fit
<1>5. ASSUME NEW p PROVE p \in used <=> p \in Tree(N, seeded, Q, T)
  <2>1. p \in o <=> Reached(p, M, numbers, seeded, Q, T)
    BY <1>3, <1>4, TreeReached
  <2>2. p \in Tree(N, seeded, Q, T) <=> Reached(p, N, numbers, seeded, Q, T)
    BY <1>3, <1>4, TreeReached
  <2>3. p \in used <=> p \in o \/ ("curve" \in M /\ p = <<"cache">>)
    BY <1>1
  <2>4. (\E x \in N : p = <<x>>) <=> (\E x \in M : p = <<x>>) \/ ("curve" \in M /\ p = <<"cache">>)
    OBVIOUS
  <2> HIDE DEF N, used, Used, Caching
  <2> QED BY <2>1, <2>2, <2>3, <2>4, Zenon DEF Reached
<1> HIDE DEF N, used, Used, Caching
<1>6. used = Tree(N, seeded, Q, T)
  BY <1>5
<1> QED BY <1>2, <1>6 DEF N, used

\* Whatever the shape of a curve object (whole or given up, its metadata, its seed, and
\* any number of generators with any number of points each, or no array of them),
\* freeing it gives back its whole heap, with what PARI keeps: of the curve, of a copy
\* and of a clone with its numbers.  And a copy lacks only the metadata, the numbers
\* of the seed and what PARI keeps.
THEOREM EveryObjectExact ==
  ASSUME NEW shape \in Shapes
  PROVE  ObjectsExact(shape)
<1> DEFINE M == Own(shape)
           s == Seeded(shape)
           Q == shape.seed
           T == Counts(shape)
           o == Object(shape)
           N == Copied(shape)
           P == CopiedSeed(shape)
           U == N \cup {x \in {"cache"} : "curve" \in N}
           copy == curve_copy(o)
           used == copy \cup {<<"cache">> : p \in Has(copy, <<>>, {"curve"})}
           special == {<<x>> : x \in Meta \cup {"cache"}} \cup {<<"seed", x>> : x \in SeedNumbers}
<1>1. Fit(M, s, T) /\ Fit(N, s, T) /\ Q \in SUBSET SeedNames
  BY ShapeFits
<1>2. P \in SUBSET SeedNames /\ P \cap SeedNumbers = {}
  BY <1>1 DEF CopiedSeed, SeedNumbers
<1>3. N \cap Meta = {} /\ U \cap Meta = {}
  BY DEF Copied, Fields, Meta
<1>4. o = Tree(M, s, Q, T) /\ copy = Tree(N, s, P, T)
  BY ObjectTrees
<1>5. Q \cap {"seed", "hash20"} = P /\ M \cap (Fields \cup {"generators"}) = N
  BY DEF CopiedSeed, Copied
<1> HIDE DEF M, s, Q, T, o, N, P, U, copy, used, special
<1>6. used = Tree(U, s, P, T) /\ Fit(U, s, T)
  <2>1. Fit(N, s, T) /\ P \in SUBSET SeedNames /\ copy = Tree(N, s, P, T)
    BY <1>1, <1>2, <1>4
  <2>2. Used(copy) = Tree(Caching(N), s, P, T) /\ Fit(Caching(N), s, T)
    BY <2>1, UsedTree
  <2> QED BY <2>2, Zenon DEF used, U, Used, Caching
<1>7. curve_free(o, FALSE) = Structs(o)
  BY <1>1, <1>4, TreeFreed
<1>8. curve_free(copy, FALSE) = Structs(copy) /\ curve_free(copy, TRUE) = copy
  BY <1>1, <1>2, <1>3, <1>4, TreeFreed
<1>9. curve_free(used, FALSE) = Structs(used) /\ curve_free(used, TRUE) = used
  BY <1>2, <1>3, <1>6, TreeFreed
<1>10. copy = o \ special
  <2>1. ASSUME NEW p PROVE p \in copy <=> p \in o /\ p \notin special
    <3>1. p \in o <=> Part(p, M, s, Q, T)
      BY <1>1, <1>4, TreeParts DEF Fit
    <3>2. p \in copy <=> Part(p, N, s, P, T)
      BY <1>1, <1>4, TreeParts DEF Fit
    <3>3. p \in special <=> \/ \E x \in Meta \cup {"cache"} : p = <<x>>
                            \/ \E x \in SeedNumbers : p = <<"seed", x>>
      BY DEF special
    <3>4. ASSUME Part(p, M, s, Q, T), p \notin special
          PROVE  Part(p, N, s, P, T)
      <4>1. (\E x \in M : p = <<x>>) => \E x \in N : p = <<x>>
        BY <1>1, <1>5, <3>3, <3>4 DEF Fit, Tops
      <4>2. (\E x \in Q : p = <<"seed", x>>) => \E x \in P : p = <<"seed", x>>
        BY <1>1, <1>5, <3>3, <3>4 DEF SeedNames
      <4> QED BY <3>4, <4>1, <4>2, Zenon DEF Part
    <3>5. ASSUME Part(p, N, s, P, T)
          PROVE  Part(p, M, s, Q, T) /\ p \notin special
      <4>1. (\E x \in N : p = <<x>>) => \E x \in M : p = <<x>>
        BY <1>5
      <4>2. (\E x \in P : p = <<"seed", x>>) => \E x \in Q : p = <<"seed", x>>
        BY <1>5
      <4>3. Part(p, M, s, Q, T)
        BY <3>5, <4>1, <4>2, Zenon DEF Part
      <4>4. /\ \A x \in N : <<x>> \notin special
            /\ \A x \in P : <<"seed", x>> \notin special
            /\ <<>> \notin special /\ <<"seed">> \notin special
            /\ \A k : group(k) \notin special
            /\ \A x, y, z : <<x, y, z>> \notin special
            /\ \A x, y, z, w : <<x, y, z, w>> \notin special
            /\ \A x, y, z, w, v : <<x, y, z, w, v>> \notin special
        BY <1>5 DEF special, Fields, Meta, SeedNumbers
      <4>5. p \notin special
        BY <3>5, <4>4, Zenon DEF Part
      <4> QED BY <4>3, <4>5
    <3> QED BY <3>1, <3>2, <3>4, <3>5
  <2> QED BY <2>1
<1> HIDE DEF o
<1>11. ObjectsExact(shape)
  BY <1>7, <1>8, <1>9, <1>10, Zenon DEF ObjectsExact, o, copy, used, special
<1> QED BY <1>11

LEMMA ShapeOf == ASSUME NEW m \in Nat PROVE Shape(m) \in Shapes
<1>1. m % 3 \in 0 .. 2 /\ m % 7 \in 0 .. 6 /\ (m % 4) - 1 \in Int
  OBVIOUS
<1>2. ASSUME NEW k \in 1 .. (m % 4) - 1
      PROVE  (((m \div 4) + k) % 4) - 1 \in Nat \cup {Unset}
  <2>1. (m \div 4) + k \in Nat
    OBVIOUS
  <2>2. ((m \div 4) + k) % 4 \in 0 .. 3
    BY <2>1
  <2> QED BY <2>2 DEF Unset
<1>3. [k \in 1 .. (m % 4) - 1 |-> (((m \div 4) + k) % 4) - 1] \in Seq(Nat \cup {Unset})
  <2>1. PICK len \in Nat : 1 .. (m % 4) - 1 = 1 .. len
    <3>1. m % 4 \in 0 .. 3
      OBVIOUS
    <3>2. m % 4 = 0 => 1 .. (m % 4) - 1 = 1 .. 0
      OBVIOUS
    <3> QED BY <3>1, <3>2
  <2> QED BY <1>2, <2>1
<1>4. (CASE m % 3 = 0 -> {} [] m % 3 = 1 -> BinaryMeta [] m % 3 = 2 -> Meta)
        \in {{}, BinaryMeta, Meta}
  BY <1>1
<1>5. (CASE m % 7 = 0 -> {"seed", "hash20", "t", "s", "h"}
         [] m % 7 = 1 -> {"seed", "hash20", "t", "s", "h", "r"}
         [] m % 7 = 2 -> {"seed"}
         [] m % 7 = 3 -> {"seed", "mult"}
         [] m % 7 = 4 -> {"seed", "z"}
         [] OTHER -> {}) \in {{}} \cup SeedParts
  BY <1>1 DEF SeedParts
<1>6. (IF m % 5 = 0 THEN {"field", "a", "b", "curve"} ELSE Fields) \in SUBSET Fields
  BY DEF Fields
<1> QED BY <1>3, <1>4, <1>5, <1>6, Zenon DEF Shape, Shapes

------------------------------------------------------------------------------
(* What is written of a tree.                                                *)

LEMMA Path23 == \A a, b, c, d, e : <<a, b>> \o <<c, d, e>> = <<a, b, c, d, e>>
<1> SUFFICES ASSUME NEW a, NEW b, NEW c, NEW d, NEW e
             PROVE  <<a, b>> \o <<c, d, e>> = <<a, b, c, d, e>>
  OBVIOUS
<1> DEFINE S == {a, b, c, d, e}
           u == <<a, b>>
           v == <<c, d, e>>
           w == <<a, b, c, d, e>>
<1>1. u \in Seq(S) /\ v \in Seq(S) /\ w \in Seq(S) /\ Len(u) = 2 /\ Len(v) = 3 /\ Len(w) = 5
  OBVIOUS
<1>2. \A k \in 1 .. 5 : w[k] = IF k <= 2 THEN u[k] ELSE v[k - 2]
  OBVIOUS
<1> HIDE DEF S, u, v, w
<1>3. /\ u \o v \in Seq(S) /\ Len(u \o v) = Len(u) + Len(v)
      /\ \A k \in 1 .. Len(u) + Len(v) :
           (u \o v)[k] = IF k <= Len(u) THEN u[k] ELSE v[k - Len(u)]
  BY <1>1, ConcatProperties
<1>5. \A k \in 1 .. 5 : (u \o v)[k] = w[k]
  BY <1>1, <1>2, <1>3
<1>6. Len(u \o v) = 5 /\ u \o v \in Seq(S)
  BY <1>1, <1>3
<1>4. u \o v = w
  <2> DEFINE z == u \o v
  <2>1. z \in Seq(S) /\ Len(z) = Len(w) /\ \A k \in 1 .. Len(z) : z[k] = w[k]
    BY <1>1, <1>5, <1>6
  <2> HIDE DEF z
  <2>2. z = w
    BY <1>1, <2>1, SeqEqual
  <2> QED BY <2>2 DEF z
<1> QED BY <1>4 DEF u, v, w

FieldNames(field) == IF field = "prime" THEN {"p"} ELSE {"m", "e1", "e2", "e3"}
Coordinates == {"x", "y", "order"}

\* A key under the k-th subgroup.
GroupKey(key, k, T) ==
  \/ \E y \in Coordinates \cup {"cofactor"} : key = <<y>>
  \/ \E l \in 1 .. T[k] : \E y \in Coordinates : key = <<"points", l, y>>

\* One under any of them.
GroupsKey(q, T) ==
  \/ \E k \in DOMAIN T : \E y \in Coordinates \cup {"cofactor"} : q = <<"subgroups", k, y>>
  \/ \E k \in DOMAIN T : \E l \in 1 .. T[k] : \E y \in Coordinates :
       q = <<"subgroups", k, "points", l, y>>

FieldKey(q, field) == \E x \in FieldNames(field) : q = <<"field", x>>
OwnKey(q) == q = <<"a">> \/ q = <<"b">> \/ q = <<"order">>
MetadataKey(q, M) == \E x \in M \cap Meta : q = <<"meta", MetaKey[x]>>

Key(q, M, seeded, T, field, metadata) ==
  \/ FieldKey(q, field)
  \/ seeded /\ q = <<"seed">>
  \/ OwnKey(q)
  \/ GroupsKey(q, T)
  \/ metadata /\ MetadataKey(q, M)

LEMMA GroupWritten ==
  ASSUME NEW M, NEW seeded, NEW Q, NEW T, Fit(M, seeded, T), NEW k \in DOMAIN T, NEW key
  PROVE  key \in SubgroupKeys(Tree(M, seeded, Q, T), group(k)) <=> GroupKey(key, k, T)
<1> DEFINE o == Tree(M, seeded, Q, T)
<1>4. /\ \A q : q \in Has(o, group(k), {"generator"}) <=> q = generator(k)
      /\ \A q : q \in Has(o, group(k), {"points"}) <=> T[k] # Unset /\ q = points(k)
      /\ \A q : q \in Has(o, generator(k), PointNumbers)
                  <=> \E x \in PointNumbers : q = <<"generators", k, "generator", x>>
      /\ \A q : q \in Entries(o, points(k)) <=> \E l \in 1 .. T[k] : q = point(k, l)
  BY GroupHas, SMTT(60)
<1> USE DEF Fit
<1>1. group(k) \o <<"generator">> = generator(k) /\ group(k) \o <<"points">> = points(k)
  BY Path3
<1>2. Has(o, generator(k), {"cofactor"}) = {<<"generators", k, "generator", "cofactor">>}
  <2>1. <<"generators", k, "generator", "cofactor">> \in o
    BY TreeParts, Parts4 DEF PointNumbers
  <2>2. generator(k) \o <<"cofactor">> = <<"generators", k, "generator", "cofactor">>
    BY Path4
  <2> HIDE DEF o
  <2> QED BY <2>1, <2>2, Zenon DEF Has
<1>3. ASSUME NEW l \in 1 .. T[k] PROVE Has(o, point(k, l), {"cofactor"}) = {}
  <2>1. <<"generators", k, "points", l, "cofactor">> \notin o
    BY TreeParts, Parts5
  <2>2. point(k, l) \o <<"cofactor">> = <<"generators", k, "points", l, "cofactor">>
    BY Path5
  <2> HIDE DEF o
  <2> QED BY <2>1, <2>2, Zenon DEF Has
<1> HIDE DEF o
<1>5. key \in output_json_point(o, generator(k))
        <=> \E y \in Coordinates \cup {"cofactor"} : key = <<y>>
  BY <1>2 DEF output_json_point, Coordinates
<1>6. ASSUME NEW l \in 1 .. T[k]
      PROVE  key \in Under(<<"points", l>>, output_json_point(o, point(k, l)))
               <=> \E y \in Coordinates : key = <<"points", l, y>>
  <2>1. output_json_point(o, point(k, l)) = {<<y>> : y \in Coordinates}
    BY <1>3 DEF output_json_point, Coordinates
  <2>2. \A y : <<"points", l>> \o <<y>> = <<"points", l, y>>
    BY Path3
  <2> QED BY <2>1, <2>2, Zenon DEF Under
<1>7. \A l : Len(point(k, l)) = 4 /\ point(k, l)[4] = l
  OBVIOUS
<1>8. key \in (UNION {Under(<<"points", p[Len(p)]>>, output_json_point(o, p)) :
                        p \in Entries(o, points(k))})
        <=> \E p \in Entries(o, points(k)) :
              key \in Under(<<"points", p[Len(p)]>>, output_json_point(o, p))
  OBVIOUS
<1>9. (\E p \in Entries(o, points(k)) :
         key \in Under(<<"points", p[Len(p)]>>, output_json_point(o, p)))
        <=> \E l \in 1 .. T[k] : key \in Under(<<"points", l>>, output_json_point(o, point(k, l)))
  <2> HIDE DEF point, points
  <2>1. \A l \in 1 .. T[k] : point(k, l) \in Entries(o, points(k))
    BY <1>4, Zenon
  <2>2. \A p \in Entries(o, points(k)) : \E l \in 1 .. T[k] : p = point(k, l)
    BY <1>4, Zenon
  <2>3. \A l : point(k, l)[Len(point(k, l))] = l
    BY <1>7
  <2> QED BY <2>1, <2>2, <2>3, Zenon
<1>10. key \in SubgroupKeys(o, group(k))
         <=> \/ key \in output_json_point(o, generator(k))
             \/ key \in (UNION {Under(<<"points", p[Len(p)]>>, output_json_point(o, p)) :
                                  p \in Entries(o, points(k))})
  <2> HIDE DEF group, generator, points
  <2> QED BY <1>1 DEF SubgroupKeys
<1>11. (\E l \in 1 .. T[k] : key \in Under(<<"points", l>>, output_json_point(o, point(k, l))))
         <=> \E l \in 1 .. T[k] : \E y \in Coordinates : key = <<"points", l, y>>
  <2> HIDE DEF point
  <2> QED BY <1>6
<1> HIDE DEF group, generator, points, point
<1>12. key \in SubgroupKeys(o, group(k)) <=> GroupKey(key, k, T)
  BY <1>5, <1>8, <1>9, <1>10, <1>11, Zenon DEF GroupKey
<1> QED BY <1>12 DEF o

\* A seed has its bits.
HasBits(seeded, Q) == seeded => "seed" \in Q

LEMMA TreeWritten ==
  ASSUME NEW M, NEW seeded, NEW Q, HasBits(seeded, Q), NEW T, Fit(M, seeded, T), NEW field,
         NEW metadata \in BOOLEAN, NEW q
  PROVE  q \in output_jjson(Tree(M, seeded, Q, T), field, metadata)
           <=> Key(q, M, seeded, T, field, metadata)
<1> DEFINE o == Tree(M, seeded, Q, T)
           keys == IF field = "prime" THEN {<<"p">>} ELSE {<<"m">>, <<"e1">>, <<"e2">>, <<"e3">>}
           seed == {<<"seed">> : p \in Has(o, <<"seed">>, {"seed"})}
           groups == UNION {Under(<<"subgroups", p[Len(p)]>>, SubgroupKeys(o, p)) :
                              p \in Entries(o, array)}
           meta == {<<"meta", MetaKey[p[1]]>> : p \in Has(o, <<>>, Meta)}
<1>1. q \in Under(<<"field">>, keys) <=> FieldKey(q, field)
  <2>1. keys = {<<x>> : x \in FieldNames(field)}
    BY DEF FieldNames
  <2>2. \A x : <<"field">> \o <<x>> = <<"field", x>>
    BY Path2
  <2> HIDE DEF keys
  <2> QED BY <2>1, <2>2, Zenon DEF Under, FieldKey
<1>2. q \in seed <=> seeded /\ q = <<"seed">>
  <2>1. \A p : p \in Has(o, <<"seed">>, {"seed"})
                 <=> seeded /\ \E x \in Q \cap {"seed"} : p = <<"seed", x>>
    BY SeedHas
  <2>2. seeded => \A x : x \in Q \cap {"seed"} <=> x = "seed"
    BY DEF HasBits
  <2> HIDE DEF o
  <2> QED BY <2>1, <2>2
<1>3. ASSUME NEW k \in DOMAIN T
      PROVE  q \in Under(<<"subgroups", k>>, SubgroupKeys(o, group(k)))
               <=> \/ \E y \in Coordinates \cup {"cofactor"} : q = <<"subgroups", k, y>>
                   \/ \E l \in 1 .. T[k] : \E y \in Coordinates :
                        q = <<"subgroups", k, "points", l, y>>
  <2>1. \A key : key \in SubgroupKeys(o, group(k)) <=> GroupKey(key, k, T)
    BY GroupWritten
  <2>2. /\ \A y : <<"subgroups", k>> \o <<y>> = <<"subgroups", k, y>>
        /\ \A l, y : <<"subgroups", k>> \o <<"points", l, y>> = <<"subgroups", k, "points", l, y>>
    BY Path3, Path23
  <2> HIDE DEF o, group
  <2>3. q \in Under(<<"subgroups", k>>, SubgroupKeys(o, group(k)))
          <=> \E key \in SubgroupKeys(o, group(k)) : q = <<"subgroups", k>> \o key
    BY DEF Under
  <2>4. (\E key : GroupKey(key, k, T) /\ q = <<"subgroups", k>> \o key)
          <=> \/ \E y \in Coordinates \cup {"cofactor"} : q = <<"subgroups", k, y>>
              \/ \E l \in 1 .. T[k] : \E y \in Coordinates :
                   q = <<"subgroups", k, "points", l, y>>
    BY <2>2, Zenon DEF GroupKey
  <2> QED BY <2>1, <2>3, <2>4
<1>4. q \in groups
        <=> \E k \in DOMAIN T : q \in Under(<<"subgroups", k>>, SubgroupKeys(o, group(k)))
  <2>1. \A p : p \in Entries(o, array) <=> \E k \in DOMAIN T : p = group(k)
    BY ArrayHas
  <2>2. \A k : Len(group(k)) = 2 /\ group(k)[2] = k
    OBVIOUS
  <2> HIDE DEF o, group, array
  <2>3. q \in groups
          <=> \E p \in Entries(o, array) : q \in Under(<<"subgroups", p[Len(p)]>>, SubgroupKeys(o, p))
    OBVIOUS
  <2> HIDE DEF groups
  <2> QED BY <2>1, <2>2, <2>3
<1>5. q \in meta <=> MetadataKey(q, M)
  <2>1. \A q1 : q1 \in Has(o, <<>>, Meta) <=> \E x \in M \cap Meta : q1 = <<x>>
    <3>1. "seed" \notin Meta
      BY DEF Meta
    <3> QED BY <3>1, TopHas
  <2> HIDE DEF o
  <2>4. Has(o, <<>>, Meta) = {<<x>> : x \in M \cap Meta}
    BY <2>1
  <2>5. \A x : <<x>>[1] = x
    OBVIOUS
  <2> QED BY <2>4, <2>5 DEF MetadataKey
<1>6. q \in output_jjson(o, field, metadata)
        <=> \/ q \in Under(<<"field">>, keys) \/ q \in seed
            \/ OwnKey(q) \/ q \in groups \/ (metadata /\ q \in meta)
  <2> DEFINE f == Under(<<"field">>, keys)
             m == IF metadata THEN meta ELSE {}
             own == {<<"a">>, <<"b">>, <<"order">>}
  <2>1. output_jjson(o, field, metadata)
          = f \cup seed \cup own \cup groups \cup m
    <3> HIDE DEF o
    <3> QED BY Zenon DEF output_jjson
  <2> HIDE DEF o, keys, seed, groups, meta, f, m
  <2>2. q \in m <=> metadata /\ q \in meta
    BY DEF m
  <2>3. q \in own <=> OwnKey(q)
    BY DEF OwnKey
  <2> HIDE DEF own
  <2>4. q \in output_jjson(o, field, metadata)
          <=> \/ q \in f \/ q \in seed \/ q \in own \/ q \in groups \/ q \in m
    BY <2>1
  <2> QED BY <2>2, <2>3, <2>4 DEF f
<1> HIDE DEF o, keys, seed, groups, meta
<1>7. q \in groups <=> GroupsKey(q, T)
  BY <1>3, <1>4, Zenon DEF GroupsKey
<1>8. q \in output_jjson(o, field, metadata) <=> Key(q, M, seeded, T, field, metadata)
  BY <1>1, <1>2, <1>5, <1>6, <1>7 DEF Key
<1> QED BY <1>8 DEF o

------------------------------------------------------------------------------
(* Curves that are written.                                                  *)

\* Whatever the shape of a whole curve object, a copy of it is written as the original
\* when the metadata is not, as invalid_thread.c and invalid.c write their curves.
THEOREM EveryCopyWritten ==
  ASSUME NEW shape \in Shapes, Whole(shape)
  PROVE  CopyWritten(Object(shape))
<1> DEFINE M == Own(shape)
           s == Seeded(shape)
           Q == shape.seed
           T == Counts(shape)
           o == Object(shape)
           N == Copied(shape)
           P == CopiedSeed(shape)
<1>1. Fit(M, s, T) /\ Fit(N, s, T) /\ HasBits(s, Q) /\ HasBits(s, P)
  BY ShapeFits DEF CopiedSeed, HasBits
<1>2. o = Tree(M, s, Q, T) /\ curve_copy(o) = Tree(N, s, P, T)
  BY ObjectTrees
<1> HIDE DEF M, s, Q, T, o, N, P
<1>3. ASSUME NEW field, NEW metadata \in BOOLEAN, ~metadata, NEW q
      PROVE  q \in output_jjson(curve_copy(o), field, metadata)
               <=> q \in output_jjson(o, field, metadata)
  <2>1. q \in output_jjson(curve_copy(o), field, metadata)
            <=> Key(q, N, s, T, field, metadata)
    <3>1. q \in output_jjson(Tree(N, s, P, T), field, metadata)
              <=> Key(q, N, s, T, field, metadata)
      BY <1>1, TreeWritten
    <3> QED BY <1>2, <3>1
  <2>2. q \in output_jjson(o, field, metadata) <=> Key(q, M, s, T, field, metadata)
    <3>1. q \in output_jjson(Tree(M, s, Q, T), field, metadata)
              <=> Key(q, M, s, T, field, metadata)
      BY <1>1, TreeWritten
    <3> QED BY <1>2, <3>1
  <2> QED BY <1>3, <2>1, <2>2 DEF Key
<1>4. ASSUME NEW field PROVE output_jjson(curve_copy(o), field, FALSE) = output_jjson(o, field, FALSE)
  <2>1. \A q : q \in output_jjson(curve_copy(o), field, FALSE)
            <=> q \in output_jjson(o, field, FALSE)
    BY <1>3
  <2> QED BY <2>1
<1> QED BY <1>4, Zenon DEF CopyWritten, o

\* The same points on each of the same generators, if by an array or by none.
Alike(T, U) ==
  /\ \A k : k \in DOMAIN T <=> k \in DOMAIN U
  /\ \A k, l : k \in DOMAIN T /\ l \in 1 .. T[k] <=> k \in DOMAIN U /\ l \in 1 .. U[k]

\* The same metadata.
AsMuch(M, N) == \A x \in Meta : x \in M <=> x \in N

\* Some of the keys, by what they tell of the curve.
Tells(M, seeded, T, field, metadata) ==
  /\ Key(<<"seed">>, M, seeded, T, field, metadata) <=> seeded
  /\ \A x \in Meta : Key(<<"meta", MetaKey[x]>>, M, seeded, T, field, metadata) <=> x \in M
  /\ \A k : Key(<<"subgroups", k, "x">>, M, seeded, T, field, metadata) <=> k \in DOMAIN T
  /\ \A k, l : Key(<<"subgroups", k, "points", l, "x">>, M, seeded, T, field, metadata)
                 <=> k \in DOMAIN T /\ l \in 1 .. T[k]

LEMMA Telling ==
  ASSUME NEW M, NEW seeded \in BOOLEAN, NEW T, NEW field, NEW metadata \in BOOLEAN, metadata
  PROVE  Tells(M, seeded, T, field, metadata)
<1>1. Key(<<"seed">>, M, seeded, T, field, metadata) <=> seeded
  BY DEF Key, FieldKey, OwnKey, GroupsKey, MetadataKey
<1>2. ASSUME NEW x \in Meta
      PROVE  Key(<<"meta", MetaKey[x]>>, M, seeded, T, field, metadata) <=> x \in M
  <2>1. \A y \in Meta : MetaKey[y] = MetaKey[x] => y = x
    BY DEF MetaKey, Meta
  <2>2. \A u, v : <<"meta", u>> = <<"meta", v>> <=> u = v
    OBVIOUS
  <2>3. MetadataKey(<<"meta", MetaKey[x]>>, M) <=> \E y \in M \cap Meta : MetaKey[x] = MetaKey[y]
    BY <2>2, Zenon DEF MetadataKey
  <2>4. MetadataKey(<<"meta", MetaKey[x]>>, M) <=> x \in M
    BY <2>1, <2>3
  <2>5. \A u : /\ ~FieldKey(<<"meta", u>>, field) /\ ~OwnKey(<<"meta", u>>)
               /\ ~GroupsKey(<<"meta", u>>, T) /\ <<"meta", u>> # <<"seed">>
    BY DEF FieldKey, OwnKey, GroupsKey
  <2> QED BY <2>4, <2>5, Zenon DEF Key
<1>3. ASSUME NEW k
      PROVE  Key(<<"subgroups", k, "x">>, M, seeded, T, field, metadata) <=> k \in DOMAIN T
  <2>1. "x" \in Coordinates
    BY DEF Coordinates
  <2> QED BY <2>1 DEF Key, FieldKey, OwnKey, GroupsKey, MetadataKey
<1>4. ASSUME NEW k, NEW l
      PROVE  Key(<<"subgroups", k, "points", l, "x">>, M, seeded, T, field, metadata)
               <=> k \in DOMAIN T /\ l \in 1 .. T[k]
  <2>1. "x" \in Coordinates
    BY DEF Coordinates
  <2> QED BY <2>1 DEF Key, FieldKey, OwnKey, GroupsKey, MetadataKey
<1> QED BY <1>1, <1>2, <1>3, <1>4 DEF Tells

\* They tell all that the keys depend on.
LEMMA SameKeys ==
  ASSUME NEW M, NEW N, NEW seeded, NEW T, NEW U, NEW field, NEW metadata, NEW q,
         AsMuch(M, N), Alike(T, U)
  PROVE  Key(q, M, seeded, T, field, metadata) <=> Key(q, N, seeded, U, field, metadata)
<1>1. GroupsKey(q, T) <=> GroupsKey(q, U)
  BY Zenon DEF GroupsKey, Alike
<1>2. MetadataKey(q, M) <=> MetadataKey(q, N)
  BY DEF MetadataKey, AsMuch
<1> QED BY <1>1, <1>2, Zenon DEF Key

\* The parts of an object, but those that are not written.
Seen(p, M, seeded, T) ==
  \/ p = <<>>
  \/ \E x \in M : p = <<x>> /\ ~Kept(<<x>>)
  \/ seeded /\ (p = <<"seed">> \/ p = <<"seed", "seed">>)
  \/ \E k \in DOMAIN T : p = group(k)
  \/ \E k \in DOMAIN T : p = generator(k)
  \/ \E k \in DOMAIN T, x \in PointNumbers : p = <<"generators", k, "generator", x>>
  \/ \E k \in DOMAIN T : \E l \in 1 .. T[k] : p = point(k, l)
  \/ \E k \in DOMAIN T : \E l \in 1 .. T[k] : \E x \in {"point", "order"} :
       p = <<"generators", k, "points", l, x>>

LEMMA KeptIs ==
  /\ ~Kept(<<>>)
  /\ \A x : Kept(<<x>>) <=> x \in {"curve", "cache", "generators"}
  /\ \A x, y : Kept(<<x, y>>) <=> x = "seed" /\ y # "seed"
  /\ \A x, y, z : Kept(<<x, y, z>>) <=> z = "points"
  /\ \A x, y, z, w : ~Kept(<<x, y, z, w>>)
  /\ \A x, y, z, w, v : ~Kept(<<x, y, z, w, v>>)
BY DEF Kept

LEMMA ObjectSeen ==
  ASSUME NEW M, NEW seeded, NEW Q, HasBits(seeded, Q), NEW T, Fit(M, seeded, T), NEW p
  PROVE  p \in Shown(Tree(M, seeded, Q, T)) <=> Seen(p, M, seeded, T)
<1>1. seeded \in BOOLEAN
  BY DEF Fit
<1>2. p \in Shown(Tree(M, seeded, Q, T)) <=> Part(p, M, seeded, Q, T) /\ ~Kept(p)
  BY <1>1, TreeParts DEF Shown
<1>3. /\ ~Kept(<<>>) /\ ~Kept(<<"seed">>) /\ ~Kept(<<"seed", "seed">>)
      /\ \A x : x # "seed" => Kept(<<"seed", x>>)
      /\ \A k : ~Kept(group(k)) /\ ~Kept(generator(k)) /\ Kept(points(k))
      /\ \A x, y, z, w : ~Kept(<<x, y, z, w>>)
      /\ \A x, y, z, w, v : ~Kept(<<x, y, z, w, v>>)
  BY KeptIs
<1>4. ASSUME Part(p, M, seeded, Q, T), ~Kept(p) PROVE Seen(p, M, seeded, T)
  BY <1>3, <1>4, Zenon DEF Part, Seen
<1>5. ASSUME Seen(p, M, seeded, T) PROVE Part(p, M, seeded, Q, T) /\ ~Kept(p)
  BY <1>3, <1>5, Zenon DEF Part, Seen, HasBits
<1> QED BY <1>2, <1>4, <1>5

\* The same parts, by what they tell of the curve.
TellsParts(M, seeded, T) ==
  /\ Seen(<<"seed">>, M, seeded, T) <=> seeded
  /\ \A x \in Meta : Seen(<<x>>, M, seeded, T) <=> x \in M
  /\ \A k : Seen(<<"generators", k>>, M, seeded, T) <=> k \in DOMAIN T
  /\ \A k, l : Seen(<<"generators", k, "points", l>>, M, seeded, T)
                 <=> k \in DOMAIN T /\ l \in 1 .. T[k]

LEMMA TellingParts ==
  ASSUME NEW M, NEW seeded, NEW T, Fit(M, seeded, T)
  PROVE  TellsParts(M, seeded, T)
<1>1. Seen(<<"seed">>, M, seeded, T) <=> seeded
  <2>1. "seed" \notin M
    BY DEF Fit, Tops, Fields, Meta
  <2> QED BY <2>1 DEF Seen
<1>2. ASSUME NEW x \in Meta PROVE Seen(<<x>>, M, seeded, T) <=> x \in M
  <2>1. ~Kept(<<x>>) /\ x # "seed"
    BY KeptIs DEF Meta
  <2> QED BY <2>1 DEF Seen
<1>3. ASSUME NEW k PROVE Seen(<<"generators", k>>, M, seeded, T) <=> k \in DOMAIN T
  BY DEF Seen
<1>4. ASSUME NEW k, NEW l
      PROVE  Seen(<<"generators", k, "points", l>>, M, seeded, T) <=> k \in DOMAIN T /\ l \in 1 .. T[k]
  <2>1. \A x : <<"generators", k, "points", l>> # <<"generators", k, "generator", x>>
    OBVIOUS
  <2> QED BY <2>1 DEF Seen
<1> QED BY <1>1, <1>2, <1>3, <1>4 DEF TellsParts

LEMMA SameParts ==
  ASSUME NEW M, NEW N, NEW seeded, NEW T, NEW U, NEW p,
         Fit(M, seeded, T), Fit(N, seeded, U), Fields \subseteq M, Fields \subseteq N,
         AsMuch(M, N), Alike(T, U)
  PROVE  Seen(p, M, seeded, T) <=> Seen(p, N, seeded, U)
<1>1. \A x : ~Kept(<<x>>) => (x \in M <=> x \in N)
  <2>1. \A x : ~Kept(<<x>>) => x # "cache" /\ x # "generators"
    BY KeptIs
  <2>2. \A x : x \in M \/ x \in N => x \in Fields \/ x \in Meta \/ x = "cache" \/ x = "generators"
    BY DEF Fit, Tops
  <2> QED BY <2>1, <2>2 DEF AsMuch
<1>2. /\ \A k : k \in DOMAIN T <=> k \in DOMAIN U
      /\ \A k, l : k \in DOMAIN T /\ l \in 1 .. T[k] <=> k \in DOMAIN U /\ l \in 1 .. U[k]
  BY DEF Alike
<1> QED BY <1>1, <1>2, Zenon DEF Seen

\* Two whole curve objects are written alike if and only if they differ in nothing but
\* what is not written of either, whatever the two shapes.
THEOREM EveryWrittenApart ==
  ASSUME NEW shape \in Shapes, NEW other \in Shapes, Whole(shape), Whole(other)
  PROVE  WrittenApart(Object(shape), Object(other))
<1> DEFINE M == Own(shape)
           s == Seeded(shape)
           Q == shape.seed
           T == Counts(shape)
           N == Own(other)
           r == Seeded(other)
           P == other.seed
           U == Counts(other)
           o == Object(shape)
           c == Object(other)
           Same == AsMuch(M, N) /\ s = r /\ Alike(T, U)
<1>1. Fit(M, s, T) /\ HasBits(s, Q) /\ Fields \subseteq M
  BY ShapeFits DEF HasBits, Own, Whole
<1>2. Fit(N, r, U) /\ HasBits(r, P) /\ Fields \subseteq N
  BY ShapeFits DEF HasBits, Own, Whole
<1>3. o = Tree(M, s, Q, T)
  BY ObjectTrees
<1>4. c = Tree(N, r, P, U)
  BY ObjectTrees
<1>5. s \in BOOLEAN /\ r \in BOOLEAN
  BY DEF Seeded
<1> HIDE DEF M, s, Q, T, N, r, P, U, o, c
<1>6. ASSUME NEW field, NEW metadata \in BOOLEAN, metadata
      PROVE  output_jjson(o, field, metadata) = output_jjson(c, field, metadata) <=> Same
  <2>1. \A q : q \in output_jjson(o, field, metadata) <=> Key(q, M, s, T, field, metadata)
    <3>1. \A q : q \in output_jjson(Tree(M, s, Q, T), field, metadata)
              <=> Key(q, M, s, T, field, metadata)
      BY <1>1, TreeWritten
    <3> QED BY <1>3, <3>1
  <2>2. \A q : q \in output_jjson(c, field, metadata) <=> Key(q, N, r, U, field, metadata)
    <3>1. \A q : q \in output_jjson(Tree(N, r, P, U), field, metadata)
              <=> Key(q, N, r, U, field, metadata)
      BY <1>2, TreeWritten
    <3> QED BY <1>4, <3>1
  <2>3. ASSUME Same PROVE output_jjson(o, field, metadata) = output_jjson(c, field, metadata)
    <3>1. \A q : Key(q, M, s, T, field, metadata) <=> Key(q, N, s, U, field, metadata)
      BY <2>3, SameKeys
    <3>2. \A q : q \in output_jjson(o, field, metadata)
              <=> q \in output_jjson(c, field, metadata)
      BY <2>1, <2>2, <2>3, <3>1
    <3> QED BY <3>2
  <2>4. ASSUME output_jjson(o, field, metadata) = output_jjson(c, field, metadata) PROVE Same
    <3>1. \A q : Key(q, M, s, T, field, metadata) <=> Key(q, N, r, U, field, metadata)
      BY <2>1, <2>2, <2>4
    <3>2. Tells(M, s, T, field, metadata) /\ Tells(N, r, U, field, metadata)
      BY <1>5, <1>6, Telling
    <3>3. s = r
      BY <1>5, <3>1, <3>2 DEF Tells
    <3>4. AsMuch(M, N)
      BY <3>1, <3>2 DEF AsMuch, Tells
    <3>5. Alike(T, U)
      BY <3>1, <3>2, Zenon DEF Alike, Tells
    <3> QED BY <3>3, <3>4, <3>5
  <2> QED BY <2>3, <2>4
<1>7. Shown(o) = Shown(c) <=> Same
  <2>1. \A p : p \in Shown(o) <=> Seen(p, M, s, T)
    BY <1>1, <1>3, ObjectSeen
  <2>2. \A p : p \in Shown(c) <=> Seen(p, N, r, U)
    BY <1>2, <1>4, ObjectSeen
  <2>3. ASSUME Same PROVE Shown(o) = Shown(c)
    <3>1. Fit(N, s, U)
      BY <1>2, <2>3
    <3>2. \A p : Seen(p, M, s, T) <=> Seen(p, N, s, U)
      BY <1>1, <1>2, <2>3, <3>1, SameParts
    <3>3. \A p : p \in Shown(o) <=> p \in Shown(c)
      BY <2>1, <2>2, <2>3, <3>2
    <3>4. Shown(o) \subseteq o /\ Shown(c) \subseteq c
      BY DEF Shown
    <3> QED BY <3>3, <3>4
  <2>4. ASSUME Shown(o) = Shown(c) PROVE Same
    <3>1. \A p : Seen(p, M, s, T) <=> Seen(p, N, r, U)
      BY <2>1, <2>2, <2>4
    <3>2. TellsParts(M, s, T) /\ TellsParts(N, r, U)
      BY <1>1, <1>2, TellingParts
    <3>3. s = r
      BY <1>5, <3>1, <3>2 DEF TellsParts
    <3>4. AsMuch(M, N)
      BY <3>1, <3>2 DEF AsMuch, TellsParts
    <3>5. Alike(T, U)
      BY <3>1, <3>2, Zenon DEF Alike, TellsParts
    <3> QED BY <3>3, <3>4, <3>5
  <2> QED BY <2>3, <2>4
<1> HIDE DEF Same
<1>8. \A field : output_jjson(o, field, TRUE) = output_jjson(c, field, TRUE)
                   <=> Shown(o) = Shown(c)
  <2>1. \A field : output_jjson(o, field, TRUE) = output_jjson(c, field, TRUE) <=> Same
    BY <1>6, Zenon
  <2> QED BY <1>7, <2>1
<1> QED BY <1>8, Zenon DEF WrittenApart, o, c

================================================================================
