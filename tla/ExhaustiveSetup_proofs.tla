------------------------- MODULE ExhaustiveSetup_proofs ------------------------
(***************************************************************************)
(* The tables are right for every command line that cli_end lets through:  *)
(* each generator in them finds what it reads and is handed its argument,  *)
(* what it puts on the heap is unrolled, the engine can go back wherever   *)
(* they send it, and the warnings are true.                                *)
(***************************************************************************)
EXTENDS ExhaustiveSetup, TLAPS

------------------------------------------------------------------------------
(* The generators.  Each is found in the one table that has its name.        *)

SkipNames == {"gen_skip"}
AnsiNames == {"ansi_gen_seed_random", "ansi_gen_seed_argument", "ansi_gen_seed_input",
   "ansi_gen_equation"}
BrainpoolNames == {"brainpool_gen_seed_random", "brainpool_gen_seed_argument",
   "brainpool_gen_seed_input", "brainpool_gen_field", "brainpool_gen_equation",
   "brainpool_gen_gens"}
BrainpoolRFCNames == {"brainpool_rfc_gen_seed_random", "brainpool_rfc_gen_seed_argument",
   "brainpool_rfc_gen_seed_input", "brainpool_rfc_gen_equation"}
NumsNames == {"nums_gen_field", "nums_gen_a", "nums_gen_b", "nums_gen_order",
   "nums_gen_gens"}
FamilyNames == {"family_gen_seed_random", "family_gen_seed_input", "family_gen_field",
   "family_gen_equation_iter", "family_gen_equation_cm", "family_gen_order"}
CmNames == {"cm_gen_curve_any", "cm_gen_curve_unique", "cm_gen_curve_prime", "cm_gen_order"}
AnomalousNames == {"anomalous_gen_field", "anomalous_gen_equation", "anomalous_gen_order"}
SupersingularNames == {"supersingular_gen_equation", "supersingular_gen_order"}
FieldNames == {"field_gen_random", "field_gen_input"}
EquationNames == {"a_gen_random", "a_gen_input", "a_gen_zero", "a_gen_one", "b_gen_random",
   "b_gen_input", "b_gen_one"}
CurveNames == {"curve_gen_any", "curve_gen_any_twist"}
OrderNames == {"order_gen_any", "order_gen_cofactor", "order_gen_smooth", "order_gen_prime",
   "order_gen_koblitz"}
GensNames == {"gens_gen_any", "gens_gen_one", "gens_gen_cofactor"}
PointNames == {"point_gen_random", "points_gen_random", "points_gen_trial",
   "points_gen_prime", "points_gen_allgroups", "points_gen_nonprime"}
MetadataNames == {"metadata_gen"}

LEMMA Names ==
  ASSUME NEW field
  PROVE  /\ DOMAIN gen_skip = SkipNames
         /\ DOMAIN AnsiGenerators(field) = AnsiNames
         /\ DOMAIN BrainpoolGenerators = BrainpoolNames
         /\ DOMAIN BrainpoolRFCGenerators = BrainpoolRFCNames
         /\ DOMAIN NumsGenerators = NumsNames
         /\ DOMAIN FamilyGenerators = FamilyNames
         /\ DOMAIN CmGenerators = CmNames
         /\ DOMAIN AnomalousGenerators = AnomalousNames
         /\ DOMAIN SupersingularGenerators = SupersingularNames
         /\ DOMAIN FieldGenerators(field) = FieldNames
         /\ DOMAIN EquationGenerators = EquationNames
         /\ DOMAIN CurveGenerators = CurveNames
         /\ DOMAIN OrderGenerators = OrderNames
         /\ DOMAIN GensGenerators = GensNames
         /\ DOMAIN PointGenerators = PointNames
         /\ DOMAIN MetadataGenerators = MetadataNames
<1>1. DOMAIN gen_skip = SkipNames
  BY DEF gen_skip, SkipNames
<1>2. DOMAIN AnsiGenerators(field) = AnsiNames
  BY DEF AnsiGenerators, AnsiNames
<1>3. DOMAIN BrainpoolGenerators = BrainpoolNames
  BY DEF BrainpoolGenerators, BrainpoolNames
<1>4. DOMAIN BrainpoolRFCGenerators = BrainpoolRFCNames
  BY DEF BrainpoolRFCGenerators, BrainpoolRFCNames
<1>5. DOMAIN NumsGenerators = NumsNames
  BY DEF NumsGenerators, NumsNames
<1>6. DOMAIN FamilyGenerators = FamilyNames
  BY DEF FamilyGenerators, FamilyNames
<1>7. DOMAIN CmGenerators = CmNames
  BY DEF CmGenerators, CmNames
<1>8. DOMAIN AnomalousGenerators = AnomalousNames
  BY DEF AnomalousGenerators, AnomalousNames
<1>9. DOMAIN SupersingularGenerators = SupersingularNames
  BY DEF SupersingularGenerators, SupersingularNames
<1>10. DOMAIN FieldGenerators(field) = FieldNames
  BY DEF FieldGenerators, FieldNames
<1>11. DOMAIN EquationGenerators = EquationNames
  BY DEF EquationGenerators, EquationNames
<1>12. DOMAIN CurveGenerators = CurveNames
  BY DEF CurveGenerators, CurveNames
<1>13. DOMAIN OrderGenerators = OrderNames
  BY DEF OrderGenerators, OrderNames
<1>14. DOMAIN GensGenerators = GensNames
  BY DEF GensGenerators, GensNames
<1>15. DOMAIN PointGenerators = PointNames
  BY DEF PointGenerators, PointNames
<1>16. DOMAIN MetadataGenerators = MetadataNames
  BY DEF MetadataGenerators, MetadataNames
<1> QED BY <1>1, <1>2, <1>3, <1>4, <1>5, <1>6, <1>7, <1>8, <1>9, <1>10, <1>11, <1>12, <1>13,
          <1>14, <1>15, <1>16

USE DEF SkipNames, AnsiNames, BrainpoolNames, BrainpoolRFCNames, NumsNames, FamilyNames,
        CmNames, AnomalousNames, SupersingularNames, FieldNames, EquationNames,
        CurveNames, OrderNames, GensNames, PointNames, MetadataNames

LEMMA Disjoint ==
  ASSUME NEW field, NEW t \in GeneratorTables(field), NEW u \in GeneratorTables(field),
         NEW g \in DOMAIN t, g \in DOMAIN u
  PROVE  u = t
<1>1. CASE t = gen_skip
  BY <1>1, Names DEF GeneratorTables
<1>2. CASE t = AnsiGenerators(field)
  BY <1>2, Names DEF GeneratorTables
<1>3. CASE t = BrainpoolGenerators
  BY <1>3, Names DEF GeneratorTables
<1>4. CASE t = BrainpoolRFCGenerators
  BY <1>4, Names DEF GeneratorTables
<1>5. CASE t = NumsGenerators
  BY <1>5, Names DEF GeneratorTables
<1>6. CASE t = FamilyGenerators
  BY <1>6, Names DEF GeneratorTables
<1>7. CASE t = CmGenerators
  BY <1>7, Names DEF GeneratorTables
<1>8. CASE t = AnomalousGenerators
  BY <1>8, Names DEF GeneratorTables
<1>9. CASE t = SupersingularGenerators
  BY <1>9, Names DEF GeneratorTables
<1>10. CASE t = FieldGenerators(field)
  BY <1>10, Names DEF GeneratorTables
<1>11. CASE t = EquationGenerators
  BY <1>11, Names DEF GeneratorTables
<1>12. CASE t = CurveGenerators
  BY <1>12, Names DEF GeneratorTables
<1>13. CASE t = OrderGenerators
  BY <1>13, Names DEF GeneratorTables
<1>14. CASE t = GensGenerators
  BY <1>14, Names DEF GeneratorTables
<1>15. CASE t = PointGenerators
  BY <1>15, Names DEF GeneratorTables
<1>16. CASE t = MetadataGenerators
  BY <1>16, Names DEF GeneratorTables
<1> QED BY <1>1, <1>2, <1>3, <1>4, <1>5, <1>6, <1>7, <1>8, <1>9, <1>10, <1>11, <1>12, <1>13,
          <1>14, <1>15, <1>16 DEF GeneratorTables

LEMMA Row ==
  ASSUME NEW field, NEW t \in GeneratorTables(field), NEW g \in DOMAIN t
  PROVE  Generators(field)[g] = t[g]
BY Disjoint DEF Generators

\* What is found in which table.
LEMMA Rows ==
  ASSUME NEW field
  PROVE  /\ \A g \in SkipNames : Generators(field)[g] = gen_skip[g]
         /\ \A g \in AnsiNames : Generators(field)[g] = AnsiGenerators(field)[g]
         /\ \A g \in BrainpoolNames : Generators(field)[g] = BrainpoolGenerators[g]
         /\ \A g \in BrainpoolRFCNames : Generators(field)[g] = BrainpoolRFCGenerators[g]
         /\ \A g \in NumsNames : Generators(field)[g] = NumsGenerators[g]
         /\ \A g \in FamilyNames : Generators(field)[g] = FamilyGenerators[g]
         /\ \A g \in CmNames : Generators(field)[g] = CmGenerators[g]
         /\ \A g \in AnomalousNames : Generators(field)[g] = AnomalousGenerators[g]
         /\ \A g \in SupersingularNames : Generators(field)[g] = SupersingularGenerators[g]
         /\ \A g \in FieldNames : Generators(field)[g] = FieldGenerators(field)[g]
         /\ \A g \in EquationNames : Generators(field)[g] = EquationGenerators[g]
         /\ \A g \in CurveNames : Generators(field)[g] = CurveGenerators[g]
         /\ \A g \in OrderNames : Generators(field)[g] = OrderGenerators[g]
         /\ \A g \in GensNames : Generators(field)[g] = GensGenerators[g]
         /\ \A g \in PointNames : Generators(field)[g] = PointGenerators[g]
         /\ \A g \in MetadataNames : Generators(field)[g] = MetadataGenerators[g]
BY Names, Row DEF GeneratorTables
HIDE DEF SkipNames, AnsiNames, BrainpoolNames, BrainpoolRFCNames, NumsNames, FamilyNames,
         CmNames, AnomalousNames, SupersingularNames, FieldNames, EquationNames,
         CurveNames, OrderNames, GensNames, PointNames, MetadataNames

\* What a generator is for: the products it assigns, and whether it needs a seed.
Seeds ==
  {"ansi_gen_seed_random", "ansi_gen_seed_argument", "ansi_gen_seed_input",
   "brainpool_gen_seed_random", "brainpool_gen_seed_argument", "brainpool_gen_seed_input",
   "brainpool_rfc_gen_seed_random", "brainpool_rfc_gen_seed_argument",
   "brainpool_rfc_gen_seed_input", "family_gen_seed_random", "family_gen_seed_input"}
Fields == {"field_gen_random", "field_gen_input", "nums_gen_field", "anomalous_gen_field"}
SeedFields == {"brainpool_gen_field", "family_gen_field"}
As == {"a_gen_random", "a_gen_input", "a_gen_zero", "a_gen_one", "nums_gen_a"}
Bs == {"b_gen_random", "b_gen_input", "b_gen_one", "nums_gen_b"}
Equations ==
  {"family_gen_equation_iter", "anomalous_gen_equation", "supersingular_gen_equation"}
SeedEquations ==
  {"ansi_gen_equation", "brainpool_gen_equation", "brainpool_rfc_gen_equation",
   "family_gen_equation_cm"}
Curves == {"curve_gen_any", "curve_gen_any_twist"}
CmCurves == {"cm_gen_curve_any", "cm_gen_curve_unique", "cm_gen_curve_prime"}
Orders ==
  {"order_gen_any", "order_gen_cofactor", "order_gen_smooth", "order_gen_prime",
   "order_gen_koblitz", "nums_gen_order", "cm_gen_order", "anomalous_gen_order",
   "supersingular_gen_order"}
SeedOrders == {"family_gen_order"}
Doubting == {"nums_gen_order", "family_gen_order"}   \* they go back to B
Bases == {"gens_gen_any", "gens_gen_one", "gens_gen_cofactor", "nums_gen_gens"}
SeedBases == {"brainpool_gen_gens"}
Points ==
  {"point_gen_random", "points_gen_random", "points_gen_prime", "points_gen_allgroups",
   "points_gen_nonprime"}

\* The generators of G assign W, and look at nothing but R.
Use(field, G, W, R) ==
  \A g \in G : Generators(field)[g].writes = W /\ Generators(field)[g].reads \subseteq R

LEMMA Facts ==
  ASSUME NEW field
  PROVE  /\ Use(field, {"gen_skip"}, {}, {})
         /\ Use(field, Seeds, {SEED}, {})
         /\ Use(field, Fields, {FIELD}, {})
         /\ Use(field, SeedFields, {FIELD}, {SEED})
         /\ Use(field, As, {A}, {FIELD})
         /\ Use(field, Bs, {B}, {FIELD})
         /\ Use(field, Equations, {A, B}, {FIELD})
         /\ Use(field, SeedEquations, {A, B}, {SEED, FIELD})
         /\ Use(field, {"curve_gen_any"}, {CURVE}, {FIELD, A, B})
         /\ Use(field, {"curve_gen_any_twist"}, {FIELD, A, B, CURVE}, {FIELD, A, B})
         /\ Use(field, CmCurves, {FIELD, A, B, CURVE}, {})
         /\ Use(field, Orders, {ORDER}, {FIELD, A, CURVE})
         /\ Use(field, SeedOrders, {ORDER}, {SEED, CURVE})
         /\ Use(field, Bases, {GENERATORS}, {FIELD, CURVE, ORDER})
         /\ Use(field, SeedBases, {GENERATORS}, {SEED, CURVE, ORDER})
         /\ Use(field, Points, {POINTS}, {CURVE, GENERATORS})
         /\ Use(field, {"metadata_gen"}, {METADATA}, {FIELD, CURVE, ORDER})
<1> USE Rows DEF Use, Generator
<1>1. Use(field, {"gen_skip"}, {}, {})
  BY DEF SkipNames, gen_skip
<1>2. Use(field, Seeds, {SEED}, {})
  <2>1. Use(field, Seeds \cap AnsiNames, {SEED}, {})
    <3>1. \A g \in Seeds \cap AnsiNames :
            /\ AnsiGenerators(field)[g].writes = {SEED}
            /\ AnsiGenerators(field)[g].reads \subseteq {}
      <4> HIDE Rows
      <4> QED BY DEF AnsiNames, AnsiGenerators, Seeds
    <3> QED BY <3>1
  <2>2. Use(field, Seeds \cap BrainpoolNames, {SEED}, {})
    BY DEF BrainpoolNames, BrainpoolGenerators, Seeds
  <2>3. Use(field, Seeds \cap BrainpoolRFCNames, {SEED}, {})
    BY DEF BrainpoolRFCNames, BrainpoolRFCGenerators, Seeds
  <2>4. Use(field, Seeds \cap FamilyNames, {SEED}, {})
    BY DEF FamilyNames, FamilyGenerators, Seeds
  <2>5. Seeds \subseteq AnsiNames \cup BrainpoolNames \cup BrainpoolRFCNames \cup FamilyNames
    BY DEF Seeds, AnsiNames, BrainpoolNames, BrainpoolRFCNames, FamilyNames
  <2> HIDE Rows
  <2> QED BY <2>1, <2>2, <2>3, <2>4, <2>5
<1>3. Use(field, Fields, {FIELD}, {})
  <2>1. Use(field, Fields \cap FieldNames, {FIELD}, {})
    <3>1. \A g \in Fields \cap FieldNames :
            /\ FieldGenerators(field)[g].writes = {FIELD}
            /\ FieldGenerators(field)[g].reads \subseteq {}
      <4> HIDE Rows
      <4> QED BY DEF FieldNames, FieldGenerators, Fields
    <3> QED BY <3>1
  <2>2. Use(field, Fields \cap NumsNames, {FIELD}, {})
    BY DEF NumsNames, NumsGenerators, Fields
  <2>3. Use(field, Fields \cap AnomalousNames, {FIELD}, {})
    BY DEF AnomalousNames, AnomalousGenerators, Fields
  <2>4. Fields \subseteq FieldNames \cup NumsNames \cup AnomalousNames
    BY DEF Fields, FieldNames, NumsNames, AnomalousNames
  <2> HIDE Rows
  <2> QED BY <2>1, <2>2, <2>3, <2>4
<1>4. Use(field, SeedFields, {FIELD}, {SEED})
  BY DEF BrainpoolNames, FamilyNames, BrainpoolGenerators, FamilyGenerators, SeedFields
<1>5. Use(field, As, {A}, {FIELD})
  BY DEF EquationNames, NumsNames, EquationGenerators, NumsGenerators, As
<1>6. Use(field, Bs, {B}, {FIELD})
  BY DEF EquationNames, NumsNames, EquationGenerators, NumsGenerators, Bs
<1>7. Use(field, Equations, {A, B}, {FIELD})
  BY DEF FamilyNames, AnomalousNames, SupersingularNames, FamilyGenerators,
         AnomalousGenerators, SupersingularGenerators, Equations
<1>8. Use(field, SeedEquations, {A, B}, {SEED, FIELD})
  <2> DEFINE E == SeedEquations
  <2>1. Use(field, E \cap AnsiNames, {A, B}, {SEED, FIELD})
    <3>1. \A g \in SeedEquations \cap AnsiNames :
            /\ AnsiGenerators(field)[g].writes = {A, B}
            /\ AnsiGenerators(field)[g].reads \subseteq {SEED, FIELD}
      <4> HIDE Rows
      <4> QED BY DEF AnsiNames, AnsiGenerators, SeedEquations
    <3> QED BY <3>1
  <2>2. Use(field, E \cap BrainpoolNames, {A, B}, {SEED, FIELD})
    BY DEF BrainpoolNames, BrainpoolGenerators, SeedEquations
  <2>3. Use(field, E \cap BrainpoolRFCNames, {A, B}, {SEED, FIELD})
    BY DEF BrainpoolRFCNames, BrainpoolRFCGenerators, SeedEquations
  <2>4. Use(field, E \cap FamilyNames, {A, B}, {SEED, FIELD})
    BY DEF FamilyNames, FamilyGenerators, SeedEquations
  <2>5. E \subseteq AnsiNames \cup BrainpoolNames \cup BrainpoolRFCNames \cup FamilyNames
    BY DEF SeedEquations, AnsiNames, BrainpoolNames, BrainpoolRFCNames, FamilyNames
  <2> HIDE Rows
  <2> QED BY <2>1, <2>2, <2>3, <2>4, <2>5
<1>9. Use(field, {"curve_gen_any"}, {CURVE}, {FIELD, A, B})
  BY DEF CurveNames, CurveGenerators
<1>10. Use(field, {"curve_gen_any_twist"}, {FIELD, A, B, CURVE}, {FIELD, A, B})
  BY DEF CurveNames, CurveGenerators
<1>11. Use(field, CmCurves, {FIELD, A, B, CURVE}, {})
  BY DEF CmNames, CmGenerators, CmCurves
<1>12. Use(field, Orders, {ORDER}, {FIELD, A, CURVE})
  BY DEF OrderNames, NumsNames, CmNames, AnomalousNames, SupersingularNames, OrderGenerators,
         NumsGenerators, CmGenerators, AnomalousGenerators, SupersingularGenerators, Orders
<1>13. Use(field, SeedOrders, {ORDER}, {SEED, CURVE})
  BY DEF FamilyNames, FamilyGenerators, SeedOrders
<1>14. Use(field, Bases, {GENERATORS}, {FIELD, CURVE, ORDER})
  BY DEF GensNames, NumsNames, GensGenerators, NumsGenerators, Bases
<1>15. Use(field, SeedBases, {GENERATORS}, {SEED, CURVE, ORDER})
  BY DEF BrainpoolNames, BrainpoolGenerators, SeedBases
<1>16. Use(field, Points, {POINTS}, {CURVE, GENERATORS})
  BY DEF PointNames, PointGenerators, Points
<1>17. Use(field, {"metadata_gen"}, {METADATA}, {FIELD, CURVE, ORDER})
  BY DEF MetadataNames, MetadataGenerators
<1> QED BY <1>1, <1>2, <1>3, <1>4, <1>5, <1>6, <1>7, <1>8, <1>9, <1>10, <1>11, <1>12, <1>13,
          <1>14, <1>15, <1>16, <1>17

------------------------------------------------------------------------------
(* The tables of generators.  Whatever the options, each stage gets one of   *)
(* the generators made for it, and one that looks at the seed only when      *)
(* there is a seed.                                                          *)

Seeded(c) == c.seed_algo \notin {"none", "nums"} \/ c.method = "family"

\* With a seed, the generators of H too.
Also(c, G, H) == IF Seeded(c) THEN G \cup H ELSE G

Fitting(c, G) ==
  /\ DOMAIN G = Stage
  /\ G[SEED] \in IF Seeded(c) THEN Seeds ELSE {"gen_skip"}
  /\ \/ /\ c.method # "cm"
        /\ G[FIELD] \in Also(c, Fields, SeedFields)
        /\ \/ G[A] \in As /\ G[B] \in Bs
           \/ G[A] = "gen_skip" /\ G[B] \in Also(c, Equations, SeedEquations)
        /\ G[CURVE] \in Curves
     \/ /\ c.method = "cm"
        /\ G[FIELD] = "gen_skip" /\ G[A] = "gen_skip" /\ G[B] = "gen_skip"
        /\ G[CURVE] \in CmCurves
  /\ G[ORDER] \in Also(c, Orders, SeedOrders)
  /\ G[GENERATORS] \in Also(c, Bases, SeedBases)
  /\ G[POINTS] \in Points \cup {"gen_skip"}
  /\ G[METADATA] \in {"metadata_gen", "gen_skip"}

\* A generator with an argument is there because of the option it is from.
Handed(c, G) ==
  /\ G[FIELD] = "anomalous_gen_field" => c.method = "anomalous"
  /\ G[B] = "anomalous_gen_equation" => c.method = "anomalous"
  /\ G[ORDER] = "cm_gen_order" => c.method = "cm"
  /\ G[ORDER] = "order_gen_cofactor" => c.order = "cofactor" /\ c.method \notin CmMethods
  /\ G[ORDER] = "order_gen_smooth" => c.order = "smooth" /\ c.method \notin CmMethods
  /\ G[GENERATORS] = "gens_gen_cofactor" => c.order = "cofactor" /\ c.method \notin CmMethods
  /\ G[POINTS] = "points_gen_random" => c.points = "n_random"
  /\ G[CURVE] = "curve_gen_any_twist" => c.method = "twist"
  /\ G[ORDER] \in Doubting => c.method \notin {"twist", "cm"}

\* What cli_end lets through, as far as the tables depend on it.
LEMMA Configured ==
  ASSUME NEW c \in AllConfigs
  PROVE  /\ c.seed_algo \in {"none", "ansi", "brainpool", "brainpool_rfc", "nums"}
         /\ c.method \in {"default", "twist", "seed", "family", "cm", "anomalous",
                          "supersingular"}
         /\ c.order \in {"none", "prime", "cofactor", "smooth"}
         /\ c.koblitz \in {"none", "default", "0", "1"}
         /\ c.points \in {"default", "prime", "nonprime", "random", "n_random", "all", "none"}
         /\ c.cm_order \in {"none", "prime", "composite", "unfit"}
         /\ c.unique \in BOOLEAN /\ c.seed \in BOOLEAN
         /\ c.hex_check \in BOOLEAN /\ c.metadata \in BOOLEAN
         /\ c.random \subseteq {"seed", "field", "a", "b"}
         /\ (c.method = "seed") = (c.seed_algo # "none")
         /\ (c.method = "cm") = (c.cm_order # "none")
BY DEF AllConfigs, CmMethods

LEMMA OfStages ==
  ASSUME NEW seed, NEW field, NEW a, NEW b, NEW order, NEW gens
  PROVE  LET S == Stages(seed, field, a, b, order, gens) IN
         /\ DOMAIN S = {SEED, FIELD, A, B, ORDER, GENERATORS}
         /\ S[SEED] = seed /\ S[FIELD] = field /\ S[A] = a /\ S[B] = b
         /\ S[ORDER] = order /\ S[GENERATORS] = gens
BY DEF Stages, SEED, FIELD, A, B, CURVE, ORDER, GENERATORS

LEMMA OfOver ==
  ASSUME NEW f, NEW g
  PROVE  /\ DOMAIN Over(f, g) = DOMAIN f \cup DOMAIN g
         /\ \A s \in DOMAIN f : Over(f, g)[s] = f[s]
         /\ \A s \in DOMAIN g \ DOMAIN f : Over(f, g)[s] = g[s]
BY DEF Over

LEMMA OfCommon ==
  ASSUME NEW c \in AllConfigs
  PROVE  LET S == CommonStages(c) IN
         /\ DOMAIN S = {CURVE, METADATA, POINTS}
         /\ S[CURVE] \in Curves
         /\ S[POINTS] \in Points \cup {"gen_skip"}
         /\ S[METADATA] \in {"metadata_gen", "gen_skip"}
         /\ S[POINTS] = "points_gen_random" => c.points = "n_random"
         /\ S[CURVE] = "curve_gen_any_twist" => c.method = "twist"
<1> DEFINE S == CommonStages(c)
<1>1. DOMAIN S = {CURVE, METADATA, POINTS}
  BY DEF CommonStages
<1>2. S[CURVE] \in Curves /\ (S[CURVE] = "curve_gen_any_twist" => c.method = "twist")
  BY DEF CommonStages, Curves, CURVE, METADATA, POINTS
<1>3. S[METADATA] \in {"metadata_gen", "gen_skip"}
  BY DEF CommonStages, CURVE, METADATA, POINTS
<1>4. /\ S[POINTS] \in Points \cup {"gen_skip"}
      /\ S[POINTS] = "points_gen_random" => c.points = "n_random"
  <2>1. S[POINTS] = [default  |-> "points_gen_prime",  prime  |-> "points_gen_prime",
                     nonprime |-> "points_gen_nonprime",
                     random   |-> "point_gen_random",
                     n_random |-> "points_gen_random",
                     all      |-> "points_gen_allgroups",
                     none     |-> "gen_skip"][c.points]
    BY DEF CommonStages, CURVE, METADATA, POINTS
  <2>2. c.points \in {"default", "prime", "nonprime", "random", "n_random", "all", "none"}
    BY Configured
  <2> QED BY <2>1, <2>2 DEF Points
<1> QED BY <1>1, <1>2, <1>3, <1>4

\* The choices several methods share.
LEMMA OfOrder ==
  ASSUME NEW c \in AllConfigs, NEW otherwise \in {"order_gen_any", "order_gen_koblitz"}
  PROVE  /\ Order(c, otherwise) \in Orders \ ({"cm_gen_order"} \cup Doubting)
         /\ Order(c, otherwise) = "order_gen_cofactor" => c.order = "cofactor"
         /\ Order(c, otherwise) = "order_gen_smooth" => c.order = "smooth"
BY Configured DEF Order, Orders, Doubting

LEMMA OfGens ==
  ASSUME NEW c \in AllConfigs
  PROVE  /\ Gens(c) \in Bases
         /\ Gens(c) = "gens_gen_cofactor" => c.order = "cofactor"
BY DEF Gens, Bases

LEMMA OfField ==
  ASSUME NEW c \in AllConfigs
  PROVE  FieldOf(c) \in Fields \ {"anomalous_gen_field"}
BY DEF FieldOf, Fields

\* What a method that fills everything but CURVE, POINTS and METADATA has to
\* choose.
Chooses(c, M) ==
  /\ c.method # "cm"
  /\ DOMAIN M = {SEED, FIELD, A, B, ORDER, GENERATORS}
  /\ M[SEED] \in IF Seeded(c) THEN Seeds ELSE {"gen_skip"}
  /\ M[FIELD] \in Also(c, Fields, SeedFields)
  /\ \/ M[A] \in As /\ M[B] \in Bs
     \/ M[A] = "gen_skip" /\ M[B] \in Also(c, Equations, SeedEquations)
  /\ M[ORDER] \in Also(c, Orders, SeedOrders) \ {"cm_gen_order"}
  /\ M[GENERATORS] \in Also(c, Bases, SeedBases)
  /\ M[FIELD] = "anomalous_gen_field" => c.method = "anomalous"
  /\ M[B] = "anomalous_gen_equation" => c.method = "anomalous"
  /\ M[ORDER] = "order_gen_cofactor" => c.order = "cofactor" /\ c.method \notin CmMethods
  /\ M[ORDER] = "order_gen_smooth" => c.order = "smooth" /\ c.method \notin CmMethods
  /\ M[GENERATORS] = "gens_gen_cofactor" => c.order = "cofactor" /\ c.method \notin CmMethods
  /\ M[ORDER] \in Doubting => c.method # "twist"

LEMMA Chosen ==
  ASSUME NEW c \in AllConfigs, Chooses(c, MethodStages(c))
  PROVE  Fitting(c, ginit(c)) /\ Handed(c, ginit(c))
<1> DEFINE G == ginit(c)
           M == MethodStages(c)
           T == CommonStages(c)
<1>1. G = Over(M, T)
  BY DEF ginit
<1>2. DOMAIN M = {SEED, FIELD, A, B, ORDER, GENERATORS}
  BY DEF Chooses
<1>3. /\ DOMAIN T = {CURVE, METADATA, POINTS}
      /\ T[CURVE] \in Curves /\ T[POINTS] \in Points \cup {"gen_skip"}
      /\ T[METADATA] \in {"metadata_gen", "gen_skip"}
      /\ T[POINTS] = "points_gen_random" => c.points = "n_random"
      /\ T[CURVE] = "curve_gen_any_twist" => c.method = "twist"
  BY OfCommon
<1>4. Chooses(c, M)
  OBVIOUS
<1> HIDE DEF G, M, T
<1>5. /\ DOMAIN G = DOMAIN M \cup DOMAIN T
      /\ \A s \in DOMAIN M : G[s] = M[s]
      /\ \A s \in DOMAIN T \ DOMAIN M : G[s] = T[s]
  <2>1. DOMAIN Over(M, T) = DOMAIN M \cup DOMAIN T
    BY OfOver
  <2>2. \A s \in DOMAIN M : Over(M, T)[s] = M[s]
    BY OfOver
  <2>3. \A s \in DOMAIN T \ DOMAIN M : Over(M, T)[s] = T[s]
    BY OfOver
  <2> QED BY <1>1, <2>1, <2>2, <2>3
<1>6. DOMAIN G = Stage
  BY <1>2, <1>3, <1>5
  DEF Stage, SEED, FIELD, A, B, CURVE, ORDER, GENERATORS, POINTS, METADATA
<1>7. /\ G[SEED] = M[SEED] /\ G[FIELD] = M[FIELD] /\ G[A] = M[A] /\ G[B] = M[B]
      /\ G[ORDER] = M[ORDER] /\ G[GENERATORS] = M[GENERATORS]
  BY <1>2, <1>5
<1>8. G[CURVE] = T[CURVE] /\ G[POINTS] = T[POINTS] /\ G[METADATA] = T[METADATA]
  BY <1>2, <1>3, <1>5 DEF SEED, FIELD, A, B, CURVE, ORDER, GENERATORS, POINTS, METADATA
<1>9. Fitting(c, G)
  BY <1>3, <1>4, <1>6, <1>7, <1>8 DEF Fitting, Chooses, Also
<1>10. Handed(c, G)
  BY <1>3, <1>4, <1>7, <1>8 DEF Handed, Chooses
<1> QED BY <1>9, <1>10 DEF G

\* Class by class.
LEMMA Ansi ==
  ASSUME NEW c \in AllConfigs, c.seed_algo = "ansi"
  PROVE  Chooses(c, MethodStages(c))
<1> DEFINE seed == Seed(c, "ansi_gen_seed_argument", "ansi_gen_seed_random",
                        "ansi_gen_seed_input")
           order == Order(c, "order_gen_any")
           M == Stages(seed, FieldOf(c), "gen_skip", "ansi_gen_equation", order, Gens(c))
<1>1. c.method = "seed" /\ Seeded(c)
  BY Configured DEF Seeded
<1>2. MethodStages(c) = M
  BY <1>1 DEF MethodStages, SeedStages, CmMethods
<1>3. seed \in Seeds
  BY DEF Seed, Seeds
<1>4. /\ DOMAIN M = {SEED, FIELD, A, B, ORDER, GENERATORS}
      /\ M[SEED] = seed /\ M[FIELD] = FieldOf(c)
      /\ M[A] = "gen_skip" /\ M[B] = "ansi_gen_equation"
      /\ M[ORDER] = order /\ M[GENERATORS] = Gens(c)
  BY OfStages
<1>5. /\ order \in Orders \ ({"cm_gen_order"} \cup Doubting)
      /\ order = "order_gen_cofactor" => c.order = "cofactor"
      /\ order = "order_gen_smooth" => c.order = "smooth"
  BY OfOrder
<1> HIDE DEF seed, order, M
<1>6. Chooses(c, M)
  BY <1>1, <1>3, <1>4, <1>5, OfGens, OfField DEF Chooses, Also, CmMethods, SeedEquations
<1> QED BY <1>2, <1>6

LEMMA Brainpool ==
  ASSUME NEW c \in AllConfigs, c.seed_algo = "brainpool"
  PROVE  Chooses(c, MethodStages(c))
<1> DEFINE seed == Seed(c, "brainpool_gen_seed_argument", "brainpool_gen_seed_random",
                        "brainpool_gen_seed_input")
           M == Stages(seed, "brainpool_gen_field", "gen_skip", "brainpool_gen_equation",
                       "order_gen_prime", "brainpool_gen_gens")
<1>1. c.method = "seed" /\ Seeded(c)
  BY Configured DEF Seeded
<1>2. MethodStages(c) = M
  BY <1>1 DEF MethodStages, SeedStages, CmMethods
<1>3. seed \in Seeds
  BY DEF Seed, Seeds
<1>4. /\ DOMAIN M = {SEED, FIELD, A, B, ORDER, GENERATORS}
      /\ M[SEED] = seed /\ M[FIELD] = "brainpool_gen_field"
      /\ M[A] = "gen_skip" /\ M[B] = "brainpool_gen_equation"
      /\ M[ORDER] = "order_gen_prime" /\ M[GENERATORS] = "brainpool_gen_gens"
  BY OfStages
<1> HIDE DEF seed, M
<1>5. Chooses(c, M)
  BY <1>1, <1>3, <1>4
  DEF Chooses, Also, CmMethods, SeedFields, SeedEquations, Orders, SeedBases
<1> QED BY <1>2, <1>5

LEMMA BrainpoolRFC ==
  ASSUME NEW c \in AllConfigs, c.seed_algo = "brainpool_rfc"
  PROVE  Chooses(c, MethodStages(c))
<1> DEFINE seed == Seed(c, "brainpool_rfc_gen_seed_argument",
                        "brainpool_rfc_gen_seed_random", "brainpool_rfc_gen_seed_input")
           M == Stages(seed, "brainpool_gen_field", "gen_skip",
                       "brainpool_rfc_gen_equation", "order_gen_prime",
                       "brainpool_gen_gens")
<1>1. c.method = "seed" /\ Seeded(c)
  BY Configured DEF Seeded
<1>2. MethodStages(c) = M
  BY <1>1 DEF MethodStages, SeedStages, CmMethods
<1>3. seed \in Seeds
  BY DEF Seed, Seeds
<1>4. /\ DOMAIN M = {SEED, FIELD, A, B, ORDER, GENERATORS}
      /\ M[SEED] = seed /\ M[FIELD] = "brainpool_gen_field"
      /\ M[A] = "gen_skip" /\ M[B] = "brainpool_rfc_gen_equation"
      /\ M[ORDER] = "order_gen_prime" /\ M[GENERATORS] = "brainpool_gen_gens"
  BY OfStages
<1> HIDE DEF seed, M
<1>5. Chooses(c, M)
  BY <1>1, <1>3, <1>4
  DEF Chooses, Also, CmMethods, SeedFields, SeedEquations, Orders, SeedBases
<1> QED BY <1>2, <1>5

LEMMA Nums ==
  ASSUME NEW c \in AllConfigs, c.seed_algo = "nums"
  PROVE  Chooses(c, MethodStages(c))
<1> DEFINE M == Stages("gen_skip", "nums_gen_field", "nums_gen_a", "nums_gen_b",
                       "nums_gen_order", "nums_gen_gens")
<1>1. c.method = "seed" /\ ~Seeded(c)
  BY Configured DEF Seeded
<1>2. MethodStages(c) = M
  BY <1>1 DEF MethodStages, SeedStages, CmMethods
<1>3. /\ DOMAIN M = {SEED, FIELD, A, B, ORDER, GENERATORS}
      /\ M[SEED] = "gen_skip" /\ M[FIELD] = "nums_gen_field"
      /\ M[A] = "nums_gen_a" /\ M[B] = "nums_gen_b"
      /\ M[ORDER] = "nums_gen_order" /\ M[GENERATORS] = "nums_gen_gens"
  BY OfStages
<1> HIDE DEF M
<1>4. Chooses(c, M)
  BY <1>1, <1>3 DEF Chooses, Also, CmMethods, Fields, As, Bs, Orders, Bases
<1> QED BY <1>2, <1>4

LEMMA Family ==
  ASSUME NEW c \in AllConfigs, c.method = "family"
  PROVE  Chooses(c, MethodStages(c))
<1> DEFINE seed == IF c.random # {} THEN "family_gen_seed_random"
                                    ELSE "family_gen_seed_input"
           b == IF c.family = "cm" THEN "family_gen_equation_cm"
                                   ELSE "family_gen_equation_iter"
           M == Stages(seed, "family_gen_field", "gen_skip", b, "family_gen_order",
                       "gens_gen_any")
<1>1. c.seed_algo = "none" /\ Seeded(c)
  BY Configured DEF Seeded
<1>2. MethodStages(c) = M
  BY <1>1 DEF MethodStages, FamilyStages, CmMethods
<1>3. seed \in Seeds /\ b \in Equations \cup SeedEquations /\ b # "anomalous_gen_equation"
  BY DEF Seeds, Equations, SeedEquations
<1>4. /\ DOMAIN M = {SEED, FIELD, A, B, ORDER, GENERATORS}
      /\ M[SEED] = seed /\ M[FIELD] = "family_gen_field"
      /\ M[A] = "gen_skip" /\ M[B] = b
      /\ M[ORDER] = "family_gen_order" /\ M[GENERATORS] = "gens_gen_any"
  BY OfStages
<1> HIDE DEF seed, b, M
<1>5. Chooses(c, M)
  BY <1>1, <1>3, <1>4 DEF Chooses, Also, CmMethods, SeedFields, SeedOrders, Bases
<1> QED BY <1>2, <1>5

LEMMA Normal ==
  ASSUME NEW c \in AllConfigs, c.method \in {"default", "twist"}
  PROVE  Chooses(c, MethodStages(c))
<1> DEFINE koblitz == c.koblitz # "none"
           a == IF koblitz THEN IF c.koblitz = "1" THEN "a_gen_one" ELSE "a_gen_zero"
                ELSE AOf(c)
           b == IF koblitz THEN "b_gen_one" ELSE BOf(c)
           other == IF koblitz THEN "order_gen_koblitz" ELSE "order_gen_any"
           order == Order(c, other)
           M == Stages("gen_skip", FieldOf(c), a, b, order, Gens(c))
<1>1. c.seed_algo = "none" /\ ~Seeded(c)
  BY Configured DEF Seeded
<1>2. MethodStages(c) = M
  BY <1>1 DEF MethodStages, NormalStages, CmMethods
<1>3. a \in As /\ b \in Bs /\ b # "anomalous_gen_equation"
  BY DEF As, Bs, AOf, BOf
<1>4. /\ DOMAIN M = {SEED, FIELD, A, B, ORDER, GENERATORS}
      /\ M[SEED] = "gen_skip" /\ M[FIELD] = FieldOf(c) /\ M[A] = a /\ M[B] = b
      /\ M[ORDER] = order /\ M[GENERATORS] = Gens(c)
  BY OfStages
<1>5. /\ order \in Orders \ ({"cm_gen_order"} \cup Doubting)
      /\ order = "order_gen_cofactor" => c.order = "cofactor"
      /\ order = "order_gen_smooth" => c.order = "smooth"
  <2>1. other \in {"order_gen_any", "order_gen_koblitz"}
    OBVIOUS
  <2> HIDE DEF other
  <2> QED BY <2>1, OfOrder
<1> HIDE DEF a, b, order, M
<1>6. Chooses(c, M)
  BY <1>1, <1>3, <1>4, <1>5, OfGens, OfField DEF Chooses, Also, CmMethods
<1> QED BY <1>2, <1>6

LEMMA Anomalous ==
  ASSUME NEW c \in AllConfigs, c.method = "anomalous"
  PROVE  Chooses(c, MethodStages(c))
<1> DEFINE gens == IF c.unique THEN "gens_gen_one" ELSE "gens_gen_any"
           M == Stages("gen_skip", "anomalous_gen_field", "gen_skip",
                       "anomalous_gen_equation", "anomalous_gen_order", gens)
<1>1. c.seed_algo = "none" /\ ~Seeded(c)
  BY Configured DEF Seeded
<1>2. MethodStages(c) = M
  BY <1>1 DEF MethodStages, CmStages, CmMethods
<1>3. /\ DOMAIN M = {SEED, FIELD, A, B, ORDER, GENERATORS}
      /\ M[SEED] = "gen_skip" /\ M[FIELD] = "anomalous_gen_field"
      /\ M[A] = "gen_skip" /\ M[B] = "anomalous_gen_equation"
      /\ M[ORDER] = "anomalous_gen_order" /\ M[GENERATORS] = gens
  BY OfStages
<1> HIDE DEF M
<1>4. Chooses(c, M)
  BY <1>1, <1>3 DEF Chooses, Also, CmMethods, Fields, Equations, Orders, Bases
<1> QED BY <1>2, <1>4

LEMMA Supersingular ==
  ASSUME NEW c \in AllConfigs, c.method = "supersingular"
  PROVE  Chooses(c, MethodStages(c))
<1> DEFINE gens == IF c.unique THEN "gens_gen_one" ELSE "gens_gen_any"
           M == Stages("gen_skip", FieldOf(c), "gen_skip", "supersingular_gen_equation",
                       "supersingular_gen_order", gens)
<1>1. c.seed_algo = "none" /\ ~Seeded(c)
  BY Configured DEF Seeded
<1>2. MethodStages(c) = M
  BY <1>1 DEF MethodStages, CmStages, CmMethods
<1>3. /\ DOMAIN M = {SEED, FIELD, A, B, ORDER, GENERATORS}
      /\ M[SEED] = "gen_skip" /\ M[FIELD] = FieldOf(c)
      /\ M[A] = "gen_skip" /\ M[B] = "supersingular_gen_equation"
      /\ M[ORDER] = "supersingular_gen_order" /\ M[GENERATORS] = gens
  BY OfStages
<1> HIDE DEF M
<1>4. Chooses(c, M)
  BY <1>1, <1>3, OfField DEF Chooses, Also, CmMethods, Equations, Orders, Bases
<1> QED BY <1>2, <1>4

\* The curve comes whole, and for a prime order the points are its own choice.
LEMMA Cm ==
  ASSUME NEW c \in AllConfigs, c.method = "cm"
  PROVE  Fitting(c, ginit(c)) /\ Handed(c, ginit(c))
<1> DEFINE gens == IF c.unique THEN "gens_gen_one" ELSE "gens_gen_any"
           curve == IF c.cm_order = "prime" THEN "cm_gen_curve_prime"
                    ELSE IF c.unique THEN "cm_gen_curve_unique" ELSE "cm_gen_curve_any"
           points == IF c.cm_order = "prime" THEN At(POINTS, "points_gen_prime") ELSE <<>>
           S == Stages("gen_skip", "gen_skip", "gen_skip", "gen_skip", "cm_gen_order", gens)
           T == CommonStages(c)
           V == At(CURVE, curve)
           U == Over(V, S)
           M == Over(points, U)
           G == ginit(c)
<1>1. c.seed_algo = "none" /\ ~Seeded(c)
  BY Configured DEF Seeded
<1>2. G = Over(M, T)
  BY <1>1 DEF ginit, MethodStages, CmStages, CmMethods
<1>3. /\ DOMAIN S = {0, 1, 2, 3, 5, 6}
      /\ S[0] = "gen_skip" /\ S[1] = "gen_skip" /\ S[2] = "gen_skip" /\ S[3] = "gen_skip"
      /\ S[5] = "cm_gen_order" /\ S[6] = gens
  BY OfStages DEF SEED, FIELD, A, B, ORDER, GENERATORS
<1>4. /\ DOMAIN T = {4, 7, 8}
      /\ T[7] \in Points \cup {"gen_skip"}
      /\ T[8] \in {"metadata_gen", "gen_skip"}
      /\ T[7] = "points_gen_random" => c.points = "n_random"
  BY OfCommon DEF CURVE, METADATA, POINTS
<1>5. DOMAIN V = {4} /\ V[4] = curve
  BY DEF At, CURVE
<1>6. \/ DOMAIN points = {}
      \/ DOMAIN points = {7} /\ points[7] = "points_gen_prime"
  BY DEF At, POINTS
<1>7. /\ curve \in CmCurves /\ curve # "curve_gen_any_twist"
      /\ gens \in Bases /\ gens # "gens_gen_cofactor"
  BY DEF CmCurves, Bases
<1> HIDE DEF S, T, V, points, curve, gens
<1>8. /\ DOMAIN U = {0, 1, 2, 3, 4, 5, 6}
      /\ U[4] = curve
      /\ \A s \in {0, 1, 2, 3, 5, 6} : U[s] = S[s]
  BY <1>3, <1>5 DEF Over
<1> HIDE DEF U
<1>9. /\ DOMAIN M \subseteq {0, 1, 2, 3, 4, 5, 6, 7}
      /\ \A s \in {0, 1, 2, 3, 4, 5, 6} : s \in DOMAIN M /\ M[s] = U[s]
      /\ 7 \in DOMAIN M => M[7] = "points_gen_prime"
  BY <1>6, <1>8 DEF Over
<1> HIDE DEF M
<1>10. /\ DOMAIN G = {0, 1, 2, 3, 4, 5, 6, 7, 8}
       /\ \A s \in {0, 1, 2, 3, 4, 5, 6} : G[s] = U[s]
       /\ G[7] \in {"points_gen_prime", T[7]}
       /\ G[8] = T[8]
  <2>1. DOMAIN G = DOMAIN M \cup DOMAIN T
    BY <1>2 DEF Over
  <2>2. \A s \in DOMAIN M : G[s] = M[s]
    BY <1>2 DEF Over
  <2>3. \A s \in DOMAIN T \ DOMAIN M : G[s] = T[s]
    BY <1>2 DEF Over
  <2> HIDE DEF G
  <2>4. DOMAIN G = {0, 1, 2, 3, 4, 5, 6, 7, 8}
    BY <1>4, <1>9, <2>1
  <2>5. 8 \notin DOMAIN M
    BY <1>9
  <2>6. G[7] \in {"points_gen_prime", T[7]}
    BY <1>4, <1>9, <2>2, <2>3
  <2>7. G[8] = T[8]
    BY <1>4, <2>3, <2>5
  <2>8. \A s \in {0, 1, 2, 3, 4, 5, 6} : G[s] = U[s]
    BY <1>9, <2>2
  <2> QED BY <2>4, <2>6, <2>7, <2>8
<1> HIDE DEF G
<1>11. Fitting(c, G)
  BY <1>1, <1>3, <1>4, <1>7, <1>8, <1>10
  DEF Fitting, Also, Orders, Points, Stage,
      SEED, FIELD, A, B, CURVE, ORDER, GENERATORS, POINTS, METADATA
<1>12. Handed(c, G)
  BY <1>3, <1>4, <1>7, <1>8, <1>10
  DEF Handed, Doubting, SEED, FIELD, A, B, CURVE, ORDER, GENERATORS, POINTS, METADATA
<1> QED BY <1>11, <1>12 DEF G

LEMMA Fits ==
  ASSUME NEW c \in AllConfigs
  PROVE  Fitting(c, ginit(c)) /\ Handed(c, ginit(c))
<1>1. CASE c.method = "cm"
  BY <1>1, Cm
<1>2. CASE c.method # "cm"
  <2>1. Chooses(c, MethodStages(c))
    BY <1>2, Configured, Ansi, Brainpool, BrainpoolRFC, Nums, Family, Normal, Anomalous,
       Supersingular
  <2> QED BY <2>1, Chosen
<1> QED BY <1>1, <1>2

\* What the generators of a table assign and look at, stage by stage.
Assigns(c, s) == Generators(c.field)[ginit(c)[s]].writes
LooksAt(c, s) == Generators(c.field)[ginit(c)[s]].reads

LEMMA Used ==
  ASSUME NEW c \in AllConfigs
  PROVE  LET seed == IF Seeded(c) THEN {SEED} ELSE {} IN
         /\ Assigns(c, SEED) = seed /\ LooksAt(c, SEED) \subseteq {}
         /\ LooksAt(c, FIELD) \subseteq seed
         /\ \/ /\ Assigns(c, FIELD) = {FIELD}
               /\ Assigns(c, A) \cup Assigns(c, B) = {A, B}
               /\ Assigns(c, A) \in {{}, {A}} /\ Assigns(c, A) \cap Assigns(c, B) = {}
               /\ LooksAt(c, A) \subseteq {FIELD} /\ LooksAt(c, B) \subseteq {FIELD} \cup seed
               /\ Assigns(c, CURVE) \in {{CURVE}, {FIELD, A, B, CURVE}}
               /\ LooksAt(c, CURVE) \subseteq {FIELD, A, B}
            \/ /\ Assigns(c, FIELD) = {} /\ Assigns(c, A) = {} /\ Assigns(c, B) = {}
               /\ LooksAt(c, A) \subseteq {} /\ LooksAt(c, B) \subseteq {}
               /\ Assigns(c, CURVE) = {FIELD, A, B, CURVE}
               /\ LooksAt(c, CURVE) \subseteq {}
         /\ Assigns(c, ORDER) = {ORDER}
         /\ LooksAt(c, ORDER) \subseteq {FIELD, A, CURVE} \cup seed
         /\ Assigns(c, GENERATORS) = {GENERATORS}
         /\ LooksAt(c, GENERATORS) \subseteq {FIELD, CURVE, ORDER} \cup seed
         /\ Assigns(c, POINTS) \subseteq {POINTS}
         /\ LooksAt(c, POINTS) \subseteq {CURVE, GENERATORS}
         /\ Assigns(c, METADATA) \subseteq {METADATA}
         /\ LooksAt(c, METADATA) \subseteq {FIELD, CURVE, ORDER}
<1> DEFINE G == ginit(c)
           seed == IF Seeded(c) THEN {SEED} ELSE {}
           M(s) == Generators(c.field)[G[s]]
<1>1. Fitting(c, G)
  BY Fits
<1>2. \A s : Assigns(c, s) = M(s).writes /\ LooksAt(c, s) = M(s).reads
  BY DEF Assigns, LooksAt
<1> HIDE DEF G
<1>3. M(SEED).writes = seed /\ M(SEED).reads \subseteq {}
  <2>1. CASE Seeded(c)
    BY <1>1, <2>1, Facts DEF Fitting, Use
  <2>2. CASE ~Seeded(c)
    BY <1>1, <2>2, Facts DEF Fitting, Use
  <2> QED BY <2>1, <2>2
<1>4. M(FIELD).reads \subseteq seed
  BY <1>1, Facts DEF Fitting, Use, Also
<1>5. c.method # "cm"
      => /\ M(FIELD).writes = {FIELD}
         /\ M(A).writes \cup M(B).writes = {A, B}
         /\ M(A).writes \in {{}, {A}} /\ M(A).writes \cap M(B).writes = {}
         /\ M(A).reads \subseteq {FIELD} /\ M(B).reads \subseteq {FIELD} \cup seed
         /\ M(CURVE).writes \in {{CURVE}, {FIELD, A, B, CURVE}}
         /\ M(CURVE).reads \subseteq {FIELD, A, B}
  <2> SUFFICES ASSUME c.method # "cm"
               PROVE  /\ M(FIELD).writes = {FIELD}
                      /\ M(A).writes \cup M(B).writes = {A, B}
                      /\ M(A).writes \in {{}, {A}} /\ M(A).writes \cap M(B).writes = {}
                      /\ M(A).reads \subseteq {FIELD}
                      /\ M(B).reads \subseteq {FIELD} \cup seed
                      /\ M(CURVE).writes \in {{CURVE}, {FIELD, A, B, CURVE}}
                      /\ M(CURVE).reads \subseteq {FIELD, A, B}
    OBVIOUS
  <2>1. M(FIELD).writes = {FIELD}
    BY <1>1, Facts DEF Fitting, Use, Also
  <2>2. /\ M(CURVE).writes \in {{CURVE}, {FIELD, A, B, CURVE}}
        /\ M(CURVE).reads \subseteq {FIELD, A, B}
    BY <1>1, Facts DEF Fitting, Use, Curves
  <2>3. CASE G[A] \in As /\ G[B] \in Bs
    BY <2>1, <2>2, <2>3, Facts DEF Use, A, B
  <2>4. CASE G[A] = "gen_skip" /\ G[B] \in Also(c, Equations, SeedEquations)
    BY <2>1, <2>2, <2>4, Facts DEF Use, Also
  <2> QED BY <1>1, <2>3, <2>4 DEF Fitting
<1>6. c.method = "cm"
      => /\ M(FIELD).writes = {} /\ M(A).writes = {} /\ M(B).writes = {}
         /\ M(A).reads \subseteq {} /\ M(B).reads \subseteq {}
         /\ M(CURVE).writes = {FIELD, A, B, CURVE} /\ M(CURVE).reads \subseteq {}
  BY <1>1, Facts DEF Fitting, Use
<1>7. /\ M(ORDER).writes = {ORDER}
      /\ M(ORDER).reads \subseteq {FIELD, A, CURVE} \cup seed
  BY <1>1, Facts DEF Fitting, Use, Also
<1>8. /\ M(GENERATORS).writes = {GENERATORS}
      /\ M(GENERATORS).reads \subseteq {FIELD, CURVE, ORDER} \cup seed
  BY <1>1, Facts DEF Fitting, Use, Also
<1>9. /\ M(POINTS).writes \subseteq {POINTS}
      /\ M(POINTS).reads \subseteq {CURVE, GENERATORS}
  BY <1>1, Facts DEF Fitting, Use
<1>10. /\ M(METADATA).writes \subseteq {METADATA}
       /\ M(METADATA).reads \subseteq {FIELD, CURVE, ORDER}
  BY <1>1, Facts DEF Fitting, Use
<1> HIDE DEF M, seed
<1> QED BY <1>2, <1>3, <1>4, <1>5, <1>6, <1>7, <1>8, <1>9, <1>10 DEF seed

LEMMA Assembled ==
  ASSUME NEW c \in AllConfigs
  PROVE  /\ {FIELD, A, B, CURVE, ORDER, GENERATORS}
              \subseteq UNION {Assigns(c, s) : s \in Stage}
         /\ \A s \in Stage :
              LooksAt(c, s) \subseteq UNION {Assigns(c, r) : r \in SEED .. s - 1}
<1> USE DEF SEED, FIELD, A, B, CURVE, ORDER, GENERATORS, POINTS, METADATA
<1> DEFINE seed == IF Seeded(c) THEN {SEED} ELSE {}
           Made(s) == UNION {Assigns(c, r) : r \in SEED .. s - 1}
<1>1. /\ Assigns(c, 0) = seed /\ LooksAt(c, 0) \subseteq {}
      /\ LooksAt(c, 1) \subseteq seed
      /\ \/ /\ Assigns(c, 1) = {1} /\ Assigns(c, 2) \cup Assigns(c, 3) = {2, 3}
            /\ LooksAt(c, 2) \subseteq {1} /\ LooksAt(c, 3) \subseteq {1} \cup seed
            /\ Assigns(c, 4) \in {{4}, {1, 2, 3, 4}} /\ LooksAt(c, 4) \subseteq {1, 2, 3}
         \/ /\ LooksAt(c, 2) \subseteq {} /\ LooksAt(c, 3) \subseteq {}
            /\ Assigns(c, 4) = {1, 2, 3, 4} /\ LooksAt(c, 4) \subseteq {}
      /\ Assigns(c, 5) = {5} /\ LooksAt(c, 5) \subseteq {1, 2, 4} \cup seed
      /\ Assigns(c, 6) = {6} /\ LooksAt(c, 6) \subseteq {1, 4, 5} \cup seed
      /\ LooksAt(c, 7) \subseteq {4, 6}
      /\ LooksAt(c, 8) \subseteq {1, 4, 5}
  BY Used
<1>2. \A s \in Stage : \A r \in 0 .. s - 1 : Assigns(c, r) \subseteq Made(s)
  OBVIOUS
<1>3. Stage = {0, 1, 2, 3, 4, 5, 6, 7, 8}
  BY DEF Stage
<1> HIDE DEF Made, seed
<1>4. \A s \in {1, 2, 3, 4, 5, 6, 7, 8} : seed \subseteq Made(s)
  BY <1>1, <1>2, <1>3
<1>5. LooksAt(c, 2) \subseteq Made(2) /\ LooksAt(c, 3) \subseteq Made(3)
      /\ LooksAt(c, 4) \subseteq Made(4)
  BY <1>1, <1>2, <1>3, <1>4
<1>6. \A s \in {5, 6, 7, 8} : {1, 2, 3, 4} \subseteq Made(s)
  BY <1>1, <1>2, <1>3
<1>7. \A s \in {6, 7, 8} : 5 \in Made(s)
  BY <1>1, <1>2, <1>3
<1>8. \A s \in {7, 8} : 6 \in Made(s)
  BY <1>1, <1>2, <1>3
<1>9. \A s \in Stage : LooksAt(c, s) \subseteq Made(s)
  BY <1>1, <1>3, <1>4, <1>5, <1>6, <1>7, <1>8
<1>10. {1, 2, 3, 4, 5, 6} \subseteq UNION {Assigns(c, s) : s \in Stage}
  <2>1. Made(8) \subseteq UNION {Assigns(c, s) : s \in Stage}
    BY <1>3 DEF Made
  <2> QED BY <1>6, <1>7, <1>8, <2>1
<1> QED BY <1>9, <1>10 DEF Made

\* The argument a generator that demands one has to be handed.
Argument ==
  [points_gen_random |-> "points",
   order_gen_cofactor |-> "cofactor",
   order_gen_smooth |-> "smooth",
   gens_gen_cofactor |-> "cofactor",
   cm_gen_curve_any |-> "cm_order",
   cm_gen_curve_unique |-> "cm_order",
   cm_gen_curve_prime |-> "cm_order",
   cm_gen_order |-> "cm_order",
   anomalous_gen_field |-> "index",
   anomalous_gen_equation |-> "index"]

\* The stages whose generator may demand an argument, and which it may be.
LEMMA Demanding ==
  ASSUME NEW c \in AllConfigs, NEW s \in Stage, ginit(c)[s] \in NeedsArgument
  PROVE  LET g == ginit(c)[s] IN
         \/ s = FIELD /\ g = "anomalous_gen_field"
         \/ s = B /\ g = "anomalous_gen_equation"
         \/ s = CURVE /\ g \in CmCurves /\ c.method = "cm"
         \/ s = ORDER /\ g \in {"order_gen_cofactor", "order_gen_smooth", "cm_gen_order"}
         \/ s = GENERATORS /\ g = "gens_gen_cofactor"
         \/ s = POINTS /\ g = "points_gen_random"
<1> DEFINE G == ginit(c)
<1>1. Fitting(c, G)
  BY Fits
<1>2. G[s] \in NeedsArgument
  OBVIOUS
<1> HIDE DEF G
<1>3. s \in {SEED, FIELD, A, B, CURVE, ORDER, GENERATORS, POINTS, METADATA}
  BY DEF Stage, SEED, FIELD, A, B, CURVE, ORDER, GENERATORS, POINTS, METADATA
<1>4. CASE s = SEED
  BY <1>1, <1>2, <1>4 DEF Fitting, Seeds, NeedsArgument
<1>5. CASE s = FIELD
  BY <1>1, <1>2, <1>5 DEF Fitting, Also, Fields, SeedFields, NeedsArgument, G
<1>6. CASE s = A
  BY <1>1, <1>2, <1>6 DEF Fitting, As, NeedsArgument
<1>7. CASE s = B
  BY <1>1, <1>2, <1>7 DEF Fitting, Also, Bs, Equations, SeedEquations, NeedsArgument, G
<1>8. CASE s = CURVE
  BY <1>1, <1>2, <1>8 DEF Fitting, Curves, NeedsArgument, G
<1>9. CASE s = ORDER
  BY <1>1, <1>2, <1>9 DEF Fitting, Also, Orders, SeedOrders, NeedsArgument, G
<1>10. CASE s = GENERATORS
  BY <1>1, <1>2, <1>10 DEF Fitting, Also, Bases, SeedBases, NeedsArgument, G
<1>11. CASE s = POINTS
  BY <1>1, <1>2, <1>11 DEF Fitting, Points, NeedsArgument, G
<1>12. CASE s = METADATA
  BY <1>1, <1>2, <1>12 DEF Fitting, NeedsArgument
<1> QED BY <1>3, <1>4, <1>5, <1>6, <1>7, <1>8, <1>9, <1>10, <1>11, <1>12

LEMMA Present ==
  ASSUME NEW c \in AllConfigs, NEW s \in Stage, ginit(c)[s] \in NeedsArgument
  PROVE  ainit(c)[s] = Argument[ginit(c)[s]]
<1> DEFINE g == ginit(c)[s]
<1> USE DEF FIELD, B, CURVE, ORDER, GENERATORS, POINTS
<1>1. ainit(c)[s] =
        IF s = POINTS /\ c.points \in {"random", "n_random"} THEN "points"
        ELSE IF c.method \in CmMethods THEN CmArguments(c)[s]
        ELSE CASE s \in {ORDER, GENERATORS} /\ c.order = "cofactor" -> "cofactor"
               [] s = ORDER /\ c.order = "smooth" -> "smooth"
               [] OTHER -> "none"
  BY DEF ainit
<1>2. CmArguments(c)[s] =
        CASE c.method = "cm" /\ s \in {CURVE, ORDER} -> "cm_order"
          [] c.method = "anomalous" /\ s \in {FIELD, B} -> "index"
          [] OTHER -> "none"
  BY DEF CmArguments
<1>3. \/ s = FIELD /\ g = "anomalous_gen_field"
      \/ s = B /\ g = "anomalous_gen_equation"
      \/ s = CURVE /\ g \in CmCurves /\ c.method = "cm"
      \/ s = ORDER /\ g \in {"order_gen_cofactor", "order_gen_smooth", "cm_gen_order"}
      \/ s = GENERATORS /\ g = "gens_gen_cofactor"
      \/ s = POINTS /\ g = "points_gen_random"
  BY Demanding
<1>4. Handed(c, ginit(c))
  BY Fits
<1>5. CASE s = FIELD /\ g = "anomalous_gen_field"
  BY <1>1, <1>2, <1>4, <1>5 DEF Handed, Argument, CmMethods
<1>6. CASE s = B /\ g = "anomalous_gen_equation"
  BY <1>1, <1>2, <1>4, <1>6 DEF Handed, Argument, CmMethods
<1>7. CASE s = CURVE /\ g \in CmCurves /\ c.method = "cm"
  BY <1>1, <1>2, <1>7 DEF CmCurves, Argument, CmMethods
<1>8. CASE s = ORDER /\ g \in {"order_gen_cofactor", "order_gen_smooth", "cm_gen_order"}
  <2>1. CASE g = "cm_gen_order"
    <3>1. c.method = "cm"
      BY <1>4, <1>8, <2>1 DEF Handed
    <3> QED BY <1>1, <1>2, <1>8, <2>1, <3>1 DEF Argument, CmMethods
  <2>2. CASE g = "order_gen_cofactor"
    <3>1. c.order = "cofactor" /\ c.method \notin CmMethods
      BY <1>4, <1>8, <2>2 DEF Handed
    <3> QED BY <1>1, <1>8, <2>2, <3>1 DEF Argument
  <2>3. CASE g = "order_gen_smooth"
    <3>1. c.order = "smooth" /\ c.method \notin CmMethods
      BY <1>4, <1>8, <2>3 DEF Handed
    <3> QED BY <1>1, <1>8, <2>3, <3>1 DEF Argument
  <2> QED BY <1>8, <2>1, <2>2, <2>3
<1>9. CASE s = GENERATORS /\ g = "gens_gen_cofactor"
  BY <1>1, <1>4, <1>9 DEF Handed, Argument
<1>10. CASE s = POINTS /\ g = "points_gen_random"
  <2>1. c.points = "n_random"
    BY <1>4, <1>10 DEF Handed
  <2>2. ainit(c)[s] = "points"
    BY <1>1, <1>10, <2>1
  <2> QED BY <1>10, <2>2 DEF Argument
<1> QED BY <1>3, <1>5, <1>6, <1>7, <1>8, <1>9, <1>10

LEMMA CheckPresent ==
  ASSUME NEW c, NEW s \in Stage, cinit(c)[s] \cap NeedsArgument # {}
  PROVE  CheckArgs(c)[s] = "hex_check"
<1>1. s = POINTS /\ c.hex_check
  BY DEF cinit, NeedsArgument
<1> QED BY <1>1 DEF CheckArgs

LEMMA Freed ==
  ASSUME NEW c \in AllConfigs, NEW s \in SEED .. POINTS
  PROVE  Assigns(c, s) \cap OnHeap \subseteq Unrolls[uinit(c)[s]]
<1>1. /\ Assigns(c, 0) \subseteq IF Seeded(c) THEN {0} ELSE {}
      /\ Assigns(c, 1) \subseteq {1} /\ Assigns(c, 2) \subseteq {2, 3}
      /\ Assigns(c, 3) \subseteq {2, 3} /\ Assigns(c, 4) \subseteq {1, 2, 3, 4}
      /\ Assigns(c, 5) \subseteq {5} /\ Assigns(c, 6) \subseteq {6}
      /\ Assigns(c, 7) \subseteq {7}
  BY Used DEF SEED, FIELD, A, B, CURVE, ORDER, GENERATORS, POINTS
<1> USE DEF SEED, CURVE, GENERATORS, POINTS
<1>2. Unrolls[uinit(c)[s]] =
        CASE s = SEED /\ (c.seed_algo # "none" \/ c.method = "family") -> {SEED}
          [] s = CURVE -> {CURVE}
          [] s = GENERATORS -> {GENERATORS, POINTS}
          [] s = POINTS -> {POINTS}
          [] OTHER -> {}
  <2>1. uinit(c)[s] =
          CASE s = SEED /\ (c.seed_algo # "none" \/ c.method = "family") -> "seed_unroll"
            [] s = CURVE -> "curve_unroll"
            [] s = GENERATORS -> "gens_unroll"
            [] s = POINTS -> "points_unroll"
            [] OTHER -> "unroll_skip"
    BY DEF uinit
  <2> QED BY <2>1 DEF Unrolls
<1>3. s \in {0, 1, 2, 3, 4, 5, 6, 7}
  OBVIOUS
<1>4. CASE s = 0
  BY <1>1, <1>2, <1>4 DEF Seeded, OnHeap
<1>5. CASE s # 0
  BY <1>1, <1>2, <1>3, <1>5 DEF OnHeap
<1> QED BY <1>4, <1>5

------------------------------------------------------------------------------
(* The tables fit together.                                                  *)

\* The generators of G refuse with nothing but D, and leave no more than ROOM.
Refuse(field, G, D) ==
  \A g \in G : /\ Generators(field)[g].refuses \subseteq D
               /\ Generators(field)[g].size \in 0 .. ROOM

LEMMA Refusals ==
  ASSUME NEW field
  PROVE  /\ Refuse(field, {"gen_skip", "metadata_gen"}, {})
         /\ Refuse(field, Seeds, {0})
         /\ Refuse(field, Fields, {0, INT_MIN})
         /\ Refuse(field, SeedFields, {-1})
         /\ Refuse(field, As \cup Bs, {0, INT_MIN})
         /\ Refuse(field, Equations, {-2})
         /\ Refuse(field, SeedEquations, {-3})
         /\ Refuse(field, Curves \cup CmCurves, {-3})
         /\ Refuse(field, Orders \ Doubting, {-4})
         /\ Refuse(field, Doubting, {-2})
         /\ Refuse(field, Bases, {-5})
         /\ Refuse(field, SeedBases \cup Points, {})
<1> USE Rows DEF Refuse, Generator, ROOM
<1>1. Refuse(field, {"gen_skip", "metadata_gen"}, {})
  BY DEF SkipNames, gen_skip, MetadataNames, MetadataGenerators
<1>2. Refuse(field, Seeds, {0})
  <2>1. \A g \in Seeds \cap AnsiNames :
          /\ AnsiGenerators(field)[g].refuses \subseteq {0}
          /\ AnsiGenerators(field)[g].size \in 0 .. ROOM
    <3> HIDE Rows
    <3> QED BY DEF AnsiNames, AnsiGenerators, Seeds
  <2>2. Refuse(field, Seeds \cap AnsiNames, {0})
    BY <2>1
  <2>3. Refuse(field, Seeds \cap BrainpoolNames, {0})
    BY DEF BrainpoolNames, BrainpoolGenerators, Seeds
  <2>4. Refuse(field, Seeds \cap BrainpoolRFCNames, {0})
    BY DEF BrainpoolRFCNames, BrainpoolRFCGenerators, Seeds
  <2>5. Refuse(field, Seeds \cap FamilyNames, {0})
    BY DEF FamilyNames, FamilyGenerators, Seeds
  <2>6. Seeds \subseteq AnsiNames \cup BrainpoolNames \cup BrainpoolRFCNames \cup FamilyNames
    BY DEF Seeds, AnsiNames, BrainpoolNames, BrainpoolRFCNames, FamilyNames
  <2> HIDE Rows
  <2> QED BY <2>2, <2>3, <2>4, <2>5, <2>6
<1>3. Refuse(field, Fields, {0, INT_MIN})
  <2>1. \A g \in Fields \cap FieldNames :
          /\ FieldGenerators(field)[g].refuses \subseteq {0, INT_MIN}
          /\ FieldGenerators(field)[g].size \in 0 .. ROOM
    <3> HIDE Rows
    <3> QED BY DEF FieldNames, FieldGenerators, Fields
  <2>2. Refuse(field, Fields \cap FieldNames, {0, INT_MIN})
    BY <2>1
  <2>3. Refuse(field, Fields \cap (NumsNames \cup AnomalousNames), {0, INT_MIN})
    BY DEF NumsNames, NumsGenerators, AnomalousNames, AnomalousGenerators, Fields
  <2>4. Fields \subseteq FieldNames \cup NumsNames \cup AnomalousNames
    BY DEF Fields, FieldNames, NumsNames, AnomalousNames
  <2> HIDE Rows
  <2> QED BY <2>2, <2>3, <2>4
<1>4. Refuse(field, SeedFields, {-1})
  BY DEF BrainpoolNames, FamilyNames, BrainpoolGenerators, FamilyGenerators, SeedFields
<1>5. Refuse(field, As \cup Bs, {0, INT_MIN})
  BY DEF EquationNames, NumsNames, EquationGenerators, NumsGenerators, As, Bs
<1>6. Refuse(field, Equations, {-2})
  BY DEF FamilyNames, AnomalousNames, SupersingularNames, FamilyGenerators,
         AnomalousGenerators, SupersingularGenerators, Equations
<1>7. Refuse(field, SeedEquations, {-3})
  <2>1. \A g \in SeedEquations \cap AnsiNames :
          /\ AnsiGenerators(field)[g].refuses \subseteq {-3}
          /\ AnsiGenerators(field)[g].size \in 0 .. ROOM
    <3> HIDE Rows
    <3> QED BY DEF AnsiNames, AnsiGenerators, SeedEquations
  <2>2. Refuse(field, SeedEquations \cap AnsiNames, {-3})
    BY <2>1
  <2>3. Refuse(field, SeedEquations \cap BrainpoolNames, {-3})
    BY DEF BrainpoolNames, BrainpoolGenerators, SeedEquations
  <2>4. Refuse(field, SeedEquations \cap (BrainpoolRFCNames \cup FamilyNames), {-3})
    BY DEF BrainpoolRFCNames, BrainpoolRFCGenerators, FamilyNames, FamilyGenerators,
           SeedEquations
  <2>5. SeedEquations
          \subseteq AnsiNames \cup BrainpoolNames \cup BrainpoolRFCNames \cup FamilyNames
    BY DEF SeedEquations, AnsiNames, BrainpoolNames, BrainpoolRFCNames, FamilyNames
  <2> HIDE Rows
  <2> QED BY <2>2, <2>3, <2>4, <2>5
<1>8. Refuse(field, Curves \cup CmCurves, {-3})
  BY DEF CurveNames, CurveGenerators, CmNames, CmGenerators, Curves, CmCurves
<1>9. Refuse(field, Orders \ Doubting, {-4})
  BY DEF OrderNames, CmNames, AnomalousNames, SupersingularNames, OrderGenerators,
         CmGenerators, AnomalousGenerators, SupersingularGenerators, Orders, Doubting
<1>10. Refuse(field, Doubting, {-2})
  BY DEF NumsNames, NumsGenerators, FamilyNames, FamilyGenerators, Doubting
<1>11. Refuse(field, Bases, {-5})
  BY DEF GensNames, NumsNames, GensGenerators, NumsGenerators, Bases
<1>12. Refuse(field, SeedBases \cup Points, {})
  BY DEF BrainpoolNames, BrainpoolGenerators, SeedBases, PointNames, PointGenerators, Points
<1> QED BY <1>1, <1>2, <1>3, <1>4, <1>5, <1>6, <1>7, <1>8, <1>9, <1>10, <1>11, <1>12

\* What the generators and the validators of a table may send the engine back by.
Refuses(c, s) == Generators(c.field)[ginit(c)[s]].refuses
Rejects(c, s) == {Checks[v] : v \in cinit(c)[s]}
Room(c, s) == Generators(c.field)[ginit(c)[s]].size

LEMMA Refused ==
  ASSUME NEW c \in AllConfigs
  PROVE  /\ Refuses(c, SEED) \subseteq {0}
         /\ Refuses(c, FIELD) \subseteq {0, -1, INT_MIN}
         /\ Refuses(c, A) \subseteq {0, INT_MIN}
         /\ Refuses(c, B) \subseteq {0, -2, -3, INT_MIN}
         /\ Refuses(c, CURVE) \subseteq {-3}
         /\ Refuses(c, ORDER) \subseteq {-2, -4}
         /\ -2 \in Refuses(c, ORDER) => ginit(c)[ORDER] \in Doubting
         /\ Refuses(c, GENERATORS) \subseteq {-5}
         /\ Refuses(c, POINTS) \subseteq {} /\ Refuses(c, METADATA) \subseteq {}
         /\ \A s \in Stage : Room(c, s) \in 0 .. ROOM
<1> DEFINE G == ginit(c)
           M(s) == Generators(c.field)[G[s]]
<1>1. Fitting(c, G)
  BY Fits
<1>2. \A s : Refuses(c, s) = M(s).refuses /\ Room(c, s) = M(s).size
  BY DEF Refuses, Room
<1> HIDE DEF G
<1> USE DEF Fitting, Refuse, Also
<1>3. M(SEED).refuses \subseteq {0} /\ M(SEED).size \in 0 .. ROOM
  BY <1>1, Refusals
<1>4. M(FIELD).refuses \subseteq {0, -1, INT_MIN} /\ M(FIELD).size \in 0 .. ROOM
  BY <1>1, Refusals
<1>5. M(A).refuses \subseteq {0, INT_MIN} /\ M(A).size \in 0 .. ROOM
  BY <1>1, Refusals
<1>6. M(B).refuses \subseteq {0, -2, -3, INT_MIN} /\ M(B).size \in 0 .. ROOM
  BY <1>1, Refusals
<1>7. M(CURVE).refuses \subseteq {-3} /\ M(CURVE).size \in 0 .. ROOM
  BY <1>1, Refusals
<1>8. /\ M(ORDER).refuses \subseteq {-2, -4} /\ M(ORDER).size \in 0 .. ROOM
      /\ -2 \in M(ORDER).refuses => G[ORDER] \in Doubting
  <2>1. G[ORDER] \in (Orders \ Doubting) \cup Doubting
    BY <1>1 DEF SeedOrders, Doubting
  <2> QED BY <2>1, Refusals
<1>9. M(GENERATORS).refuses \subseteq {-5} /\ M(GENERATORS).size \in 0 .. ROOM
  BY <1>1, Refusals
<1>10. M(POINTS).refuses \subseteq {} /\ M(POINTS).size \in 0 .. ROOM
  BY <1>1, Refusals
<1>11. M(METADATA).refuses \subseteq {} /\ M(METADATA).size \in 0 .. ROOM
  BY <1>1, Refusals
<1>12. Stage = {SEED, FIELD, A, B, CURVE, ORDER, GENERATORS, POINTS, METADATA}
  BY DEF Stage, SEED, FIELD, A, B, CURVE, ORDER, GENERATORS, POINTS, METADATA
<1> HIDE DEF M
<1> QED BY <1>2, <1>3, <1>4, <1>5, <1>6, <1>7, <1>8, <1>9, <1>10, <1>11, <1>12 DEF G

LEMMA Rejected ==
  ASSUME NEW c, NEW s \in Stage
  PROVE  \/ Rejects(c, s) = {}
         \/ s = CURVE /\ Rejects(c, s) \subseteq {-3}
         \/ s = ORDER /\ Rejects(c, s) \subseteq {-4}
         \/ s = GENERATORS /\ Rejects(c, s) \subseteq {-5}
         \/ s = POINTS /\ Rejects(c, s) \subseteq {-6}
<1>1. \/ cinit(c)[s] = {}
      \/ s = CURVE /\ cinit(c)[s] = {"curve_check_nonzero"}
      \/ s = ORDER /\ cinit(c)[s] = {"brainpool_check_order"}
      \/ s = GENERATORS /\ cinit(c)[s] = {"gens_check_anomalous", "brainpool_check_gens"}
      \/ s = POINTS /\ cinit(c)[s] = {"hex_check_param"}
  BY DEF cinit, CURVE, ORDER, GENERATORS, POINTS
<1> QED BY <1>1 DEF Rejects, Checks, FIELD, POINTS

\* What the stages assign is apart, but for what the curve is made of.
LEMMA Apart ==
  ASSUME NEW c \in AllConfigs
  PROVE  /\ Assigns(c, SEED) \subseteq {SEED}
         /\ Assigns(c, FIELD) \subseteq {FIELD}
         /\ Assigns(c, A) \subseteq {A}
         /\ Assigns(c, B) \subseteq {A, B}
         /\ Assigns(c, A) \cap Assigns(c, B) = {}
         /\ Assigns(c, CURVE) \subseteq {FIELD, A, B, CURVE}
         /\ ginit(c)[ORDER] \in Doubting => Assigns(c, CURVE) = {CURVE}
         /\ ginit(c)[CURVE] = "curve_gen_any_twist" => Assigns(c, SEED) = {}
         /\ Assigns(c, ORDER) \subseteq {ORDER}
         /\ Assigns(c, GENERATORS) \subseteq {GENERATORS}
         /\ Assigns(c, POINTS) \subseteq {POINTS}
         /\ Assigns(c, METADATA) \subseteq {METADATA}
<1>1. ginit(c)[ORDER] \in Doubting => Assigns(c, CURVE) = {CURVE}
  <2> SUFFICES ASSUME ginit(c)[ORDER] \in Doubting PROVE Assigns(c, CURVE) = {CURVE}
    OBVIOUS
  <2>1. c.method \notin {"twist", "cm"}
    BY Fits DEF Handed
  <2>2. ginit(c)[CURVE] = "curve_gen_any"
    BY <2>1, Fits DEF Fitting, Handed, Curves
  <2> QED BY <2>2, Facts DEF Use, Assigns
<1>2. ginit(c)[CURVE] = "curve_gen_any_twist" => Assigns(c, SEED) = {}
  <2> SUFFICES ASSUME ginit(c)[CURVE] = "curve_gen_any_twist" PROVE Assigns(c, SEED) = {}
    OBVIOUS
  <2>1. ~Seeded(c)
    BY Fits, Configured DEF Handed, Seeded
  <2> QED BY <2>1, Used
<1>3. /\ Assigns(c, FIELD) \subseteq {FIELD}
      /\ Assigns(c, A) \subseteq {A} /\ Assigns(c, B) \subseteq {A, B}
      /\ Assigns(c, A) \cap Assigns(c, B) = {}
      /\ Assigns(c, CURVE) \subseteq {FIELD, A, B, CURVE}
  BY Used
<1>4. /\ Assigns(c, SEED) \subseteq {SEED}
      /\ Assigns(c, ORDER) \subseteq {ORDER} /\ Assigns(c, GENERATORS) \subseteq {GENERATORS}
      /\ Assigns(c, POINTS) \subseteq {POINTS} /\ Assigns(c, METADATA) \subseteq {METADATA}
  BY Used
<1> QED BY <1>1, <1>2, <1>3, <1>4

\* Where the stages go back to: to the seed, to the field, to the stage itself when
\* it asks for its input again, or from the order to b.
Returns(c, s) ==
  {0} \cup (IF s >= 1 THEN {1} ELSE {}) \cup (IF s \in {2, 3} THEN {s} ELSE {})
      \cup (IF s = 5 /\ ginit(c)[ORDER] \in Doubting THEN {3} ELSE {})

LEMMA Back ==
  ASSUME NEW c \in AllConfigs, NEW s \in Stage, NEW d \in Refuses(c, s) \cup Rejects(c, s)
  PROVE  d <= 0 /\ MaxOf(0, s + d) \in Returns(c, s)
<1> USE DEF SEED, FIELD, A, B, CURVE, ORDER, GENERATORS, POINTS, METADATA, INT_MIN
<1>1. s \in {0, 1, 2, 3, 4, 5, 6, 7, 8}
  BY DEF Stage
<1>2. CASE d \in Refuses(c, s)
  <2>1. CASE s \in {0, 1, 2, 3}
    BY <1>2, <2>1, Refused DEF Returns, MaxOf
  <2>2. CASE s \in {4, 5}
    BY <1>2, <2>2, Refused DEF Returns, MaxOf
  <2>3. CASE s \in {6, 7, 8}
    BY <1>2, <2>3, Refused DEF Returns, MaxOf
  <2> QED BY <1>1, <2>1, <2>2, <2>3
<1>3. CASE d \in Rejects(c, s)
  BY <1>3, Rejected DEF Returns, MaxOf
<1> QED BY <1>2, <1>3

\* Going back there, no stage gone over again assigns what an earlier one has, and
\* nothing but the first stage finds its own product still on the heap.
LEMMA Forth ==
  ASSUME NEW c \in AllConfigs, NEW s \in Stage, NEW n \in Returns(c, s)
  PROVE  /\ n # 0 => Assigns(c, n) \cap OnHeap = {}
         /\ \A t \in n .. s : \A r \in 0 .. n - 1 : Assigns(c, r) \cap Assigns(c, t) = {}
<1> USE DEF SEED, FIELD, A, B, CURVE, ORDER, GENERATORS, POINTS, METADATA
<1>1. s \in {0, 1, 2, 3, 4, 5, 6, 7, 8}
  BY DEF Stage
<1>2. /\ Assigns(c, 0) \subseteq {0} /\ Assigns(c, 1) \subseteq {1}
      /\ Assigns(c, 2) \subseteq {2} /\ Assigns(c, 3) \subseteq {2, 3}
      /\ Assigns(c, 2) \cap Assigns(c, 3) = {}
      /\ Assigns(c, 4) \subseteq {1, 2, 3, 4}
      /\ ginit(c)[5] \in Doubting => Assigns(c, 4) = {4}
      /\ Assigns(c, 5) \subseteq {5} /\ Assigns(c, 6) \subseteq {6}
      /\ Assigns(c, 7) \subseteq {7} /\ Assigns(c, 8) \subseteq {8}
  BY Apart
<1>3. n \in {0, 1, 2, 3}
  BY <1>1 DEF Returns
<1>4. n # 0 => Assigns(c, n) \cap OnHeap = {}
  BY <1>2, <1>3 DEF OnHeap
<1>5. ASSUME NEW t \in n .. s, NEW r \in 0 .. n - 1
      PROVE  Assigns(c, r) \cap Assigns(c, t) = {}
  <2>1. CASE n = 0
    BY <2>1
  <2>2. CASE n = 1
    <3>1. r = 0 /\ t \in {1, 2, 3, 4, 5, 6, 7, 8}
      BY <1>1, <2>2
    <3>2. 0 \notin Assigns(c, t)
      BY <1>2, <3>1
    <3> QED BY <1>2, <3>1, <3>2
  <2>3. CASE n = 2
    <3>1. t = 2 /\ r \in {0, 1}
      BY <2>3 DEF Returns
    <3> QED BY <1>2, <3>1
  <2>4. CASE n = 3
    <3>1. r \in {0, 1, 2}
      BY <2>4
    <3>2. \/ t = 3
          \/ t \in {4, 5} /\ Assigns(c, 4) = {4}
      BY <1>1, <1>2, <2>4 DEF Returns
    <3> QED BY <1>2, <3>1, <3>2
  <2> QED BY <1>3, <2>1, <2>2, <2>3, <2>4
<1> QED BY <1>4, <1>5

LEMMA Unrolled ==
  ASSUME NEW c \in AllConfigs, NEW s \in Stage
  PROVE  LET U == IF s \in DOMAIN uinit(c) THEN Unrolls[uinit(c)[s]] ELSE {} IN
         /\ U \subseteq s .. METADATA
         /\ Assigns(c, s) \cap OnHeap \subseteq U
<1> USE DEF SEED, CURVE, GENERATORS, POINTS, METADATA
<1>1. DOMAIN uinit(c) = 0 .. 7
  BY DEF uinit
<1>2. CASE s \in 0 .. 7
  <2>1. Assigns(c, s) \cap OnHeap \subseteq Unrolls[uinit(c)[s]]
    BY <1>2, Freed
  <2>2. \/ uinit(c)[s] = "unroll_skip"
        \/ s = 0 /\ uinit(c)[s] = "seed_unroll"
        \/ s = 4 /\ uinit(c)[s] = "curve_unroll"
        \/ s = 6 /\ uinit(c)[s] = "gens_unroll"
        \/ s = 7 /\ uinit(c)[s] = "points_unroll"
    BY <1>2 DEF uinit
  <2>3. Unrolls[uinit(c)[s]] \subseteq s .. 8
    BY <2>2 DEF Unrolls
  <2> QED BY <1>1, <1>2, <2>1, <2>3
<1>3. CASE s = 8
  <2>1. Assigns(c, 8) \subseteq {8}
    BY Apart
  <2> QED BY <1>1, <1>3, <2>1 DEF OnHeap
<1> QED BY <1>2, <1>3 DEF Stage

LEMMA Fitted ==
  ASSUME NEW c \in AllConfigs, NEW timeout \in BOOLEAN
  PROVE  GenerateCall(timeout, c.field, ginit(c), cinit(c), uinit(c))
           \in {j \in Shape : FitsTogether(j)}
<1> USE DEF SEED, FIELD, A, B, CURVE, ORDER, GENERATORS, POINTS, METADATA, END
<1> DEFINE j == GenerateCall(timeout, c.field, ginit(c), cinit(c), uinit(c))
           U(s) == IF s \in DOMAIN uinit(c) THEN Unrolls[uinit(c)[s]] ELSE {}
           twist == ginit(c)[4] = "curve_gen_any_twist"
<1>1. DOMAIN ginit(c) = Stage
  BY Fits DEF Fitting
<1>2. j = [start   |-> 0, end |-> 9, retry |-> 0, timeout |-> timeout,
           refuses |-> [s \in Stage |-> Refuses(c, s)],
           checks  |-> [s \in Stage |-> Rejects(c, s)],
           writes  |-> [s \in Stage |-> Assigns(c, s)],
           reads   |-> [s \in Stage |-> LooksAt(c, s)],
           size    |-> [s \in Stage |-> Room(c, s)],
           unrolls |-> [s \in Stage |-> U(s)],
           twist   |-> twist,
           cached  |-> ginit(c)[5] \in UsesCachedOrder]
  BY <1>1 DEF GenerateCall, Call, Refuses, Rejects, Assigns, LooksAt, Room
<1>3. Stage = 0 .. 8
  BY DEF Stage
<1>4. \A s \in Stage : /\ U(s) \subseteq s .. 8
                       /\ Assigns(c, s) \cap OnHeap \subseteq U(s)
  BY Unrolled
<1> HIDE DEF j, U, twist
<1>5. j \in Shape
  <2>1. \A s \in Stage : Refuses(c, s) \subseteq Int /\ Rejects(c, s) \subseteq Int
    <3>1. /\ Refuses(c, 0) \subseteq Int /\ Refuses(c, 1) \subseteq Int
          /\ Refuses(c, 2) \subseteq Int /\ Refuses(c, 3) \subseteq Int
          /\ Refuses(c, 4) \subseteq Int /\ Refuses(c, 5) \subseteq Int
          /\ Refuses(c, 6) \subseteq Int /\ Refuses(c, 7) \subseteq Int
          /\ Refuses(c, 8) \subseteq Int
      BY Refused DEF INT_MIN
    <3>2. \A s \in Stage : Rejects(c, s) \subseteq Int
      BY Rejected
    <3> QED BY <1>3, <3>1, <3>2
  <2>2. \A s \in Stage : Assigns(c, s) \subseteq Stage
    <3>1. /\ Assigns(c, 0) \subseteq 0 .. 8 /\ Assigns(c, 1) \subseteq 0 .. 8
          /\ Assigns(c, 2) \subseteq 0 .. 8 /\ Assigns(c, 3) \subseteq 0 .. 8
          /\ Assigns(c, 4) \subseteq 0 .. 8 /\ Assigns(c, 5) \subseteq 0 .. 8
          /\ Assigns(c, 6) \subseteq 0 .. 8 /\ Assigns(c, 7) \subseteq 0 .. 8
          /\ Assigns(c, 8) \subseteq 0 .. 8
      BY Apart
    <3> QED BY <1>3, <3>1
  <2>3. \A s \in Stage : LooksAt(c, s) \subseteq Stage
    <3>1. \A s \in Stage : \A r \in 0 .. s - 1 : Assigns(c, r) \subseteq Stage
      BY <1>3, <2>2
    <3>2. \A s \in Stage : LooksAt(c, s) \subseteq UNION {Assigns(c, r) : r \in 0 .. s - 1}
      BY Assembled
    <3> QED BY <3>1, <3>2
  <2>4. \A s \in Stage : U(s) \subseteq Stage
    BY <1>3, <1>4
  <2>5. \A s \in Stage : Room(c, s) \in 0 .. ROOM
    BY Refused
  <2>6. twist \in BOOLEAN
    BY DEF twist
  <2> DEFINE refuses == [s \in Stage |-> Refuses(c, s)]
             checks == [s \in Stage |-> Rejects(c, s)]
             writes == [s \in Stage |-> Assigns(c, s)]
             reads == [s \in Stage |-> LooksAt(c, s)]
             size == [s \in Stage |-> Room(c, s)]
             frees == [s \in Stage |-> U(s)]
  <2>7. refuses \in [Stage -> SUBSET Int] /\ checks \in [Stage -> SUBSET Int]
    BY <2>1
  <2>8. /\ writes \in [Stage -> SUBSET Stage] /\ reads \in [Stage -> SUBSET Stage]
        /\ frees \in [Stage -> SUBSET Stage] /\ size \in [Stage -> 0 .. ROOM]
    BY <2>2, <2>3, <2>4, <2>5
  <2>9. j = [start |-> 0, end |-> 9, retry |-> 0, timeout |-> timeout,
             refuses |-> refuses, checks |-> checks, writes |-> writes, reads |-> reads,
             size |-> size, unrolls |-> frees, twist |-> twist,
             cached |-> ginit(c)[5] \in UsesCachedOrder]
    BY <1>2
  <2> HIDE DEF refuses, checks, writes, reads, size, frees
  <2> QED BY <1>3, <2>6, <2>7, <2>8, <2>9 DEF Shape
<1>6. /\ j.start = 0 /\ j.end = 9 /\ j.twist = twist
      /\ \A s \in Stage :
           /\ j.refuses[s] = Refuses(c, s) /\ j.checks[s] = Rejects(c, s)
           /\ j.writes[s] = Assigns(c, s) /\ j.reads[s] = LooksAt(c, s)
           /\ j.unrolls[s] = U(s)
  BY <1>2
<1>7. Span(j) = Stage /\ Callers(j) = {}
  BY <1>3, <1>6 DEF Span, Callers
<1>8. ASSUME NEW s \in Stage
      PROVE  Found(j, s) = UNION {Assigns(c, r) : r \in 0 .. s - 1}
  BY <1>3, <1>6, <1>7 DEF Found
<1>9. ASSUME NEW s \in Stage
      PROVE  /\ \A d \in j.refuses[s] \cup j.checks[s] : d <= 0
             /\ Targets(j, s) \subseteq Returns(c, s)
  <2>1. \A d \in Refuses(c, s) \cup Rejects(c, s) : d <= 0 /\ MaxOf(0, s + d) \in Returns(c, s)
    BY Back
  <2>2. 0 \in Returns(c, s)
    BY DEF Returns
  <2> QED BY <1>6, <2>1, <2>2 DEF Targets, Target
<1>10. ASSUME NEW s \in Stage
      PROVE  /\ Assigns(c, s) \subseteq 0 .. s
             /\ Assigns(c, s) \cap Found(j, s) \cap OnHeap = {}
             /\ Frees(j, Assigns(c, s)) \cap Found(j, s) = {}
  <2>1. /\ Assigns(c, 0) \subseteq {0} /\ Assigns(c, 1) \subseteq {1}
        /\ Assigns(c, 2) \subseteq {2} /\ Assigns(c, 3) \subseteq {2, 3}
        /\ Assigns(c, 4) \subseteq {1, 2, 3, 4}
        /\ twist => Assigns(c, 0) = {}
        /\ Assigns(c, 5) \subseteq {5} /\ Assigns(c, 6) \subseteq {6}
        /\ Assigns(c, 7) \subseteq {7} /\ Assigns(c, 8) \subseteq {8}
    BY Apart DEF twist
  <2>2. s \in {0, 1, 2, 3, 4, 5, 6, 7, 8}
    BY <1>3
  <2>3. Assigns(c, s) \subseteq 0 .. s
    BY <2>1, <2>2
  <2>4. \A r \in 0 .. s - 1 : Assigns(c, r) \cap Assigns(c, s) \cap OnHeap = {}
    <3>1. \A r \in Stage : Assigns(c, r) \cap OnHeap \subseteq {r}
      <4>1. ASSUME NEW r \in {0, 1, 2, 3, 4, 5, 6, 7, 8}
            PROVE  Assigns(c, r) \cap OnHeap \subseteq {r}
        BY <2>1 DEF OnHeap
      <4> QED BY <1>3, <4>1
    <3> QED BY <1>3, <3>1
  <2>5. \A r \in 0 .. s - 1 : Frees(j, Assigns(c, s)) \cap Assigns(c, r) = {}
    <3>1. CASE s = 4
      BY <1>6, <2>1, <3>1 DEF Frees
    <3>2. CASE s # 4
      <4>1. Frees(j, Assigns(c, s)) \subseteq IF s = 6 THEN {7} ELSE {}
        BY <2>1, <2>2, <3>2 DEF Frees
      <4>2. CASE s = 6
        <5>1. \A r \in 0 .. 5 : 7 \notin Assigns(c, r)
          BY <2>1
        <5> QED BY <4>1, <4>2, <5>1
      <4> QED BY <4>1, <4>2
    <3> QED BY <3>1, <3>2
  <2> QED BY <1>8, <2>3, <2>4, <2>5
<1>11. ASSUME NEW s \in Stage PROVE LooksAt(c, s) \subseteq Found(j, s)
  BY <1>8, Assembled
<1>12. ASSUME NEW s \in Stage, NEW n \in Targets(j, s)
       PROVE  /\ n # 0 => j.writes[n] \cap OnHeap = {}
              /\ \A t \in n .. s : \A r \in 0 .. n - 1 : j.writes[r] \cap j.writes[t] = {}
  <2>1. n \in Returns(c, s)
    BY <1>9
  <2>2. n \in 0 .. s
    BY <1>3, <2>1 DEF Returns
  <2>3. /\ n # 0 => Assigns(c, n) \cap OnHeap = {}
        /\ \A t \in n .. s : \A r \in 0 .. n - 1 : Assigns(c, r) \cap Assigns(c, t) = {}
    BY <2>1, Forth
  <2> QED BY <1>3, <1>6, <2>2, <2>3
<1>13. FitsTogether(j)
  BY <1>4, <1>6, <1>7, <1>9, <1>10, <1>11, <1>12 DEF FitsTogether
<1> QED BY <1>5, <1>13 DEF j

------------------------------------------------------------------------------
(* The calls of invalid_do go over a part of the stages.  Each stage there   *)
(* assigns its own product, and goes back to itself or to the first.         *)

Plain(j) ==
  /\ ~j.twist
  /\ \A s \in Stage :
       /\ j.writes[s] \subseteq {s}
       /\ j.unrolls[s] \subseteq s .. METADATA
       /\ s # SEED => j.writes[s] \cap OnHeap \subseteq j.unrolls[s]
       /\ \A d \in j.refuses[s] \cup j.checks[s] :
            \/ d = 0 /\ s \in {FIELD, A, B}
            \/ d < 0 /\ s + d <= FIELD

LEMMA PlainFits ==
  ASSUME NEW j \in Shape, Plain(j), FIELD <= j.start, j.start < j.end,
         \A s \in Span(j) : j.reads[s] \subseteq Found(j, s)
  PROVE  FitsTogether(j)
<1> USE DEF SEED, FIELD, A, B, CURVE, ORDER, GENERATORS, POINTS, METADATA, END
<1>1. /\ j.start \in 0 .. 8 /\ j.end \in 1 .. 9 /\ 1 <= j.start /\ j.start < j.end
      /\ Stage = 0 .. 8
      /\ \A s \in Stage : j.refuses[s] \cup j.checks[s] \subseteq Int
  BY DEF Shape, Stage
<1>2. ASSUME NEW s \in Span(j)
      PROVE  s \in Stage /\ j.start <= s
  BY <1>1, <1>2 DEF Span
<1>3. ASSUME NEW s \in Span(j), NEW p \in Found(j, s)
      PROVE  p < s
  <2>1. CASE p \in Callers(j)
    BY <1>1, <1>2, <2>1 DEF Callers
  <2>2. CASE \E r \in j.start .. s - 1 : p \in j.writes[r]
    BY <1>1, <1>2, <2>2 DEF Plain
  <2> QED BY <1>3, <2>1, <2>2 DEF Found
<1>4. ASSUME NEW s \in Span(j)
      PROVE  /\ \A d \in j.refuses[s] \cup j.checks[s] : d <= 0
             /\ j.writes[s] \subseteq j.start .. s
             /\ j.writes[s] \cap Found(j, s) = {}
             /\ Frees(j, j.writes[s]) \cap Found(j, s) = {}
  <2>1. j.writes[s] \subseteq {s}
    BY <1>2 DEF Plain
  <2>2. j.writes[s] \cap Found(j, s) = {}
    BY <1>1, <1>2, <1>3, <2>1
  <2>3. Frees(j, j.writes[s]) \subseteq IF s = 6 THEN {7} ELSE {}
    BY <2>1 DEF Frees, Plain
  <2>4. Frees(j, j.writes[s]) \cap Found(j, s) = {}
    BY <1>1, <1>2, <1>3, <2>3
  <2>5. \A d \in j.refuses[s] \cup j.checks[s] : d <= 0
    BY <1>1, <1>2 DEF Plain
  <2> QED BY <1>1, <1>2, <2>1, <2>2, <2>4, <2>5
<1>5. ASSUME NEW s \in Span(j), NEW n \in Targets(j, s)
      PROVE  n = j.start \/ (n = s /\ n \in {1, 2, 3})
  <2>1. CASE n = j.start
    BY <2>1
  <2>2. ASSUME NEW d \in j.refuses[s] \cup j.checks[s], n = MaxOf(j.start, s + d)
        PROVE  n = j.start \/ (n = s /\ n \in {1, 2, 3})
    <3>1. d \in Int /\ ((d = 0 /\ s \in {1, 2, 3}) \/ s + d <= 1)
      BY <1>1, <1>2 DEF Plain
    <3> QED BY <1>1, <1>2, <2>2, <3>1 DEF MaxOf
  <2> QED BY <2>1, <2>2, <1>5 DEF Targets, Target
<1>6. ASSUME NEW s \in Span(j), NEW n \in Targets(j, s)
      PROVE  /\ n # j.start => j.writes[n] \cap OnHeap = {}
             /\ \A t \in n .. s : \A r \in j.start .. n - 1 : j.writes[r] \cap j.writes[t] = {}
  <2>1. n \in Stage /\ (n # j.start => n \in {1, 2, 3})
    BY <1>1, <1>2, <1>5
  <2>2. \A t \in Stage : j.writes[t] \subseteq {t}
    BY DEF Plain
  <2>3. n # j.start => j.writes[n] \cap OnHeap = {}
    BY <2>1, <2>2 DEF OnHeap
  <2>4. ASSUME NEW t \in n .. s, NEW r \in j.start .. n - 1
        PROVE  j.writes[r] \cap j.writes[t] = {}
    <3>1. t \in Stage /\ r \in Stage /\ r # t
      BY <1>1, <1>2, <2>1
    <3> QED BY <2>2, <3>1
  <2> QED BY <2>3, <2>4
<1>7. ASSUME NEW s \in Span(j)
      PROVE  /\ j.unrolls[s] \subseteq s .. METADATA
             /\ s # j.start => j.writes[s] \cap OnHeap \subseteq j.unrolls[s]
  <2>1. s \in Stage /\ s # 0
    BY <1>1, <1>2
  <2> QED BY <2>1 DEF Plain
<1> QED BY <1>1, <1>4, <1>6, <1>7 DEF FitsTogether

\* What either table has in a stage.
Ordinary(c, G) ==
  /\ DOMAIN G \subseteq Stage
  /\ \A s \in DOMAIN G :
       \/ G[s] = "gen_skip" /\ s # CURVE /\ s # ORDER
       \/ s = FIELD /\ G[s] \in Fields
       \/ s = A /\ G[s] \in As
       \/ s = B /\ G[s] \in Bs
       \/ s = CURVE /\ G[s] = "curve_gen_any"
       \/ s = ORDER /\ G[s] = "order_gen_any"
       \/ s = GENERATORS /\ G[s] \in Bases
       \/ s = POINTS /\ G[s] = "points_gen_trial"

LEMMA Trial ==
  ASSUME NEW field
  PROVE  /\ Use(field, {"points_gen_trial"}, {POINTS}, {CURVE, GENERATORS})
         /\ Refuse(field, {"points_gen_trial"}, {})
BY Rows DEF Use, Refuse, Generator, PointNames, PointGenerators, ROOM

\* The products it assigns in a stage, those it looks at, and its refusals.
LEMMA OfOrdinary ==
  ASSUME NEW c, NEW G, Ordinary(c, G), NEW s \in Stage
  PROVE  LET g == IF s \in DOMAIN G THEN Generators(c.field)[G[s]]
                  ELSE Generator({}, {}, {}, 0) IN
         /\ g.writes \subseteq {s}
         /\ s \in DOMAIN G /\ G[s] # "gen_skip" => g.writes = {s}
         /\ g.reads \subseteq CASE s = A -> {FIELD} [] s = B -> {FIELD}
                                [] s = CURVE -> {FIELD, A, B}
                                [] s = ORDER -> {FIELD, A, CURVE}
                                [] s = GENERATORS -> {FIELD, CURVE, ORDER}
                                [] s = POINTS -> {CURVE, GENERATORS}
                                [] OTHER -> {}
         /\ g.refuses \subseteq Int
         /\ \A d \in g.refuses : \/ d = 0 /\ s \in {FIELD, A, B}
                                 \/ d < 0 /\ s + d <= FIELD
         /\ g.size \in 0 .. ROOM
<1> USE DEF SEED, FIELD, A, B, CURVE, ORDER, GENERATORS, POINTS, METADATA
<1> DEFINE M == Generators(c.field)[G[s]]
<1>1. s \in {0, 1, 2, 3, 4, 5, 6, 7, 8}
  BY DEF Stage
<1>2. CASE s \notin DOMAIN G
  BY <1>1, <1>2 DEF Generator, ROOM
<1>3. CASE s \in DOMAIN G /\ G[s] = "gen_skip"
  <2>1. M.writes = {} /\ M.reads \subseteq {} /\ M.refuses \subseteq {} /\ M.size \in 0 .. ROOM
    BY <1>3, Facts, Refusals DEF Use, Refuse
  <2> HIDE DEF M
  <2>2. M.reads = {} /\ M.refuses = {}
    BY <2>1
  <2> QED BY <1>1, <1>3, <2>1, <2>2 DEF M
<1>4. CASE s \in DOMAIN G /\ s = 1 /\ G[s] \in Fields
  <2>1. /\ M.writes = {1} /\ M.reads \subseteq {} /\ M.refuses \subseteq {0, INT_MIN}
        /\ M.size \in 0 .. ROOM
    BY <1>4, Facts, Refusals DEF Use, Refuse
  <2> HIDE DEF M
  <2> QED BY <1>4, <2>1 DEF M, INT_MIN
<1>5. CASE s \in DOMAIN G /\ ((s = 2 /\ G[s] \in As) \/ (s = 3 /\ G[s] \in Bs))
  <2>1. /\ M.writes = {s} /\ M.reads \subseteq {1} /\ M.refuses \subseteq {0, INT_MIN}
        /\ M.size \in 0 .. ROOM
    BY <1>5, Facts, Refusals DEF Use, Refuse
  <2> HIDE DEF M
  <2> QED BY <1>5, <2>1 DEF M, INT_MIN
<1>6. CASE s \in DOMAIN G /\ s = 4 /\ G[s] = "curve_gen_any"
  <2>1. /\ M.writes = {4} /\ M.reads \subseteq {1, 2, 3} /\ M.refuses \subseteq {-3}
        /\ M.size \in 0 .. ROOM
    BY <1>6, Facts, Refusals DEF Use, Refuse, Curves
  <2> HIDE DEF M
  <2> QED BY <1>6, <2>1 DEF M
<1>7. CASE s \in DOMAIN G /\ s = 5 /\ G[s] = "order_gen_any"
  <2>1. /\ M.writes = {5} /\ M.reads \subseteq {1, 2, 4} /\ M.refuses \subseteq {-4}
        /\ M.size \in 0 .. ROOM
    BY <1>7, Facts, Refusals DEF Use, Refuse, Orders, Doubting
  <2> HIDE DEF M
  <2> QED BY <1>7, <2>1 DEF M
<1>8. CASE s \in DOMAIN G /\ s = 6 /\ G[s] \in Bases
  <2>1. /\ M.writes = {6} /\ M.reads \subseteq {1, 4, 5} /\ M.refuses \subseteq {-5}
        /\ M.size \in 0 .. ROOM
    BY <1>8, Facts, Refusals DEF Use, Refuse
  <2> HIDE DEF M
  <2> QED BY <1>8, <2>1 DEF M
<1>9. CASE s \in DOMAIN G /\ s = 7 /\ G[s] = "points_gen_trial"
  <2>1. /\ M.writes = {7} /\ M.reads \subseteq {4, 6} /\ M.refuses \subseteq {}
        /\ M.size \in 0 .. ROOM
    BY <1>9, Trial DEF Use, Refuse
  <2> HIDE DEF M
  <2> QED BY <1>9, <2>1 DEF M
<1>10. \/ s \notin DOMAIN G
       \/ s \in DOMAIN G /\ G[s] = "gen_skip"
       \/ s \in DOMAIN G /\ s = 1 /\ G[s] \in Fields
       \/ s \in DOMAIN G /\ ((s = 2 /\ G[s] \in As) \/ (s = 3 /\ G[s] \in Bs))
       \/ s \in DOMAIN G /\ s = 4 /\ G[s] = "curve_gen_any"
       \/ s \in DOMAIN G /\ s = 5 /\ G[s] = "order_gen_any"
       \/ s \in DOMAIN G /\ s = 6 /\ G[s] \in Bases
       \/ s \in DOMAIN G /\ s = 7 /\ G[s] = "points_gen_trial"
  BY DEF Ordinary
<1> HIDE DEF M
<1> QED BY <1>2, <1>3, <1>4, <1>5, <1>6, <1>7, <1>8, <1>9, <1>10

\* A call with such a table is one the engine can run, if it goes over stages that
\* have a generator: all but METADATA a product of their own.
LEMMA OrdinaryFits ==
  ASSUME NEW c \in InvalidConfigs, NEW G, Ordinary(c, G), CURVE \in DOMAIN G,
         NEW timeout \in BOOLEAN, NEW start \in FIELD .. POINTS, NEW end \in FIELD .. END,
         NEW retry \in Nat, start < end,
         \A s \in start .. end - 1 : \/ s \in DOMAIN G /\ G[s] # "gen_skip"
                                     \/ s = METADATA
  PROVE  Call(start, end, retry, timeout, c.field, G, invalid_cinit, uinit(c))
           \in {j \in Shape : FitsTogether(j)}
<1> USE DEF SEED, FIELD, A, B, CURVE, ORDER, GENERATORS, POINTS, METADATA, END
<1> DEFINE j == Call(start, end, retry, timeout, c.field, G, invalid_cinit, uinit(c))
           g(s) == IF s \in DOMAIN G THEN Generators(c.field)[G[s]]
                   ELSE Generator({}, {}, {}, 0)
           U(s) == IF s \in DOMAIN uinit(c) THEN Unrolls[uinit(c)[s]] ELSE {}
           K(s) == {Checks[v] : v \in invalid_cinit[s]}
           twist == G[4] = "curve_gen_any_twist"
           refuses == [s \in Stage |-> g(s).refuses]
           checks == [s \in Stage |-> K(s)]
           writes == [s \in Stage |-> g(s).writes]
           reads == [s \in Stage |-> g(s).reads]
           size == [s \in Stage |-> g(s).size]
           frees == [s \in Stage |-> U(s)]
<1>1. j = [start |-> start, end |-> end, retry |-> retry, timeout |-> timeout,
           refuses |-> refuses, checks |-> checks, writes |-> writes, reads |-> reads,
           size |-> size, unrolls |-> frees, twist |-> twist,
           cached |-> G[5] \in UsesCachedOrder]
  BY DEF Call
<1>2. Stage = 0 .. 8
  BY DEF Stage
<1>3. ~twist
  BY DEF Ordinary
<1>4. ASSUME NEW s \in Stage
      PROVE  /\ g(s).writes \subseteq {s}
             /\ s \in DOMAIN G /\ G[s] # "gen_skip" => g(s).writes = {s}
             /\ g(s).reads \subseteq 0 .. s - 1
             /\ s = METADATA => g(s).reads = {}
             /\ g(s).refuses \subseteq Int
             /\ \A d \in g(s).refuses : \/ d = 0 /\ s \in {FIELD, A, B}
                                        \/ d < 0 /\ s + d <= FIELD
             /\ g(s).size \in 0 .. ROOM
  <2>1. g(s).reads \subseteq CASE s = 2 -> {1} [] s = 3 -> {1} [] s = 4 -> {1, 2, 3}
                               [] s = 5 -> {1, 2, 4} [] s = 6 -> {1, 4, 5}
                               [] s = 7 -> {4, 6} [] OTHER -> {}
    BY OfOrdinary
  <2>2. g(s).reads \subseteq 0 .. s - 1 /\ (s = METADATA => g(s).reads = {})
    BY <1>2, <2>1
  <2>3. /\ g(s).writes \subseteq {s}
        /\ s \in DOMAIN G /\ G[s] # "gen_skip" => g(s).writes = {s}
        /\ g(s).refuses \subseteq Int
        /\ g(s).size \in 0 .. ROOM
    BY OfOrdinary
  <2>4. \A d \in g(s).refuses : \/ d = 0 /\ s \in {FIELD, A, B}
                                \/ d < 0 /\ s + d <= FIELD
    BY OfOrdinary
  <2> QED BY <2>2, <2>3, <2>4
<1>5. ASSUME NEW s \in Stage
      PROVE  K(s) = IF s = CURVE THEN {-3} ELSE {}
  BY DEF invalid_cinit, Checks
<1>6. ASSUME NEW s \in Stage
      PROVE  U(s) = CASE s = CURVE -> {CURVE} [] s = GENERATORS -> {GENERATORS, POINTS}
                      [] s = POINTS -> {POINTS} [] OTHER -> {}
  <2>1. c.seed_algo = "none" /\ c.method = "invalid"
    BY DEF InvalidConfigs
  <2>2. DOMAIN uinit(c) = 0 .. 7
    BY DEF uinit
  <2>3. s \in 0 .. 7 =>
          uinit(c)[s] = CASE s = CURVE -> "curve_unroll" [] s = GENERATORS -> "gens_unroll"
                          [] s = POINTS -> "points_unroll" [] OTHER -> "unroll_skip"
    BY <2>1 DEF uinit
  <2>4. /\ Unrolls["unroll_skip"] = {} /\ Unrolls["curve_unroll"] = {CURVE}
        /\ Unrolls["gens_unroll"] = {GENERATORS, POINTS}
        /\ Unrolls["points_unroll"] = {POINTS}
    BY DEF Unrolls
  <2>5. s \in {0, 1, 2, 3, 4, 5, 6, 7, 8}
    BY <1>2
  <2>6. CASE s = 8
    BY <2>2, <2>6
  <2>7. CASE s \in {0, 1, 2, 3, 5}
    <3>1. s \in DOMAIN uinit(c) /\ uinit(c)[s] = "unroll_skip"
      BY <2>2, <2>3, <2>7
    <3>2. U(s) = {} /\ s # 4 /\ s # 6 /\ s # 7
      BY <2>4, <2>7, <3>1
    <3> HIDE DEF U
    <3> QED BY <3>2
  <2>8. CASE s = 4
    <3>1. s \in DOMAIN uinit(c) /\ uinit(c)[s] = "curve_unroll"
      BY <2>2, <2>3, <2>8
    <3> QED BY <2>4, <2>8, <3>1
  <2>9. CASE s = 6
    <3>1. s \in DOMAIN uinit(c) /\ uinit(c)[s] = "gens_unroll"
      BY <2>2, <2>3, <2>9
    <3> QED BY <2>4, <2>9, <3>1
  <2>10. CASE s = 7
    <3>1. s \in DOMAIN uinit(c) /\ uinit(c)[s] = "points_unroll"
      BY <2>2, <2>3, <2>10
    <3> QED BY <2>4, <2>10, <3>1
  <2> QED BY <2>5, <2>6, <2>7, <2>8, <2>9, <2>10
<1> HIDE DEF j, g, U, K, twist
<1>7. j \in Shape
  <2>1. ASSUME NEW s \in Stage PROVE K(s) \subseteq Int
    <3>1. K(s) = {-3} \/ K(s) = {}
      BY <1>5
    <3> QED BY <3>1
  <2>2. \A s \in Stage : g(s).writes \subseteq Stage /\ g(s).reads \subseteq Stage
    BY <1>2, <1>4
  <2>3. \A s \in Stage : U(s) \subseteq Stage
    BY <1>2, <1>6
  <2>4. refuses \in [Stage -> SUBSET Int] /\ checks \in [Stage -> SUBSET Int]
    BY <1>4, <2>1
  <2>5. /\ writes \in [Stage -> SUBSET Stage] /\ reads \in [Stage -> SUBSET Stage]
        /\ frees \in [Stage -> SUBSET Stage] /\ size \in [Stage -> 0 .. ROOM]
    BY <1>4, <2>2, <2>3
  <2>6. twist \in BOOLEAN
    BY DEF twist
  <2> HIDE DEF refuses, checks, writes, reads, size, frees
  <2> QED BY <1>1, <1>2, <2>4, <2>5, <2>6 DEF Shape
<1>8. /\ j.start = start /\ j.end = end /\ j.twist = twist
      /\ \A s \in Stage :
           /\ j.refuses[s] = g(s).refuses /\ j.checks[s] = K(s)
           /\ j.writes[s] = g(s).writes /\ j.reads[s] = g(s).reads
           /\ j.unrolls[s] = U(s)
  BY <1>1
<1> HIDE DEF refuses, checks, writes, reads, size, frees
<1>9. Plain(j)
  <2> SUFFICES ASSUME NEW s \in Stage
               PROVE  /\ g(s).writes \subseteq {s}
                      /\ U(s) \subseteq s .. METADATA
                      /\ s # SEED => g(s).writes \cap OnHeap \subseteq U(s)
                      /\ \A d \in g(s).refuses \cup K(s) :
                           \/ d = 0 /\ s \in {FIELD, A, B}
                           \/ d < 0 /\ s + d <= FIELD
    BY <1>3, <1>8 DEF Plain
  <2>1. U(s) \subseteq s .. METADATA
    BY <1>6
  <2>2. s # SEED => g(s).writes \cap OnHeap \subseteq U(s)
    BY <1>4, <1>6 DEF OnHeap
  <2>3. \A d \in K(s) : d < 0 /\ s + d <= FIELD
    BY <1>5
  <2> QED BY <1>4, <2>1, <2>2, <2>3
<1>10. ASSUME NEW s \in Span(j)
       PROVE  j.reads[s] \subseteq Found(j, s)
  <2>1. s \in Stage /\ s \in start .. end - 1 /\ start \in 1 .. 7
    BY <1>2, <1>8 DEF Span
  <2>2. CASE s = METADATA
    BY <1>4, <1>8, <2>1, <2>2
  <2>3. CASE s # METADATA
    <3>1. \A r \in start .. s - 1 : r \in j.writes[r]
      BY <1>2, <1>4, <1>8, <2>1, <2>3
    <3>2. 0 .. s - 1 \subseteq Found(j, s)
      BY <1>8, <2>1, <3>1 DEF Found, Callers
    <3> QED BY <1>4, <1>8, <2>1, <3>2
  <2> QED BY <2>2, <2>3
<1>11. FitsTogether(j)
  BY <1>7, <1>8, <1>9, <1>10, PlainFits
<1> QED BY <1>7, <1>11 DEF j

LEMMA OfOriginal ==
  ASSUME NEW c \in InvalidConfigs
  PROVE  LET G == invalid_original_ginit(c) IN
         /\ Ordinary(c, G) /\ DOMAIN G = Stage \ {POINTS}
         /\ \A s \in FIELD .. GENERATORS : G[s] # "gen_skip"
<1> USE DEF SEED, FIELD, A, B, CURVE, ORDER, GENERATORS, POINTS, METADATA
<1> DEFINE S == Stages("gen_skip", FieldOf(c), AOf(c), BOf(c), "order_gen_any", "gens_gen_any")
           V == At(METADATA, "gen_skip")
           W == At(CURVE, "curve_gen_any")
           M == Over(V, S)
           G == Over(W, M)
<1>1. invalid_original_ginit(c) = G
  BY DEF invalid_original_ginit
<1>2. /\ DOMAIN S = {0, 1, 2, 3, 5, 6}
      /\ S[0] = "gen_skip" /\ S[1] = FieldOf(c) /\ S[2] = AOf(c) /\ S[3] = BOf(c)
      /\ S[5] = "order_gen_any" /\ S[6] = "gens_gen_any"
  BY OfStages
<1>3. /\ DOMAIN V = {8} /\ V[8] = "gen_skip"
      /\ DOMAIN W = {4} /\ W[4] = "curve_gen_any"
  BY DEF At
<1>4. /\ FieldOf(c) \in Fields /\ FieldOf(c) # "gen_skip"
      /\ AOf(c) \in As /\ AOf(c) # "gen_skip"
      /\ BOf(c) \in Bs /\ BOf(c) # "gen_skip"
  BY DEF FieldOf, AOf, BOf, Fields, As, Bs
<1> HIDE DEF S, V, W
<1>5. DOMAIN M = {0, 1, 2, 3, 5, 6, 8} /\ M[8] = V[8] /\ \A s \in DOMAIN S : M[s] = S[s]
  BY <1>2, <1>3 DEF Over
<1> HIDE DEF M
<1>6. DOMAIN G = {0, 1, 2, 3, 4, 5, 6, 8} /\ G[4] = W[4] /\ \A s \in DOMAIN M : G[s] = M[s]
  BY <1>3, <1>5 DEF Over
<1> HIDE DEF G
<1>7. DOMAIN G = Stage \ {7}
  BY <1>6 DEF Stage
<1>8. Ordinary(c, G)
  BY <1>2, <1>3, <1>4, <1>5, <1>6, <1>7 DEF Ordinary, Bases
<1>9. \A s \in 1 .. 6 : G[s] # "gen_skip"
  BY <1>2, <1>3, <1>4, <1>5, <1>6
<1> QED BY <1>1, <1>7, <1>8, <1>9

LEMMA OfInvalid ==
  ASSUME NEW c \in InvalidConfigs
  PROVE  LET G == invalid_invalid_ginit(c) IN
         /\ Ordinary(c, G) /\ DOMAIN G = Stage
         /\ \A s \in B .. POINTS : G[s] # "gen_skip"
<1> USE DEF SEED, FIELD, A, B, CURVE, ORDER, GENERATORS, POINTS, METADATA
<1> DEFINE gens == IF c.unique THEN "gens_gen_one" ELSE "gens_gen_any"
           S == Stages("gen_skip", "gen_skip", "gen_skip", "b_gen_random", "order_gen_any", gens)
           T == [s \in {CURVE, POINTS, METADATA} |->
                   CASE s = CURVE -> "curve_gen_any" [] s = POINTS -> "points_gen_trial"
                     [] s = METADATA -> "gen_skip"]
           G == Over(T, S)
<1>1. invalid_invalid_ginit(c) = G
  BY DEF invalid_invalid_ginit
<1>2. /\ DOMAIN S = {0, 1, 2, 3, 5, 6}
      /\ S[0] = "gen_skip" /\ S[1] = "gen_skip" /\ S[2] = "gen_skip"
      /\ S[3] = "b_gen_random" /\ S[5] = "order_gen_any" /\ S[6] = gens
  BY OfStages
<1>3. DOMAIN T = {4, 7, 8} /\ T[4] = "curve_gen_any" /\ T[7] = "points_gen_trial"
      /\ T[8] = "gen_skip"
  OBVIOUS
<1>4. gens \in Bases /\ gens # "gen_skip"
  BY DEF Bases
<1> HIDE DEF S, T, gens
<1>5. /\ DOMAIN G = {0, 1, 2, 3, 4, 5, 6, 7, 8}
      /\ \A s \in DOMAIN T : G[s] = T[s]
      /\ \A s \in DOMAIN S : G[s] = S[s]
  BY <1>2, <1>3 DEF Over
<1> HIDE DEF G
<1>6. DOMAIN G = Stage
  BY <1>5 DEF Stage
<1>7. Ordinary(c, G)
  BY <1>2, <1>3, <1>4, <1>5, <1>6 DEF Ordinary, Bs
<1>8. \A s \in 3 .. 7 : G[s] # "gen_skip"
  BY <1>2, <1>3, <1>4, <1>5
<1> QED BY <1>1, <1>6, <1>7, <1>8

\* The tables invalid_do fills and the stages its drivers run over with them are as
\* Exhaustive assumes of its calls, too.
THEOREM InvalidCallsFit ==
  ASSUME NEW c \in InvalidConfigs, NEW timeout \in BOOLEAN
  PROVE  InvalidCalls(c, timeout) \subseteq {j \in Shape : FitsTogether(j)}
<1> USE DEF SEED, FIELD, A, B, CURVE, ORDER, GENERATORS, POINTS, METADATA, END
<1> DEFINE G == invalid_original_ginit(c)
           H == invalid_invalid_ginit(c)
<1>1. Stage = 0 .. 8
  BY DEF Stage
<1>2. OriginalCall(c, timeout) \in {j \in Shape : FitsTogether(j)}
  <2>1. Ordinary(c, G) /\ DOMAIN G = Stage \ {7} /\ \A s \in 1 .. 6 : G[s] # "gen_skip"
    BY OfOriginal
  <2> HIDE DEF G
  <2>2. 4 \in DOMAIN G /\ \A s \in 1 .. 6 : s \in DOMAIN G /\ G[s] # "gen_skip"
    BY <1>1, <2>1
  <2>3. Call(1, 7, 0, timeout, c.field, G, invalid_cinit, uinit(c))
          \in {j \in Shape : FitsTogether(j)}
    BY <2>1, <2>2, OrdinaryFits
  <2> QED BY <2>3 DEF OriginalCall, G
<1>3. ASSUME NEW k \in {<<3, 6, 0>>, <<6, 7, 1>>, <<7, 9, 0>>}
      PROVE  InvalidCall(c, timeout, k[1], k[2], k[3]) \in {j \in Shape : FitsTogether(j)}
  <2>1. Ordinary(c, H) /\ DOMAIN H = Stage /\ \A s \in 3 .. 7 : H[s] # "gen_skip"
    BY OfInvalid
  <2> HIDE DEF H
  <2>2. /\ k[1] \in 1 .. 7 /\ k[2] \in 1 .. 9 /\ k[3] \in Nat /\ k[1] < k[2]
        /\ k[1] .. k[2] - 1 \subseteq 3 .. 8
    OBVIOUS
  <2>3. \A s \in k[1] .. k[2] - 1 : (s \in DOMAIN H /\ H[s] # "gen_skip") \/ s = 8
    BY <1>1, <2>1, <2>2
  <2>4. 4 \in DOMAIN H
    BY <1>1, <2>1
  <2>5. Call(k[1], k[2], k[3], timeout, c.field, H, invalid_cinit, uinit(c))
          \in {j \in Shape : FitsTogether(j)}
    BY <2>1, <2>2, <2>3, <2>4, OrdinaryFits
  <2> QED BY <2>5 DEF InvalidCall, H
<1>4. /\ InvalidCall(c, timeout, 3, 6, 0) \in {j \in Shape : FitsTogether(j)}
      /\ InvalidCall(c, timeout, 6, 7, 1) \in {j \in Shape : FitsTogether(j)}
      /\ InvalidCall(c, timeout, 7, 9, 0) \in {j \in Shape : FitsTogether(j)}
  BY <1>3
<1> QED BY <1>2, <1>4 DEF InvalidCalls

------------------------------------------------------------------------------
(* The steps.  A table is filled once, from the configuration, and what is   *)
(* used by then is what filling the tables so far reads.                     *)

GinitDone == pc \in {"cinit", "ainit", "uinit", "report", "generate"}
CinitDone == pc \in {"uinit", "report", "generate"} \/ (pc = "ainit" /\ ~ByCm)
AinitDone == pc \in {"uinit", "report", "generate"} \/ (pc = "cinit" /\ ByCm)
UinitDone == pc \in {"report", "generate"}

TypeOK ==
  /\ cfg \in AllConfigs
  /\ pc \in {"ginit", "cinit", "ainit", "uinit", "report", "generate", "refused"}

FilledInv ==
  /\ GinitDone => generators = ginit(cfg) /\ cfg.cm_order # "unfit"
  /\ CinitDone => validators = cinit(cfg)
  /\ AinitDone => gen_argss = ainit(cfg) /\ check_argss = CheckArgs(cfg)
  /\ UinitDone => unrolls = uinit(cfg)

UsedInv ==
  pc # "refused" =>
    used = (IF GinitDone THEN GinitReads(cfg) ELSE {})
             \cup (IF CinitDone THEN CinitReads(cfg) ELSE {})

IgnoredInv ==
  ignored = IF pc = "generate" THEN Given(cfg) \ (GinitReads(cfg) \cup CinitReads(cfg)) ELSE {}

IInv == TypeOK /\ FilledInv /\ UsedInv /\ IgnoredInv

\* The invariant behind the others: each table is the function of the options
\* that fills it, in the order of either driver.
LEMMA Invariant == Spec => []IInv
<1> USE DEF GinitDone, CinitDone, AinitDone, UinitDone, ByCm
<1>1. Init => IInv
  BY ConfigsAssumption DEF Init, IInv, TypeOK, FilledInv, UsedInv, IgnoredInv
<1>2. IInv /\ [Next]_vars => IInv'
  <2> SUFFICES ASSUME IInv, [Next]_vars PROVE IInv'
    OBVIOUS
  <2> USE DEF IInv, TypeOK, FilledInv, UsedInv, IgnoredInv
  <2>1. CASE RefuseOrder
    BY <2>1 DEF RefuseOrder, tables
  <2>2. CASE Ginit
    BY <2>2 DEF Ginit, tables
  <2>3. CASE Cinit
    BY <2>3 DEF Cinit, tables
  <2>4. CASE Ainit
    BY <2>4 DEF Ainit, tables
  <2>5. CASE Uinit
    BY <2>5 DEF Uinit, tables
  <2>6. CASE ReportUnused
    BY <2>6 DEF ReportUnused, tables
  <2>7. CASE UNCHANGED vars
    BY <2>7 DEF vars, tables
  <2> QED BY <2>1, <2>2, <2>3, <2>4, <2>5, <2>6, <2>7 DEF Next, Generate
<1> QED BY <1>1, <1>2, PTL DEF Spec

LEMMA AtGenerate ==
  ASSUME IInv, Ready
  PROVE  /\ cfg \in AllConfigs
         /\ generators = ginit(cfg) /\ validators = cinit(cfg)
         /\ gen_argss = ainit(cfg) /\ check_argss = CheckArgs(cfg)
         /\ unrolls = uinit(cfg)
         /\ ignored = Given(cfg) \ (GinitReads(cfg) \cup CinitReads(cfg))
BY DEF IInv, TypeOK, FilledInv, IgnoredInv, GinitDone, CinitDone, AinitDone, UinitDone, Ready

\* Whatever the options, the stages exhaustive_ginit and cm_ginit put together
\* make a whole curve, and no generator looks at a part not there yet.
THEOREM PartsInOrder == Spec => []CurveAssembled
<1>1. IInv => CurveAssembled
  <2> SUFFICES ASSUME IInv, Ready PROVE CurveAssembled
    BY DEF CurveAssembled
  <2>1. cfg \in AllConfigs /\ generators = ginit(cfg)
    BY AtGenerate
  <2>2. \A s : /\ Assigned(s) = Assigns(cfg, s)
               /\ Generators(cfg.field)[generators[s]].reads = LooksAt(cfg, s)
    BY <2>1 DEF Assigned, Assigns, LooksAt
  <2> QED BY <2>1, <2>2, Assembled DEF CurveAssembled
<1> QED BY <1>1, Invariant, PTL

\* Whatever the options, exhaustive_ainit and cm_ainit leave no generator or
\* validator without the argument it demands, nor with another one's.
THEOREM NoneWithoutArgument == Spec => []ArgumentsPresent
<1>1. IInv => ArgumentsPresent
  <2> SUFFICES ASSUME IInv, Ready, NEW s \in Stage
               PROVE  /\ generators[s] \in NeedsArgument =>
                           gen_argss[s] = Argument[generators[s]]
                      /\ validators[s] \cap NeedsArgument # {} =>
                           check_argss[s] = "hex_check"
    BY DEF ArgumentsPresent, Argument
  <2> QED BY AtGenerate, Present, CheckPresent
<1> QED BY <1>1, Invariant, PTL

\* Whatever the options, exhaustive_uinit has an unroll function for all that
\* the generators of the stages put on the heap.
LEMMA NoneLeftOnHeap == IInv => HeapUnrolled
<1> SUFFICES ASSUME IInv, Ready, NEW s \in SEED .. POINTS
             PROVE  Assigned(s) \cap OnHeap \subseteq Unrolls[unrolls[s]]
  BY DEF HeapUnrolled
<1>1. cfg \in AllConfigs /\ generators = ginit(cfg) /\ unrolls = uinit(cfg)
  BY AtGenerate
<1> QED BY <1>1, Freed DEF Assigned, Assigns

\* Whatever the options, and wherever a generator refuses, a validator rejects or
\* the timer goes off, the tables exhaustive_generate is called with let the engine
\* go back from there and on: they are as Exhaustive assumes of its calls.  What the
\* stages put on the heap has an unroll function.
THEOREM TablesFitTogether == Spec => []TablesFit
<1>1. IInv => TablesFit
  <2> SUFFICES ASSUME IInv, Ready, NEW timeout \in BOOLEAN
               PROVE  GenerateCall(timeout, cfg.field, generators, validators, unrolls)
                        \in {j \in Shape : FitsTogether(j)}
    BY NoneLeftOnHeap DEF TablesFit
  <2> QED BY AtGenerate, Fitted
<1> QED BY <1>1, Invariant, PTL

------------------------------------------------------------------------------
(* The warnings.  An option that was given and not read changes nothing in   *)
(* the tables: what each method's tables depend on is what it reads, or      *)
(* cannot be given with it.                                                  *)

\* The two configurations differ in nothing the tables of the first depend on.
Unaffected(c, d) ==
  /\ d.method = c.method /\ d.seed_algo = c.seed_algo
  /\ d.family = c.family /\ d.cm_order = c.cm_order
  /\ d.points = c.points /\ d.metadata = c.metadata /\ d.hex_check = c.hex_check
  /\ d.unique = c.unique \/ c.method = "family"
  /\ d.order = c.order \/ c.method \in CmMethods \cup {"family"}
  /\ \/ d.random = c.random
     \/ c.method = "cm"
     \/ c.seed_algo \in {"brainpool", "brainpool_rfc"} /\ c.seed /\ d.seed
  /\ d.koblitz = c.koblitz \/ c.method \notin {"default", "twist"}
  /\ d.seed = c.seed \/ c.seed_algo \in {"none", "nums"}

Keys ==
  {"method", "field", "seed_algo", "seed", "random", "order", "koblitz", "unique",
   "hex_check", "points", "metadata", "family", "cm_order"}

LEMMA Ignorable ==
  ASSUME NEW c \in AllConfigs, NEW o \in Given(c) \ (GinitReads(c) \cup CinitReads(c))
  PROVE  Unaffected(c, Without(c, o))
<1> DEFINE d == Without(c, o)
<1>1. /\ o \in Given(c) /\ o \notin GinitReads(c)
      /\ c.method \notin CmMethods => o \notin {"seed_algo"}
  BY DEF CinitReads
<1>2. DOMAIN c = Keys
  BY DEF AllConfigs, Keys
<1>3. /\ (c.method = "seed") = (c.seed_algo # "none")
      /\ c.seed => c.seed_algo # "none"
      /\ c.seed_algo = "nums" => c.random = {}
  BY DEF AllConfigs
<1>4. CASE o \in {"prime", "cofactor", "smooth"}
  <2>1. d = [c EXCEPT !.order = "none"]
    BY <1>4 DEF Without
  <2>2. c.order = o
    BY <1>1, <1>4 DEF Given
  <2>3. o \in OrderReads(c)
    BY <1>4, <2>2 DEF OrderReads
  <2>4. c.method \in CmMethods \cup {"family"}
    BY <1>1, <1>3, <2>3 DEF GinitReads, SeedReads, NormalReads
  <2> HIDE DEF d
  <2>5. /\ d.method = c.method /\ d.seed_algo = c.seed_algo /\ d.seed = c.seed
        /\ d.random = c.random /\ d.koblitz = c.koblitz /\ d.unique = c.unique
        /\ d.hex_check = c.hex_check /\ d.points = c.points /\ d.metadata = c.metadata
        /\ d.family = c.family /\ d.cm_order = c.cm_order
    BY <1>2, <2>1 DEF Keys
  <2> QED BY <2>4, <2>5 DEF Unaffected, d
<1>5. CASE o = "random"
  <2>1. d = [c EXCEPT !.random = {}]
    BY <1>5 DEF Without
  <2>2. c.random # {}
    BY <1>1, <1>5, Configured DEF Given
  <2>3. c.method = "cm" \/ (c.seed_algo \in {"brainpool", "brainpool_rfc"} /\ c.seed)
    <3>1. c.method # "cm" => c.method \notin CmMethods
      BY <1>1, <1>5 DEF GinitReads, CmReads
    <3>2. c.method # "cm" => c.seed_algo # "none" /\ "random" \notin SeedReads(c)
      BY <1>1, <1>5, <3>1 DEF GinitReads, NormalReads
    <3> QED BY <1>3, <2>2, <3>2, Configured DEF SeedReads
  <2> HIDE DEF d
  <2>4. /\ d.method = c.method /\ d.seed_algo = c.seed_algo /\ d.seed = c.seed
        /\ d.order = c.order /\ d.koblitz = c.koblitz /\ d.unique = c.unique
        /\ d.hex_check = c.hex_check /\ d.points = c.points /\ d.metadata = c.metadata
        /\ d.family = c.family /\ d.cm_order = c.cm_order
    BY <1>2, <2>1 DEF Keys
  <2> QED BY <2>3, <2>4 DEF Unaffected, d
<1>6. CASE o \in {"koblitz", "koblitz_value"}
  <2>1. \E k : d = [c EXCEPT !.koblitz = k]
    BY <1>6 DEF Without
  <2>2. o = "koblitz_value" => c.koblitz # "none"
    BY <1>1, Configured DEF Given
  <2>3. c.method \notin {"default", "twist"}
    BY <1>1, <1>3, <1>6, <2>2 DEF GinitReads, NormalReads, CmMethods
  <2> HIDE DEF d
  <2>4. /\ d.method = c.method /\ d.seed_algo = c.seed_algo /\ d.seed = c.seed
        /\ d.random = c.random /\ d.order = c.order /\ d.unique = c.unique
        /\ d.hex_check = c.hex_check /\ d.points = c.points /\ d.metadata = c.metadata
        /\ d.family = c.family /\ d.cm_order = c.cm_order
    BY <1>2, <2>1 DEF Keys
  <2> QED BY <2>3, <2>4 DEF Unaffected, d
<1>7. CASE o = "seed"
  <2>1. d = [c EXCEPT !.seed = FALSE]
    BY <1>7 DEF Without
  <2>2. c.seed_algo = "nums"
    <3>1. c.seed
      BY <1>1, <1>7, Configured DEF Given
    <3> QED BY <1>1, <1>3, <1>7, <3>1 DEF GinitReads, SeedReads, CmMethods
  <2> HIDE DEF d
  <2>3. /\ d.method = c.method /\ d.seed_algo = c.seed_algo /\ d.random = c.random
        /\ d.order = c.order /\ d.koblitz = c.koblitz /\ d.unique = c.unique
        /\ d.hex_check = c.hex_check /\ d.points = c.points /\ d.metadata = c.metadata
        /\ d.family = c.family /\ d.cm_order = c.cm_order
    BY <1>2, <2>1 DEF Keys
  <2> QED BY <2>2, <2>3 DEF Unaffected, d
<1>8. CASE o = "unique"
  <2>1. d = [c EXCEPT !.unique = FALSE]
    BY <1>8 DEF Without
  <2>2. c.method = "family"
    BY <1>1, <1>8 DEF GinitReads, SeedReads, NormalReads, CmReads, GensReads
  <2> HIDE DEF d
  <2>3. /\ d.method = c.method /\ d.seed_algo = c.seed_algo /\ d.seed = c.seed
        /\ d.random = c.random /\ d.order = c.order /\ d.koblitz = c.koblitz
        /\ d.hex_check = c.hex_check /\ d.points = c.points /\ d.metadata = c.metadata
        /\ d.family = c.family /\ d.cm_order = c.cm_order
    BY <1>2, <2>1 DEF Keys
  <2> QED BY <2>2, <2>3 DEF Unaffected, d
<1>9. CASE o \notin {"prime", "cofactor", "smooth", "random", "koblitz", "koblitz_value",
                     "seed", "unique"}
  <2>1. d = c
    BY <1>9 DEF Without
  <2> QED BY <2>1 DEF Unaffected
<1> QED BY <1>4, <1>5, <1>6, <1>7, <1>8, <1>9

LEMMA SameMethodStages ==
  ASSUME NEW c \in AllConfigs, NEW d, Unaffected(c, d)
  PROVE  MethodStages(d) = MethodStages(c)
<1> USE DEF Unaffected
<1>1. \/ c.method \in CmMethods
      \/ c.method = "family"
      \/ c.method \in {"default", "twist"} /\ c.seed_algo = "none"
      \/ /\ c.method = "seed"
         /\ c.seed_algo \in {"ansi", "brainpool", "brainpool_rfc", "nums"}
  BY Configured DEF CmMethods
<1>2. CASE c.method \in CmMethods
  <2>1. c.method # "cm" => FieldOf(d) = FieldOf(c)
    BY <1>2, Configured DEF FieldOf, CmMethods
  <2>2. CmStages(d) = CmStages(c)
    BY <1>2, <2>1 DEF CmStages, CmMethods
  <2> QED BY <1>2, <2>2 DEF MethodStages
<1>3. CASE c.method = "family"
  <2>1. c.seed_algo = "none"
    BY <1>3, Configured
  <2>2. FamilyStages(d) = FamilyStages(c)
    BY <1>3, <2>1 DEF FamilyStages
  <2> QED BY <1>3, <2>1, <2>2 DEF MethodStages, CmMethods
<1>4. CASE c.method \in {"default", "twist"} /\ c.seed_algo = "none"
  <2>1. /\ d.random = c.random /\ d.koblitz = c.koblitz
        /\ d.order = c.order /\ d.unique = c.unique
    BY <1>4 DEF CmMethods
  <2>2. /\ FieldOf(d) = FieldOf(c) /\ AOf(d) = AOf(c) /\ BOf(d) = BOf(c)
        /\ Gens(d) = Gens(c)
        /\ \A otherwise : Order(d, otherwise) = Order(c, otherwise)
    BY <2>1 DEF FieldOf, AOf, BOf, Gens, Order
  <2>3. NormalStages(d) = NormalStages(c)
    BY <2>1, <2>2 DEF NormalStages
  <2> QED BY <1>4, <2>3 DEF MethodStages, CmMethods
<1>5. CASE /\ c.method = "seed"
           /\ c.seed_algo \in {"ansi", "brainpool", "brainpool_rfc", "nums"}
  <2>1. SeedStages(d) = SeedStages(c)
    <3>1. CASE c.seed_algo = "ansi"
      <4>1. /\ d.random = c.random /\ d.seed = c.seed
            /\ d.order = c.order /\ d.unique = c.unique
        BY <1>5, <3>1 DEF CmMethods
      <4>2. /\ FieldOf(d) = FieldOf(c) /\ Gens(d) = Gens(c)
            /\ \A otherwise : Order(d, otherwise) = Order(c, otherwise)
            /\ \A a, r, i : Seed(d, a, r, i) = Seed(c, a, r, i)
        BY <4>1 DEF FieldOf, Gens, Order, Seed
      <4> QED BY <3>1, <4>2 DEF SeedStages
    <3>2. CASE c.seed_algo \in {"brainpool", "brainpool_rfc"}
      <4>1. d.seed = c.seed /\ (c.seed \/ d.random = c.random)
        BY <1>5, <3>2 DEF CmMethods
      <4>2. \A a, r, i : Seed(d, a, r, i) = Seed(c, a, r, i)
        BY <4>1 DEF Seed
      <4> QED BY <3>2, <4>2 DEF SeedStages
    <3>3. CASE c.seed_algo = "nums"
      BY <3>3 DEF SeedStages
    <3> QED BY <1>5, <3>1, <3>2, <3>3
  <2> QED BY <1>5, <2>1 DEF MethodStages, CmMethods
<1> QED BY <1>1, <1>2, <1>3, <1>4, <1>5

LEMMA SameArguments ==
  ASSUME NEW c \in AllConfigs, NEW d, Unaffected(c, d),
         NEW s \in Stage, ginit(c)[s] \in NeedsArgument
  PROVE  ainit(d)[s] = ainit(c)[s]
<1> USE DEF Unaffected
<1>1. \A e \in {c, d} :
        ainit(e)[s] = IF s = POINTS /\ e.points \in {"random", "n_random"} THEN "points"
                      ELSE IF e.method \in CmMethods THEN CmArguments(e)[s]
                      ELSE CASE s \in {ORDER, GENERATORS} /\ e.order = "cofactor" -> "cofactor"
                             [] s = ORDER /\ e.order = "smooth" -> "smooth"
                             [] OTHER -> "none"
  BY DEF ainit
<1>2. CmArguments(d) = CmArguments(c)
  BY DEF CmArguments
<1>3. CASE c.method \in CmMethods \/ d.order = c.order
  BY <1>1, <1>2, <1>3
\* A family's own order and generators take no argument.
<1>4. CASE c.method = "family"
  <2>1. ~(s = ORDER) /\ ~(s = GENERATORS)
    <3> DEFINE b == IF c.family = "cm" THEN "family_gen_equation_cm"
                                       ELSE "family_gen_equation_iter"
               seed == IF c.random # {} THEN "family_gen_seed_random"
                                        ELSE "family_gen_seed_input"
               M == Stages(seed, "family_gen_field", "gen_skip", b, "family_gen_order",
                           "gens_gen_any")
    <3>1. ginit(c) = Over(M, CommonStages(c))
      BY <1>4, Configured DEF ginit, MethodStages, FamilyStages, CmMethods
    <3>2. /\ ORDER \in DOMAIN M /\ M[ORDER] = "family_gen_order"
          /\ GENERATORS \in DOMAIN M /\ M[GENERATORS] = "gens_gen_any"
      BY OfStages
    <3> HIDE DEF M
    <3>3. \A r \in DOMAIN M : Over(M, CommonStages(c))[r] = M[r]
      BY DEF Over
    <3> QED BY <3>1, <3>2, <3>3 DEF NeedsArgument
  <2> QED BY <1>1, <1>2, <1>4, <2>1 DEF CmMethods
<1> QED BY <1>3, <1>4

LEMMA SameEffect ==
  ASSUME NEW c \in AllConfigs, NEW d, Unaffected(c, d)
  PROVE  Effect(c) = Effect(d)
<1>1. ginit(d) = ginit(c)
  <2>1. CommonStages(d) = CommonStages(c)
    BY DEF CommonStages, Unaffected
  <2> QED BY <2>1, SameMethodStages DEF ginit
<1>2. cinit(d) = cinit(c)
  BY DEF cinit, Unaffected
<1>3. \A s \in Stage : ginit(c)[s] \in NeedsArgument => ainit(d)[s] = ainit(c)[s]
  BY SameArguments
<1> QED BY <1>1, <1>2, <1>3 DEF Effect

\* Whatever the options, config_report_unused calls none ignored that would
\* have changed how the curves are generated.
THEOREM NoFalseWarning == Spec => []WarningTruthful
<1>1. IInv => WarningTruthful
  <2> SUFFICES ASSUME IInv, Ready, NEW o \in ignored
               PROVE  Effect(cfg) = Effect(Without(cfg, o))
    BY DEF WarningTruthful
  <2>1. /\ cfg \in AllConfigs
        /\ o \in Given(cfg) \ (GinitReads(cfg) \cup CinitReads(cfg))
    BY AtGenerate
  <2> QED BY <2>1, Ignorable, SameEffect
<1> QED BY <1>1, Invariant, PTL
================================================================================
