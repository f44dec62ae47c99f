--------------------------- MODULE ExhaustiveStages ---------------------------
(***************************************************************************)
(* The generators, validators and unroll functions of the stages.  Each is *)
(* named as in the code and abstracted to what the engine of Exhaustive    *)
(* can tell of it: the non-positive differences it may return, the         *)
(* products of the curve_t it assigns, those it looks at, and whether they *)
(* take room on the PARI stack.                                            *)
(***************************************************************************)
EXTENDS Offsets

Generator(refuses, writes, reads, size) ==
  [refuses |-> refuses, writes |-> writes, reads |-> reads, size |-> size]

gen_skip == [gen_skip |-> Generator({}, {}, {}, 0)]

AnsiGenerators(field) ==
  [ansi_gen_seed_random   |-> Generator({}, {SEED}, {}, 1),
   ansi_gen_seed_argument |-> Generator({}, {SEED}, {}, 1),
   ansi_gen_seed_input    |-> Generator({0}, {SEED}, {}, 1),
   ansi_gen_equation      |-> Generator(IF field = "prime" THEN {} ELSE {-3},
                                        {A, B}, {SEED, FIELD}, 1)]

BrainpoolGenerators ==
  [brainpool_gen_seed_random   |-> Generator({}, {SEED}, {}, 0),
   brainpool_gen_seed_argument |-> Generator({}, {SEED}, {}, 0),
   brainpool_gen_seed_input    |-> Generator({0}, {SEED}, {}, 0),
   brainpool_gen_field         |-> Generator({}, {FIELD}, {SEED}, 1),
   brainpool_gen_equation      |-> Generator({}, {A, B}, {SEED, FIELD}, 1),
   brainpool_gen_gens          |-> Generator({}, {GENERATORS}, {SEED, CURVE, ORDER}, 1)]

BrainpoolRFCGenerators ==
  [brainpool_rfc_gen_seed_random   |-> Generator({}, {SEED}, {}, 0),
   brainpool_rfc_gen_seed_argument |-> Generator({}, {SEED}, {}, 0),
   brainpool_rfc_gen_seed_input    |-> Generator({0}, {SEED}, {}, 0),
   brainpool_rfc_gen_equation      |-> Generator({}, {A, B}, {SEED, FIELD}, 1)]

NumsGenerators ==
  [nums_gen_field |-> Generator({}, {FIELD}, {}, 1),
   nums_gen_a     |-> Generator({}, {A}, {FIELD}, 1),
   nums_gen_b     |-> Generator({}, {B}, {FIELD}, 1),
   nums_gen_order |-> Generator({-2}, {ORDER}, {FIELD, CURVE}, 1),
   nums_gen_gens  |-> Generator({}, {GENERATORS}, {FIELD, CURVE, ORDER}, 1)]

FamilyGenerators ==
  [family_gen_seed_random   |-> Generator({}, {SEED}, {}, 1),
   family_gen_seed_input    |-> Generator({}, {SEED}, {}, 1),
   family_gen_field         |-> Generator({-1}, {FIELD}, {SEED}, 1),
   family_gen_equation_iter |-> Generator({}, {A, B}, {FIELD}, 1),
   family_gen_equation_cm   |-> Generator({-3}, {A, B}, {SEED, FIELD}, 1),
   family_gen_order         |-> Generator({-2}, {ORDER}, {SEED, CURVE}, 1)]

\* The curve_t gets its field, a and b together with the curve.
CmGenerators ==
  LET curve(refuses) == Generator(refuses, {FIELD, A, B, CURVE}, {}, 1) IN
  [cm_gen_curve_any    |-> curve({-3}),
   cm_gen_curve_unique |-> curve({-3}),
   cm_gen_curve_prime  |-> curve({}),
   cm_gen_order        |-> Generator({}, {ORDER}, {}, 1)]

AnomalousGenerators ==
  [anomalous_gen_field    |-> Generator({}, {FIELD}, {}, 1),
   anomalous_gen_equation |-> Generator({}, {A, B}, {FIELD}, 1),
   anomalous_gen_order    |-> Generator({}, {ORDER}, {FIELD, CURVE}, 1)]

\* Over the field of two elements there is none; of an odd prime it is not said.
SupersingularGenerators ==
  [supersingular_gen_equation |-> Generator({-2}, {A, B}, {FIELD}, 1),
   supersingular_gen_order    |-> Generator({}, {ORDER}, {FIELD, CURVE}, 1)]

FieldGenerators(field) ==
  [field_gen_random |-> Generator({}, {FIELD}, {}, 1),
   field_gen_input  |-> Generator(IF field = "prime" THEN {0, INT_MIN} ELSE {0},
                                  {FIELD}, {}, 1)]

EquationGenerators ==
  [a_gen_random |-> Generator({}, {A}, {FIELD}, 1),
   a_gen_input  |-> Generator({0, INT_MIN}, {A}, {FIELD}, 1),
   a_gen_zero   |-> Generator({}, {A}, {}, 0),
   a_gen_one    |-> Generator({}, {A}, {}, 0),
   b_gen_random |-> Generator({}, {B}, {FIELD}, 1),
   b_gen_input  |-> Generator({0, INT_MIN}, {B}, {FIELD}, 1),
   b_gen_one    |-> Generator({}, {B}, {}, 0)]

\* A twist puts new values into what earlier stages assigned, and takes the
\* order over from the curve_t if there is one (twist_rand_to).
CurveGenerators ==
  [curve_gen_any       |-> Generator({-3}, {CURVE}, {FIELD, A, B}, 1),
   curve_gen_any_twist |-> Generator({-3}, {FIELD, A, B, CURVE}, {FIELD, A, B}, 1)]

OrderGenerators ==
  [order_gen_any      |-> Generator({}, {ORDER}, {CURVE}, 1),
   order_gen_cofactor |-> Generator({-4}, {ORDER}, {CURVE}, 1),
   order_gen_smooth   |-> Generator({-4}, {ORDER}, {CURVE}, 1),
   order_gen_prime    |-> Generator({-4}, {ORDER}, {CURVE}, 1),
   order_gen_koblitz  |-> Generator({}, {ORDER}, {FIELD, A, CURVE}, 1)]

\* Those that take the order from ellff_get_card, which PARI caches in the
\* curve object, not from a point count of their own.
UsesCachedOrder ==
  {"order_gen_any", "order_gen_cofactor", "order_gen_smooth", "order_gen_koblitz",
   "family_gen_order"}

GensGenerators ==
  [gens_gen_any      |-> Generator({}, {GENERATORS}, {CURVE, ORDER}, 1),
   gens_gen_one      |-> Generator({-5}, {GENERATORS}, {CURVE, ORDER}, 1),
   gens_gen_cofactor |-> Generator({-5}, {GENERATORS}, {CURVE, ORDER}, 1)]

PointGenerators ==
  LET points == Generator({}, {POINTS}, {CURVE, GENERATORS}, 1) IN
  [point_gen_random |-> points, points_gen_random |-> points,
   points_gen_trial |-> points, points_gen_prime |-> points,
   points_gen_allgroups |-> points, points_gen_nonprime |-> points]

\* It returns a negative difference only for a field that is neither prime nor
\* binary.
MetadataGenerators ==
  [metadata_gen |-> Generator({}, {METADATA}, {FIELD, CURVE, ORDER}, 1)]

GeneratorTables(field) ==
  {gen_skip, AnsiGenerators(field), BrainpoolGenerators, BrainpoolRFCGenerators,
   NumsGenerators, FamilyGenerators, CmGenerators, AnomalousGenerators,
   SupersingularGenerators, FieldGenerators(field), EquationGenerators,
   CurveGenerators, OrderGenerators, GensGenerators, PointGenerators,
   MetadataGenerators}

Generators(field) ==
  [g \in UNION {DOMAIN t : t \in GeneratorTables(field)} |->
     (CHOOSE t \in GeneratorTables(field) : g \in DOMAIN t)[g]]

\* HAS_ARG: without an argument these refuse with INT_MIN.
NeedsArgument ==
  {"points_gen_random", "points_gen_trial", "order_gen_cofactor", "order_gen_smooth",
   "gens_gen_cofactor", "hex_check_param", "cm_gen_curve_any", "cm_gen_curve_unique",
   "cm_gen_curve_prime", "cm_gen_order", "anomalous_gen_field", "anomalous_gen_equation"}

\* Fault: a wrong order has the curve built again from the same field.
ChecksNear ==
  [curve_check_nonzero   |-> -3,
   brainpool_check_order |-> -1,
   gens_check_anomalous  |-> -5,
   brainpool_check_gens  |-> -5,
   hex_check_param       |-> FIELD - POINTS]

\* The difference a validator rejects the stage's product with.
Checks ==
  [curve_check_nonzero   |-> -3,
   brainpool_check_order |-> -4,
   gens_check_anomalous  |-> -5,
   brainpool_check_gens  |-> -5,
   hex_check_param       |-> FIELD - POINTS]

\* The products an unroll function frees; the points hang on the generators.
Unrolls ==
  [unroll_skip |-> {}, seed_unroll |-> {SEED}, curve_unroll |-> {CURVE},
   gens_unroll |-> {GENERATORS, POINTS}, points_unroll |-> {POINTS}]
===============================================================================
