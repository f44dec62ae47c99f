---------------------------- MODULE ExhaustiveTables ---------------------------
(***************************************************************************)
(* The tables the generation engine runs on, as functions of the command   *)
(* line: what exhaustive_ginit, cinit, ainit and uinit fill in, and for the *)
(* methods of cm/ cm_ginit, cm_cinit and cm_ainit, and which options they  *)
(* read on the way.                                                        *)
(***************************************************************************)
EXTENDS ExhaustiveStages, ExhaustiveCalls

Option == {"field", "method", "random", "prime", "cofactor", "smooth", "koblitz",
           "koblitz_value", "seed_algo", "seed", "unique", "hex_check", "points",
           "metadata", "cm_order"}

CmMethods == {"cm", "anomalous", "supersingular"}   \* the methods of cm_do

\* What cli_parse can leave in cfg and cli_end lets through, for the methods
\* that use this module's tables.  `order` is the one of prime, cofactor and
\* smooth that was given; "cm" stands for the families whose curve comes from
\* complex multiplication (KSS16, KSS40), "iter" for the others; `cm_order` is
\* the order asked for: a prime, another number, or one that cm_init refuses.  A
\* seed given with one seeded method stays when another is given after it.
AllConfigs ==
  {c \in [method    : {"default", "twist", "seed", "family"} \cup CmMethods,
          field     : {"prime", "binary"},
          seed_algo : {"none", "ansi", "brainpool", "brainpool_rfc", "nums"},
          seed      : BOOLEAN,
          random    : SUBSET {"seed", "field", "a", "b"},
          order     : {"none", "prime", "cofactor", "smooth"},
          koblitz   : {"none", "default", "0", "1"},
          unique    : BOOLEAN,
          hex_check : BOOLEAN,
          points    : {"default", "prime", "nonprime", "random", "n_random", "all", "none"},
          metadata  : BOOLEAN,
          family    : {"none", "iter", "cm"},
          cm_order  : {"none", "prime", "composite", "unfit"}] :
     /\ (c.method = "seed") = (c.seed_algo # "none")
     /\ (c.method = "family") = (c.family # "none")
     /\ (c.method = "cm") = (c.cm_order # "none")
     /\ c.seed => c.seed_algo # "none"
     /\ c.field = "binary" => /\ c.method \notin CmMethods \cup {"family"}
                              /\ c.seed_algo \in {"none", "ansi"}
     /\ c.method = "anomalous" => c.random # {}
     /\ c.seed_algo = "nums" => c.random = {}}

\* cfg_set: the options given on the command line.
Given(c) ==
  {"field"} \cup {o \in Option :
    \/ o = "method" /\ c.method # "default"
    \/ o = "seed_algo" /\ c.seed_algo # "none"
    \/ o = "seed" /\ c.seed
    \/ o = "random" /\ c.random # {}
    \/ o = c.order
    \/ o = "koblitz" /\ c.koblitz # "none"
    \/ o = "koblitz_value" /\ c.koblitz \in {"0", "1"}
    \/ o = "unique" /\ c.unique
    \/ o = "hex_check" /\ c.hex_check
    \/ o = "points" /\ c.points # "default"
    \/ o = "metadata" /\ c.metadata
    \/ o = "cm_order" /\ c.cm_order # "none"}

------------------------------------------------------------------------------
(* exhaustive_ginit: the generator of each stage, and the options it reads.  *)

Order(c, otherwise) ==
  IF c.order = "none" THEN otherwise
  ELSE [prime |-> "order_gen_prime", cofactor |-> "order_gen_cofactor",
        smooth |-> "order_gen_smooth"][c.order]

\* Fault: the other two are not read.
OrderReadsOne(c) == {"prime"}

\* GET_BOOL stops at the first of the three that was given.
OrderReads(c) ==
  CASE c.order = "prime" -> {"prime"}
    [] c.order = "cofactor" -> {"prime", "cofactor"}
    [] OTHER -> {"prime", "cofactor", "smooth"}

Gens(c) ==
  IF c.unique THEN "gens_gen_one"
  ELSE IF c.order = "cofactor" THEN "gens_gen_cofactor" ELSE "gens_gen_any"

GensReads(c) == IF c.unique THEN {"unique"} ELSE {"unique", "cofactor"}

\* Fault: without --random the field is left out.
FieldIfRandom(c) == IF "field" \in c.random THEN "field_gen_random" ELSE "gen_skip"

FieldOf(c) == IF "field" \in c.random THEN "field_gen_random" ELSE "field_gen_input"

AOf(c) == IF "a" \in c.random THEN "a_gen_random" ELSE "a_gen_input"

BOf(c) == IF "b" \in c.random THEN "b_gen_random" ELSE "b_gen_input"

\* The generators of stages SEED to GENERATORS, without CURVE.
Stages(seed, field, a, b, order, gens) ==
  [s \in {SEED, FIELD, A, B, ORDER, GENERATORS} |->
     CASE s = SEED -> seed [] s = FIELD -> field [] s = A -> a [] s = B -> b
       [] s = ORDER -> order [] s = GENERATORS -> gens]

Seed(c, argument, random, input) ==
  IF c.seed THEN argument ELSE IF "seed" \in c.random THEN random ELSE input

SeedStages(c) ==
  CASE c.seed_algo = "ansi" ->
         Stages(Seed(c, "ansi_gen_seed_argument", "ansi_gen_seed_random",
                        "ansi_gen_seed_input"),
                FieldOf(c), "gen_skip", "ansi_gen_equation",
                Order(c, "order_gen_any"), Gens(c))
    [] c.seed_algo = "brainpool" ->
         Stages(Seed(c, "brainpool_gen_seed_argument", "brainpool_gen_seed_random",
                        "brainpool_gen_seed_input"),
                "brainpool_gen_field", "gen_skip", "brainpool_gen_equation",
                "order_gen_prime", "brainpool_gen_gens")
    [] c.seed_algo = "brainpool_rfc" ->
         Stages(Seed(c, "brainpool_rfc_gen_seed_argument",
                        "brainpool_rfc_gen_seed_random", "brainpool_rfc_gen_seed_input"),
                "brainpool_gen_field", "gen_skip", "brainpool_rfc_gen_equation",
                "order_gen_prime", "brainpool_gen_gens")
    [] c.seed_algo = "nums" ->
         Stages("gen_skip", "nums_gen_field", "nums_gen_a", "nums_gen_b",
                "nums_gen_order", "nums_gen_gens")

SeedReads(c) ==
  OrderReads(c) \cup GensReads(c)
    \cup (IF c.seed_algo = "nums" THEN {} ELSE {"seed"})
    \cup (IF c.seed_algo = "ansi" \/ (c.seed_algo # "nums" /\ ~c.seed)
          THEN {"random"} ELSE {})

FamilyStages(c) ==
  Stages(IF c.random # {} THEN "family_gen_seed_random" ELSE "family_gen_seed_input",
         "family_gen_field", "gen_skip",
         IF c.family = "cm" THEN "family_gen_equation_cm"
                            ELSE "family_gen_equation_iter",
         "family_gen_order", "gens_gen_any")

NormalStages(c) ==
  LET koblitz == c.koblitz # "none" IN
  Stages("gen_skip", FieldOf(c),
         IF koblitz THEN IF c.koblitz = "1" THEN "a_gen_one" ELSE "a_gen_zero" ELSE AOf(c),
         IF koblitz THEN "b_gen_one" ELSE BOf(c),
         Order(c, IF koblitz THEN "order_gen_koblitz" ELSE "order_gen_any"),
         Gens(c))

NormalReads(c) ==
  {"random", "koblitz"} \cup OrderReads(c) \cup GensReads(c)
    \cup (IF c.koblitz # "none" THEN {"koblitz_value"} ELSE {})

\* The stages every method fills the same way.
CommonStages(c) ==
  [s \in {CURVE, METADATA, POINTS} |->
     CASE s = CURVE -> IF c.method = "twist" THEN "curve_gen_any_twist" ELSE "curve_gen_any"
       [] s = METADATA -> IF c.metadata THEN "metadata_gen" ELSE "gen_skip"
       [] s = POINTS -> [default  |-> "points_gen_prime",  prime  |-> "points_gen_prime",
                         nonprime |-> "points_gen_nonprime",
                         random   |-> "point_gen_random",
                         n_random |-> "points_gen_random",
                         all      |-> "points_gen_allgroups",
                         none     |-> "gen_skip"][c.points]]

At(s, generator) == [t \in {s} |-> generator]

\* What either table has; of both, what the first has.
Over(f, g) == [s \in DOMAIN f \cup DOMAIN g |-> IF s \in DOMAIN f THEN f[s] ELSE g[s]]

\* cm_ginit: a prime order has points of its own choice.
CmStages(c) ==
  LET gens == IF c.unique THEN "gens_gen_one" ELSE "gens_gen_any" IN
  CASE c.method = "cm" ->
         LET curve == At(CURVE, IF c.cm_order = "prime" THEN "cm_gen_curve_prime"
                                ELSE IF c.unique THEN "cm_gen_curve_unique"
                                ELSE "cm_gen_curve_any")
             points == IF c.cm_order = "prime" THEN At(POINTS, "points_gen_prime") ELSE <<>>
         IN  Over(points, Over(curve,
               Stages("gen_skip", "gen_skip", "gen_skip", "gen_skip", "cm_gen_order", gens)))
    [] c.method = "anomalous" ->
         Stages("gen_skip", "anomalous_gen_field", "gen_skip", "anomalous_gen_equation",
                "anomalous_gen_order", gens)
    [] c.method = "supersingular" ->
         Stages("gen_skip", FieldOf(c), "gen_skip", "supersingular_gen_equation",
                "supersingular_gen_order", gens)

CmReads(c) ==
  {"unique"} \cup IF c.method = "cm" THEN {"cm_order"} ELSE {"random"}

MethodStages(c) ==
  IF c.method \in CmMethods THEN CmStages(c)
  ELSE IF c.seed_algo # "none" THEN SeedStages(c)
  ELSE IF c.method = "family" THEN FamilyStages(c) ELSE NormalStages(c)

ginit(c) == Over(MethodStages(c), CommonStages(c))

GinitReads(c) ==
  {"field", "method", "metadata", "points"}
    \cup IF c.method \in CmMethods THEN CmReads(c)
         ELSE {"seed_algo"} \cup
              IF c.seed_algo # "none" THEN SeedReads(c)
              ELSE IF c.method = "family" THEN {"random"} ELSE NormalReads(c)

------------------------------------------------------------------------------
(* exhaustive_cinit, exhaustive_ainit and exhaustive_uinit.                  *)

\* The validators of each stage.
cinit(c) ==
  [s \in Stage |->
    CASE s = CURVE -> {"curve_check_nonzero"}
      [] s = ORDER /\ c.seed_algo \in {"brainpool", "brainpool_rfc"} ->
           {"brainpool_check_order"}
      [] s = GENERATORS /\ c.seed_algo \in {"brainpool", "brainpool_rfc", "nums"} ->
           {"gens_check_anomalous", "brainpool_check_gens"}
      [] s = POINTS /\ c.hex_check -> {"hex_check_param"}
      [] OTHER -> {}]

CinitReads(c) ==
  IF c.method \in CmMethods THEN {"hex_check"} ELSE {"hex_check", "method", "seed_algo"}

\* cm_ainit, points apart: the order, and the row of the table of discriminants.
CmArguments(c) ==
  [s \in Stage |->
    CASE c.method = "cm" /\ s \in {CURVE, ORDER} -> "cm_order"
      [] c.method = "anomalous" /\ s \in {FIELD, B} -> "index"
      [] OTHER -> "none"]

\* Fault: gens_gen_cofactor is forgotten.
AinitOrder(c) ==
  [s \in Stage |->
    IF s = POINTS /\ c.points \in {"random", "n_random"} THEN "points"
    ELSE IF c.method \in CmMethods THEN CmArguments(c)[s]
    ELSE CASE s = ORDER /\ c.order = "cofactor" -> "cofactor"
           [] s = ORDER /\ c.order = "smooth" -> "smooth"
           [] OTHER -> "none"]

\* The option whose value a stage's generator is handed, if any.
ainit(c) ==
  [s \in Stage |->
    IF s = POINTS /\ c.points \in {"random", "n_random"} THEN "points"
    ELSE IF c.method \in CmMethods THEN CmArguments(c)[s]
    ELSE CASE s \in {ORDER, GENERATORS} /\ c.order = "cofactor" -> "cofactor"
           [] s = ORDER /\ c.order = "smooth" -> "smooth"
           [] OTHER -> "none"]

CheckArgs(c) ==
  [s \in Stage |-> IF s = POINTS /\ c.hex_check THEN "hex_check" ELSE "none"]

\* No entry for METADATA.
uinit(c) ==
  [s \in SEED .. POINTS |->
    CASE s = SEED /\ (c.seed_algo # "none" \/ c.method = "family") -> "seed_unroll"
      [] s = CURVE -> "curve_unroll"
      [] s = GENERATORS -> "gens_unroll"
      [] s = POINTS -> "points_unroll"
      [] OTHER -> "unroll_skip"]

------------------------------------------------------------------------------
(* invalid_do: the tables of the curve to invalidate and of the invalid      *)
(* curves.  They have the validator in common, and uinit.                    *)

\* What it looks at of the configuration.
InvalidConfigs ==
  [method : {"invalid"}, seed_algo : {"none"}, field : {"prime", "binary"},
   random : SUBSET {"seed", "field", "a", "b"}, unique : BOOLEAN]

\* No entry for POINTS.
invalid_original_ginit(c) ==
  Over(At(CURVE, "curve_gen_any"),
       Over(At(METADATA, "gen_skip"),
            Stages("gen_skip", FieldOf(c), AOf(c), BOf(c), "order_gen_any", "gens_gen_any")))

invalid_invalid_ginit(c) ==
  Over([s \in {CURVE, POINTS, METADATA} |->
          CASE s = CURVE -> "curve_gen_any" [] s = POINTS -> "points_gen_trial"
            [] s = METADATA -> "gen_skip"],
       Stages("gen_skip", "gen_skip", "gen_skip", "b_gen_random", "order_gen_any",
              IF c.unique THEN "gens_gen_one" ELSE "gens_gen_any"))

invalid_cinit == [s \in Stage |-> IF s = CURVE THEN {"curve_check_nonzero"} ELSE {}]

------------------------------------------------------------------------------
(* The calls of the engine.  Of a stage without an entry there is nothing to *)
(* say: a call goes over no such stage, or has nothing to unroll there.      *)

Call(start, end, retry, timeout, field, generators, validators, unrolls) ==
  LET g == [s \in Stage |-> IF s \in DOMAIN generators THEN Generators(field)[generators[s]]
                            ELSE Generator({}, {}, {}, 0)] IN
  [start   |-> start, end |-> end, retry |-> retry, timeout |-> timeout,
   refuses |-> [s \in Stage |-> g[s].refuses],
   checks  |-> [s \in Stage |-> {Checks[v] : v \in validators[s]}],
   writes  |-> [s \in Stage |-> g[s].writes],
   reads   |-> [s \in Stage |-> g[s].reads],
   size    |-> [s \in Stage |-> g[s].size],
   unrolls |-> [s \in Stage |-> IF s \in DOMAIN unrolls THEN Unrolls[unrolls[s]] ELSE {}],
   twist   |-> generators[CURVE] = "curve_gen_any_twist",
   cached  |-> generators[ORDER] \in UsesCachedOrder]

\* The call of exhaustive_generate, for one curve.
GenerateCall(timeout, field, generators, validators, unrolls) ==
  Call(SEED, END, 0, timeout, field, generators, validators, unrolls)

\* The call of invalid_original_curve.
OriginalCall(c, timeout) ==
  Call(FIELD, POINTS, 0, timeout, c.field, invalid_original_ginit(c), invalid_cinit, uinit(c))

\* Those of either driver for an invalid curve: a curve, its generators in one
\* attempt, its points.
InvalidCall(c, timeout, start, end, retry) ==
  Call(start, end, retry, timeout, c.field, invalid_invalid_ginit(c), invalid_cinit, uinit(c))

InvalidCalls(c, timeout) ==
  {OriginalCall(c, timeout), InvalidCall(c, timeout, B, GENERATORS, 0),
   InvalidCall(c, timeout, GENERATORS, POINTS, 1), InvalidCall(c, timeout, POINTS, END, 0)}

------------------------------------------------------------------------------
(* Comparing configurations.                                                 *)

\* What is left of the tables when arguments no function looks at are dropped.
Effect(c) ==
  <<ginit(c), cinit(c),
    [s \in Stage |-> IF ginit(c)[s] \in NeedsArgument THEN ainit(c)[s] ELSE "none"]>>

Without(c, o) ==
  CASE o \in {"prime", "cofactor", "smooth"} -> [c EXCEPT !.order = "none"]
    [] o = "random" -> [c EXCEPT !.random = {}]
    [] o = "koblitz" -> [c EXCEPT !.koblitz = "none"]
    [] o = "koblitz_value" -> [c EXCEPT !.koblitz = "default"]
    [] o = "seed" -> [c EXCEPT !.seed = FALSE]
    [] o = "unique" -> [c EXCEPT !.unique = FALSE]
    [] OTHER -> c
===============================================================================
