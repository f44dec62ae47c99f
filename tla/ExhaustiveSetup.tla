---------------------------- MODULE ExhaustiveSetup ----------------------------
(***************************************************************************)
(* exhaustive_do and cm_do, up to the generation: the command line becomes *)
(* the tables of the engine, and the options nobody looked at are          *)
(* reported.  GET and GET_BOOL mark an option used as the tables are       *)
(* filled; config_report_unused warns of those given and never used.       *)
(***************************************************************************)
EXTENDS ExhaustiveTables

CONSTANT Configs   \* the configurations to look at

ASSUME ConfigsAssumption == Configs \subseteq AllConfigs

VARIABLES
  cfg,         \* the configuration
  pc,          \* which table is filled next
  generators, validators, gen_argss, check_argss, unrolls,   \* the tables
  used,        \* cfg_used
  ignored      \* the options warned of

tables == <<generators, validators, gen_argss, check_argss, unrolls>>
vars == <<cfg, pc, tables, used, ignored>>

NULL == <<>>   \* a table not filled yet

Init ==
  /\ cfg \in Configs
  /\ pc = "ginit"
  /\ generators = NULL /\ validators = NULL
  /\ gen_argss = NULL /\ check_argss = NULL /\ unrolls = NULL
  /\ used = {}
  /\ ignored = {}

ByCm == cfg.method \in CmMethods

\* cm_init: the order is no number, too small or too large for the field.
RefuseOrder ==
  /\ pc = "ginit"
  /\ cfg.cm_order = "unfit"
  /\ used' = used \cup {"cm_order"}
  /\ pc' = "refused"
  /\ UNCHANGED <<cfg, tables, ignored>>

Ginit ==
  /\ pc = "ginit"
  /\ cfg.cm_order # "unfit"
  /\ generators' = ginit(cfg)
  /\ used' = used \cup GinitReads(cfg)
  /\ pc' = IF ByCm THEN "ainit" ELSE "cinit"
  /\ UNCHANGED <<cfg, validators, gen_argss, check_argss, unrolls, ignored>>

Cinit ==
  /\ pc = "cinit"
  /\ validators' = cinit(cfg)
  /\ used' = used \cup CinitReads(cfg)
  /\ pc' = IF ByCm THEN "uinit" ELSE "ainit"
  /\ UNCHANGED <<cfg, generators, gen_argss, check_argss, unrolls, ignored>>

Ainit ==
  /\ pc = "ainit"
  /\ gen_argss' = ainit(cfg)
  /\ check_argss' = CheckArgs(cfg)
  /\ pc' = IF ByCm THEN "cinit" ELSE "uinit"
  /\ UNCHANGED <<cfg, generators, validators, unrolls, used, ignored>>

Uinit ==
  /\ pc = "uinit"
  /\ unrolls' = uinit(cfg)
  /\ pc' = "report"
  /\ UNCHANGED <<cfg, generators, validators, gen_argss, check_argss, used, ignored>>

\* config_report_unused
ReportUnused ==
  /\ pc = "report"
  /\ ignored' = Given(cfg) \ used
  /\ pc' = "generate"
  /\ UNCHANGED <<cfg, tables, used>>

\* exhaustive_generate takes over, or the program ends.
Generate == pc \in {"generate", "refused"} /\ UNCHANGED vars

Next == RefuseOrder \/ Ginit \/ Cinit \/ Ainit \/ Uinit \/ ReportUnused \/ Generate

Spec == Init /\ [][Next]_vars

------------------------------------------------------------------------------
(* Properties of the tables exhaustive_generate is called with.              *)

Ready == pc = "generate"

Assigned(s) == Generators(cfg.field)[generators[s]].writes

\* Put together from its stages, a curve has all its parts: whatever the
\* options, each product is assigned by its own stage or a later one, and no
\* generator looks at a part that no earlier stage has assigned.
CurveAssembled ==
  Ready =>
    /\ {FIELD, A, B, CURVE, ORDER, GENERATORS}
         \subseteq UNION {Assigned(s) : s \in Stage}
    /\ \A s \in Stage :
         Generators(cfg.field)[generators[s]].reads
           \subseteq UNION {Assigned(r) : r \in SEED .. s - 1}

\* A generator or validator that demands an argument is handed one, and not one
\* meant for another option: otherwise every attempt would end in INT_MIN.
ArgumentsPresent ==
  Ready =>
    \A s \in Stage :
      /\ generators[s] \in NeedsArgument =>
           gen_argss[s] = [points_gen_random |-> "points",
                           order_gen_cofactor |-> "cofactor",
                           order_gen_smooth |-> "smooth",
                           gens_gen_cofactor |-> "cofactor",
                           cm_gen_curve_any |-> "cm_order",
                           cm_gen_curve_unique |-> "cm_order",
                           cm_gen_curve_prime |-> "cm_order",
                           cm_gen_order |-> "cm_order",
                           anomalous_gen_field |-> "index",
                           anomalous_gen_equation |-> "index"][generators[s]]
      /\ validators[s] \cap NeedsArgument # {} => check_argss[s] = "hex_check"

\* What a generator puts on the heap has an unroll function that frees it, at the
\* stage a call starts with too.
HeapUnrolled ==
  Ready =>
    \A s \in SEED .. POINTS :
      Assigned(s) \cap OnHeap \subseteq Unrolls[unrolls[s]]

\* The tables fit together: however the stages refuse, are rejected or time out,
\* the engine can go back from there and on, and neither reads nor leaks what an
\* earlier pass left in the curve.  This is what the engine demands of its calls.
TablesFit ==
  /\ HeapUnrolled
  /\ Ready => \A timeout \in BOOLEAN :
       GenerateCall(timeout, cfg.field, generators, validators, unrolls)
         \in {j \in Shape : FitsTogether(j)}

\* A warning is true: the curves would be generated in the same way without
\* the option it calls ignored.
WarningTruthful ==
  Ready => \A o \in ignored : Effect(cfg) = Effect(Without(cfg, o))

\* README.md, on options that are ignored so that "some properties of the
\* output curve will be wrong": "If this happens, you will get a warning".  A
\* curve that was to have a cofactor or a smooth order has it, or there was a
\* warning.
IgnoredIsWarned ==
  Ready =>
    /\ cfg.order = "cofactor" => \/ generators[ORDER] = "order_gen_cofactor"
                                 \/ "cofactor" \in ignored
    /\ cfg.order = "smooth" => \/ generators[ORDER] = "order_gen_smooth"
                               \/ "smooth" \in ignored
===============================================================================
