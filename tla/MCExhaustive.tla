------------------------------ MODULE MCExhaustive -----------------------------
(* The calls of the engine the program makes, with every set of tables it can  *)
(* make them with.                                                             *)
EXTENDS Exhaustive, ExhaustiveTables

\* As in MCExhaustiveSetup, less the configurations with the same tables.
MCTables ==
  {<<c.field, ginit(c), cinit(c), uinit(c)>> :
     c \in {c \in AllConfigs :
              /\ c.points \in {"default", "none"}
              /\ ~c.metadata /\ c.cm_order # "unfit"
              /\ c.hex_check => c.points = "default" /\ c.order = "none" /\ ~c.unique
                                  /\ c.koblitz = "none"
              /\ c.points = "none" => c.order = "none" /\ ~c.unique /\ c.koblitz = "none"}}

MCGenerate(timeout) ==
  {GenerateCall(timeout, t[1], t[2], t[3], t[4]) : t \in MCTables}

\* The calls of the invalid curve search.
MCDraws == UNION {InvalidCalls(c, TRUE) : c \in InvalidConfigs}

\* Without a timeout a call does nothing it might not do with one.
MCJobs ==
  MCGenerate(TRUE) \cup MCDraws

\* The search over a random prime field, for the liveness property.
MCLive ==
  UNION {InvalidCalls(c, TRUE) :
           c \in {c \in InvalidConfigs : c.field = "prime" /\ c.random = {"field", "b"}}}

\* Twists.
MCTwists == {j \in MCGenerate(FALSE) : j.twist}
================================================================================
