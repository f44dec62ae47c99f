--------------------------- MODULE MCExhaustiveSetup ---------------------------
(* Every configuration the command line allows, with two reductions: the       *)
(* points to generate, the hex check and the metadata are chosen the same way  *)
(* whatever the method, and together with none of the other options.           *)
EXTENDS ExhaustiveSetup

MCConfigs ==
  {c \in AllConfigs :
     \/ c.points = "default" /\ ~c.metadata /\ ~c.hex_check
     \/ c.order = "none" /\ c.koblitz = "none" /\ ~c.unique /\ c.random = {}}
================================================================================
