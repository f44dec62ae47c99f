---------------------------------- MODULE Program ------------------------------
(***************************************************************************)
(* The program from main to its exit: the streams it opens, the loop that  *)
(* generates and writes cfg->count curves, the generators of the stages    *)
(* that keep something from one call to the next, and the end, at which    *)
(* all of it is given back.  Of the stages after the one that draws there  *)
(* is left that they accept the curve or go back (Exhaustive has them).    *)
(***************************************************************************)
EXTENDS CmSearch, Input

CONSTANTS
  Jobs,        \* the command lines to look at
  Addresses,   \* where curve_new may put a curve object
  MaxB         \* bound: the coefficient b

Kinds == {"input", "binary", "seed", "nums", "family", "any", "unique"}

\* cli: cli_init succeeds.  infile, outfile: "std", a "file", or one that cannot be
\* opened.  fit: the order asked for is one that cm_init takes.
ASSUME JobAssumption ==
  \A j \in Jobs :
    /\ j.kind \in Kinds /\ j.count \in Nat \ {0}
    /\ {j.timeout, j.cli, j.fit} \subseteq BOOLEAN
    /\ {j.infile, j.outfile} \subseteq {"std", "file", "bad"}
ASSUME NullAssumption == NULL \notin Addresses
ASSUME MaxBAssumption == MaxB \in Nat

VARIABLES
  in,        \* what is left of the input
  cache,     \* b of nums.c or of family.c, the curve_t it is for, and its memory
  i,         \* curves of exhaustive_generate
  written,   \* to the output
  open,      \* the streams to be closed
  status     \* what main returns

own == <<in, cache, i, written, open, status>>
vars == <<job, pc, curve, drawn, cmvars, own>>

Cache(b, owner, mem) == [b |-> b, owner |-> owner, mem |-> mem]

Init ==
  /\ job \in Jobs
  /\ pc = "start"
  /\ CmInit
  /\ curve = NULL /\ drawn = 0
  /\ in = job.in
  /\ cache = Cache(0, NULL, "none")
  /\ i = 0 /\ written = <<>> /\ open = {} /\ status = "none"

Keeps(changed) == UNCHANGED changed /\ UNCHANGED <<job, drawn, cmvars>>

------------------------------------------------------------------------------
(* main and exhaustive_generate.                                             *)

\* quit closes an output that was never opened if cli_init fails.
Start ==
  /\ Go("start", IF job.cli THEN "init" ELSE "undefined")
  /\ Keeps(<<curve, own>>)

\* An output that cannot be opened is replaced by stdout, an input is not.
InitStreams ==
  /\ Go("init", IF job.infile = "bad" THEN "quit" ELSE "method")
  /\ open' = (IF job.outfile = "file" THEN {"out"} ELSE {})
             \cup (IF job.infile = "file" THEN {"in"} ELSE {})
  /\ status' = IF job.infile = "bad" THEN "failure" ELSE status
  /\ Keeps(<<curve, in, cache, i, written>>)

IsCm == job.kind \in {"any", "unique"}

\* cm_init refuses an order; nothing has been written then.
Refuse ==
  /\ IsCm /\ ~job.fit
  /\ Go("method", "quit")
  /\ status' = "failure"
  /\ Keeps(<<curve, in, cache, i, written, open>>)

Begin ==
  /\ ~(IsCm /\ ~job.fit)
  /\ Go("method", "loop")
  /\ written' = <<"[">>
  /\ status' = "success"
  /\ Keeps(<<curve, in, cache, i, open>>)

FirstStage ==
  CASE job.kind \in {"input", "binary"} -> "field"
    [] job.kind = "seed" -> "seed"
    [] OTHER -> "draw"

NewCurve ==
  /\ i < job.count
  /\ Go("loop", FirstStage)
  /\ curve' \in Addresses
  /\ Keeps(own)

\* Fault: there is one after every curve.
Separator_always == <<",">>

Separator == IF i # job.count - 1 THEN <<",">> ELSE <<>>

Write ==
  /\ Go("decide", "loop")
  /\ written' = written \o <<"curve">> \o Separator
  /\ curve' = NULL
  /\ i' = i + 1
  /\ Keeps(<<in, cache, open, status>>)

\* Fault: the curve object is left behind.
FreeOnFailure_not(c) == c

FreeOnFailure(c) == NULL

\* INT_MIN of a generator: the curve that is being generated is the last.
Fail ==
  /\ pc' = "end"
  /\ status' = "failure"
  /\ curve' = FreeOnFailure(curve)

End ==
  /\ \/ i = job.count /\ pc = "loop"
     \/ pc = "end"
  /\ pc' = "clear"
  /\ written' = Append(written, "]")
  /\ Keeps(<<curve, in, cache, i, open, status>>)

\* exhaustive_quit or cm_quit.
Clear ==
  /\ Go("clear", "quit")
  /\ cache' = IF IsCm THEN cache ELSE [cache EXCEPT !.mem = "none"]
  /\ min_d' = IF IsCm THEN [min_d EXCEPT !.mem = "none"] ELSE min_d
  /\ min_roots' = IF IsCm THEN [min_roots EXCEPT !.mem = "none"] ELSE min_roots
  /\ UNCHANGED <<job, curve, drawn, min_curve, call, leaked, in, i, written, open, status>>

quit ==
  /\ Go("quit", "exited")
  /\ open' = {}
  /\ Keeps(<<curve, in, cache, i, written, status>>)

------------------------------------------------------------------------------
(* The generators that ask for input.                                        *)

\* A stage with the answer of its generator: again, on, or the end of the curve.
Ask(stage, next, answer) ==
  /\ pc = stage
  /\ in' = answer.in
  /\ \/ answer.diff = 0 /\ pc' = stage /\ UNCHANGED <<curve, status>>
     \/ answer.diff = 1 /\ pc' = next /\ UNCHANGED <<curve, status>>
     \/ answer.diff = INT_MIN /\ Fail
  /\ Keeps(<<cache, i, written, open>>)

AskField ==
  Ask("field", "a", field_gen_input(in, IF job.kind = "input" THEN "prime" ELSE "binary"))
AskA == Ask("a", "b", a_gen_input(in))
AskB == Ask("b", "decide", b_gen_input(in))
AskSeed == \E exact \in BOOLEAN : Ask("seed", "decide", seed_gen_input(in, exact))

------------------------------------------------------------------------------
(* nums_gen_b and family_gen_equation_iter.                                  *)

\* b is 1, 3, 4, ... with nums, and 1, 2, 3, ... with a family.
bn == IF job.kind = "nums" /\ cache.b = 1 THEN 3 ELSE cache.b + 1

Draws(b) ==
  /\ b <= MaxB
  /\ cache' = Cache(b, curve, "live")
  /\ drawn' = b
  /\ UNCHANGED <<job, curve, cmvars, in, i, written, open, status>>

FirstB ==
  /\ job.kind \in {"nums", "family"} /\ cache.mem = "none"
  /\ Go("draw", "decide")
  /\ Draws(1)

\* The old clone is given back before the new one is made.
ReleaseB ==
  /\ job.kind \in {"nums", "family"} /\ cache.mem # "none"
  /\ Go("draw", IF cache.mem = "live" THEN "clone" ELSE "undefined")
  /\ cache' = [cache EXCEPT !.mem = "freed"]
  /\ Keeps(<<curve, in, i, written, open, status>>)

NextB == IF cache.owner = curve THEN bn ELSE 1

CloneB ==
  /\ Go("clone", "decide")
  /\ Draws(NextB)

------------------------------------------------------------------------------
\* A later stage goes back to the one that draws or asks; to the seed, when the
\* equation of ANSI over a binary field comes out with b = 0.
Reject ==
  /\ Go("decide", FirstStage)
  /\ Keeps(<<curve, own>>)

\* The timeout of a stage: back to the first stage, whatever was under way.
Expire ==
  /\ job.timeout /\ curve # NULL /\ pc # "undefined"
  /\ pc' = FirstStage
  /\ call' = NoCall
  /\ UNCHANGED <<job, curve, drawn, min_d, min_roots, min_curve, leaked, own>>

Next ==
  \/ Start \/ InitStreams \/ Refuse \/ Begin \/ NewCurve \/ Write \/ End \/ Clear \/ quit
  \/ AskField \/ AskA \/ AskB \/ AskSeed
  \/ FirstB \/ ReleaseB \/ CloneB
  \/ CmNext /\ UNCHANGED own
  \/ Reject \/ Expire

Asking == AskField \/ AskA \/ AskB

\* The main thread runs; what it reads arrives before its timeout now and then.
Spec == Init /\ [][Next]_vars /\ WF_vars(Next) /\ SF_vars(Asking)

------------------------------------------------------------------------------
Count(x) == Cardinality({k \in 1 .. Len(written) : written[k] = x})

\* What is written is a JSON array: curves with a separator between any two.
IsArray ==
  /\ Count("[") = 1 /\ Head(written) = "["
  /\ Count("]") = 1 /\ written[Len(written)] = "]"
  /\ \A k \in 2 .. Len(written) - 1 :
       written[k] = (IF k % 2 = 0 THEN "curve" ELSE ",")
  /\ Len(written) % 2 = 1 \/ Len(written) = 2

\* Output: the program succeeds with an array of as many curves as were asked for.
\* When it fails it has written fewer, and an array only if there was none: the
\* separator after the last curve is followed by the bracket.
ArrayWritten ==
  pc = "exited" =>
    /\ status \in {"success", "failure"}
    /\ status = "success" => IsArray /\ Count("curve") = job.count
    /\ status = "failure" =>
         \/ written = <<>>
         \/ Count("curve") < job.count /\ (IsArray <=> Count("curve") = 0)

\* Memory: what the curves and the caches held is given back and the streams are
\* closed, on success and on failure; only the roots of an earlier curve object,
\* or of an interrupted call, are lost.  The program does what nothing is said of
\* only after a timeout, without a root for a walked down discriminant, or before
\* it has started.
EverythingFreed ==
  /\ pc = "exited" =>
       /\ curve = NULL /\ open = {}
       /\ {cache.mem, min_d.mem, min_roots.mem} = {"none"}
       /\ ~job.timeout => leaked < job.count
  /\ pc = "undefined" => job.timeout \/ job.kind = "unique" \/ ~job.cli

\* Progress of the caches: whoever asks for the same curve object again gets what
\* comes after all that was drawn for it, and of the discriminants and roots every
\* curve gets what comes after those of the curves before, unless a timeout loses
\* the one that was found last.
Advances ==
  [][pc # "decide" /\ pc' = "decide" /\ (IsCm \/ cache.owner = curve) => drawn' > drawn]_vars

\* Liveness: a program that is given its curves ends, with the input if not before:
\* a number that is no good asks for the next one, but the end of the input does not.
InputEnds == (job.kind = "input" /\ pc = "start") ~> pc \in {"exited", "undefined"}
================================================================================
