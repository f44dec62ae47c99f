---------------------------- MODULE ExhaustiveCalls ---------------------------
(***************************************************************************)
(* A call of exhaustive_gen_retry: its arguments and the tables, as the    *)
(* engine of Exhaustive takes them, and what it is for tables to fit       *)
(* together.                                                               *)
(***************************************************************************)
EXTENDS Offsets

ROOM == 1   \* the most a stage leaves on the stack, in units of its own

Shape ==
  [start   : Stage, end : 1 .. END, retry : Nat, timeout : BOOLEAN,
   refuses : [Stage -> SUBSET Int],     \* non-positive answers of the generator
   checks  : [Stage -> SUBSET Int],     \* non-positive answers of the validators
   writes  : [Stage -> SUBSET Stage],   \* products the generator assigns
   reads   : [Stage -> SUBSET Stage],   \* and those it looks at
   size    : [Stage -> 0 .. ROOM],      \* what it leaves on the stack
   unrolls : [Stage -> SUBSET Stage],   \* products the unroll function frees
   twist   : BOOLEAN,                   \* CURVE is curve_gen_any_twist
   cached  : BOOLEAN]                   \* ORDER asks the curve object first

MaxOf(m, n) == IF m > n THEN m ELSE n

Span(j) == j.start .. j.end - 1   \* the stages of the call

\* Where the engine goes on after the difference d in stage s.
Target(j, s, d) == MaxOf(j.start, s + d)

Targets(j, s) ==
  {Target(j, s, d) : d \in j.refuses[s] \cup j.checks[s]} \cup {j.start}

Callers(j) == SEED .. j.start - 1   \* products the caller had

\* Products given up when the products W of the curve_t are assigned: twist_rand
\* frees the seed and the generators, and the points hang on the generators.
Frees(j, W) ==
  (IF j.twist /\ CURVE \in W THEN {SEED, GENERATORS, POINTS} ELSE {})
    \cup (IF GENERATORS \in W THEN {POINTS} ELSE {})

\* Products a stage of the call finds.
Found(j, s) == Callers(j) \cup UNION {j.writes[r] : r \in j.start .. s - 1}

\* The tables fit together.  Differences go back; a stage assigns its own product
\* or earlier ones, of what it finds nothing on the heap, and gives up nothing
\* else; what it looks at it finds; the unroll function frees what the stage has
\* on the heap and nothing of an earlier one.  No retry goes back to a stage
\* with a product on the heap, other than the first, nor to between two stages
\* that assign the same product.
FitsTogether(j) ==
  /\ j.start < j.end
  /\ \A s \in Span(j) :
       /\ \A d \in j.refuses[s] \cup j.checks[s] : d <= 0
       /\ j.writes[s] \subseteq j.start .. s
       /\ j.writes[s] \cap Found(j, s) \cap OnHeap = {}
       /\ Frees(j, j.writes[s]) \cap Found(j, s) = {}
       /\ j.reads[s] \subseteq Found(j, s)
       /\ j.unrolls[s] \subseteq s .. METADATA
       /\ s # j.start => j.writes[s] \cap OnHeap \subseteq j.unrolls[s]
       /\ \A n \in Targets(j, s) :
            /\ n # j.start => j.writes[n] \cap OnHeap = {}
            /\ \A t \in n .. s : \A r \in j.start .. n - 1 :
                 j.writes[r] \cap j.writes[t] = {}
===============================================================================
