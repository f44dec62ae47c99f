--------------------------------- MODULE CmSearch ------------------------------
(***************************************************************************)
(* cm_gen_curve_any and cm_gen_curve_unique: the discriminant and the      *)
(* roots of its class polynomial are kept from one call to the next, for   *)
(* as long as the curve object has the address they were found for.  The   *)
(* steps are those between which the timeout of the stage may fall.        *)
(***************************************************************************)
EXTENDS Integers, FiniteSets
LOCAL INSTANCE Numbers
LOCAL INSTANCE FiniteSetsExt

CONSTANTS
  HasElement,   \* the d for which the order is the norm of a fitting element
  MaxRoots      \* bound: roots of a class polynomial

ASSUME HasElementAssumption == HasElement \subseteq Nat \ {0, 1}
ASSUME MaxRootsAssumption == MaxRoots \in Nat \ {0}

VARIABLES
  job,      \* the command line; its kind is "any" or "unique" here
  pc,
  curve,    \* the address of the curve object, NULL before and after
  drawn,    \* what the product of the last finished call was drawn from
  min_d,    \* its discriminant D, and where that is
  min_roots,
  min_curve,
  call,     \* of the running call: it started fresh, and the discriminant it uses
  leaked    \* root lists that nothing points to any more

NULL == 0

\* mem: "none", "blank", "live" on the heap, "freed", or "stack", the PARI stack.
Discriminant(D, mem) == [D |-> D, mem |-> mem]
Roots(of, total, used, mem) == [of |-> of, total |-> total, used |-> used, mem |-> mem]

NoCall == [fresh |-> FALSE, d |-> 0, walked |-> FALSE]

cmvars == <<min_d, min_roots, min_curve, call, leaked>>

CmInit ==
  /\ min_d = Discriminant(0, "none")
  /\ min_roots = Roots(0, 0, 0, "none")
  /\ min_curve = NULL
  /\ call = NoCall
  /\ leaked = 0

------------------------------------------------------------------------------
abs(n) == IF n < 0 THEN -n ELSE n

squarefree(n) == \A k \in 2 .. n : ~divides(k * k, n)

\* The discriminant of the field Q(sqrt(-d)), for a squarefree d.
quaddisc(d) == IF d % 4 = 3 THEN -d ELSE -4 * d

\* Fault: the search is continued from |D|.
candidates_again(D) == {d \in HasElement : squarefree(d) /\ d >= abs(D)}

\* Candidates of good_qdisc_minimal after D: it is continued from |D| + 1, which is
\* not the d that D was found from.
candidates(D) == {d \in HasElement : squarefree(d) /\ d > abs(D)}

good_qdisc_minimal(D) == quaddisc(Min(candidates(D)))

------------------------------------------------------------------------------
Go(from, to) == pc = from /\ pc' = to

\* A second free of what is freed already, or the use of what an interrupted call
\* left on the stack: nothing is said of what follows.
Undefined(from) == Go(from, "undefined") /\ UNCHANGED <<cmvars, drawn>>

HasRoots ==
  /\ job.kind = "any" /\ min_curve = curve
  /\ min_d.mem # "none" /\ min_roots.mem # "none"
  /\ min_roots.used < min_roots.total

ReuseRoots ==
  /\ HasRoots
  /\ Go("draw", "construct")
  /\ call' = [fresh |-> FALSE, d |-> min_d.D, walked |-> FALSE]
  /\ UNCHANGED <<min_d, min_roots, min_curve, leaked, drawn>>

\* A struct of which nothing is filled in yet.
Blank == Discriminant(0, "blank")

\* The old discriminant is given back before the search, which still reads it.
ReleaseWith(owner) ==
  /\ job.kind \in {"any", "unique"} /\ ~HasRoots
  /\ IF min_d.mem \in {"freed", "stack"} THEN Undefined("draw")
     ELSE /\ Go("draw", "search")
          /\ min_d' = IF min_d.mem = "live" THEN [min_d EXCEPT !.mem = "freed"] ELSE Blank
          /\ min_curve' = owner
          /\ call' = [fresh |-> min_d.mem = "none" \/ min_curve # curve,
                      d |-> 0, walked |-> FALSE]
          /\ UNCHANGED <<min_roots, leaked, drawn>>

\* Fault: the curve object is entered before there is anything for it.
ReleaseDiscriminant_own == ReleaseWith(curve)

ReleaseDiscriminant == ReleaseWith(min_curve)

Search ==
  /\ Go("search", "keep")
  /\ candidates(min_d.D) # {}
  /\ min_d' = Discriminant(good_qdisc_minimal(min_d.D), "stack")
  /\ UNCHANGED <<min_roots, min_curve, call, leaked, drawn>>

Keep ==
  /\ Go("keep", "roots")
  /\ min_d' = [min_d EXCEPT !.mem = "live"]
  /\ call' = [call EXCEPT !.d = min_d.D]
  /\ UNCHANGED <<min_roots, min_curve, leaked, drawn>>

\* cm_update_roots on the list there is, which is given back before it is replaced;
\* cm_make_roots when the call started fresh.
Renew == ~call.fresh /\ min_roots.mem # "none"

ReleaseRoots ==
  /\ Renew
  /\ IF min_roots.mem = "freed" THEN Undefined("roots")
     ELSE /\ Go("roots", "replace")
          /\ min_roots' = [min_roots EXCEPT !.mem = "freed"]
          /\ UNCHANGED <<min_d, min_curve, call, leaked, drawn>>

NewRoots(total) == Roots(call.d, total, 0, "live")

ReplaceRoots ==
  /\ Go("replace", "construct")
  /\ \E total \in 1 .. MaxRoots : min_roots' = NewRoots(total)
  /\ UNCHANGED <<min_d, min_curve, call, leaked, drawn>>

\* Of a fresh call; what an earlier curve object's roots were in is lost.
MakeRoots ==
  /\ ~Renew
  /\ Go("roots", IF call.fresh THEN "own" ELSE "construct")
  /\ \E total \in 1 .. MaxRoots : min_roots' = NewRoots(total)
  /\ leaked' = IF min_roots.mem = "none" THEN leaked ELSE leaked + 1
  /\ UNCHANGED <<min_d, min_curve, call, drawn>>

Own ==
  /\ Go("own", "construct")
  /\ min_curve' = curve
  /\ UNCHANGED <<min_d, min_roots, call, leaked, drawn>>

------------------------------------------------------------------------------
(* cm_construct_curve: the next root, unless its curve has j-invariant 0 or  *)
(* 1728.                                                                     *)

Exhausted == min_roots.used = min_roots.total

\* A curve: it is used, or its group has two generators and the discriminant is
\* multiplied up for the roots to be made once more.
Construct ==
  /\ ~Exhausted
  /\ min_roots' = [min_roots EXCEPT !.used = @ + 1]
  /\ \/ Go("construct", "construct") /\ UNCHANGED <<call, drawn>>
     \/ /\ Go("construct", "decide")
        /\ drawn' = abs(min_d.D) * (MaxRoots + 1) + min_roots'.used
        /\ UNCHANGED call
     \/ /\ job.kind = "unique" /\ ~call.walked
        /\ Go("construct", "walk")
        /\ UNCHANGED <<call, drawn>>
  /\ UNCHANGED <<min_d, min_curve, leaked>>

\* No root is left.  After the walk the missing curve is copied all the same.
NoCurve ==
  /\ Exhausted
  /\ IF call.walked THEN Undefined("construct")
     ELSE Go("construct", "draw") /\ UNCHANGED <<cmvars, drawn>>

WalkDown ==
  /\ \/ Go("walk", "draw") /\ UNCHANGED call   \* too large
     \/ /\ Go("walk", "roots")
        /\ \E p \in {2, 3} :
             call' = [fresh |-> FALSE, d |-> min_d.D * p * p, walked |-> TRUE]
  /\ UNCHANGED <<min_d, min_roots, min_curve, leaked, drawn>>

CmNext ==
  /\ \/ ReuseRoots \/ ReleaseDiscriminant \/ Search \/ Keep
     \/ ReleaseRoots \/ ReplaceRoots \/ MakeRoots \/ Own
     \/ Construct \/ NoCurve \/ WalkDown
  /\ UNCHANGED <<job, curve>>

------------------------------------------------------------------------------
\* Roots: a curve is constructed from the roots of the class polynomial of the
\* discriminant the call is about, all of them on the heap, although the list and
\* the discriminant are kept apart, replaced one after the other, and a timeout
\* may fall between the two.
RootsMatch ==
  pc = "construct" =>
    /\ min_roots.of = call.d /\ min_roots.mem = "live"
    /\ min_d.mem = "live"
    /\ ~call.walked => call.d = min_d.D
================================================================================
