----------------------------- MODULE Program_proofs ----------------------------
(***************************************************************************)
(* The cached discriminant and roots of the complex multiplication method  *)
(* belong together whenever a curve is constructed, and what the program   *)
(* leaves behind: the output is an array with as many curves as were asked *)
(* for, or the program says that it failed; the memory of curves and       *)
(* caches is given back; and no curve is drawn from the same coefficient,  *)
(* or the same root, twice.  All of it for every command line, set of      *)
(* addresses and set of discriminants.                                     *)
(***************************************************************************)
EXTENDS Program, FiniteSetTheorems, WellFoundedInduction, TLAPS

\* The two caches are structs: with each of them go exactly its fields.
Structs ==
  /\ min_d = Discriminant(min_d.D, min_d.mem)
  /\ min_roots = Roots(min_roots.of, min_roots.total, min_roots.used, min_roots.mem)
  /\ call = [fresh |-> call.fresh, d |-> call.d, walked |-> call.walked]

\* A curve could be constructed from what is kept.
Offered ==
  min_d.mem # "none" /\ min_roots.mem # "none" /\ min_roots.used < min_roots.total

Matching == min_roots.of = min_d.D /\ min_roots.mem = "live" /\ min_d.mem = "live"

\* cm_gen_curve_any: what it would reuse is good, since the curve object is entered
\* after everything that is kept for it, or there is nothing left to reuse.
Reusable ==
  job.kind = "any" =>
    /\ Offered => Matching \/ (curve # NULL /\ min_curve # curve)
    /\ min_d.mem = "none" => min_roots.mem = "none"
    /\ pc \in {"start", "init", "method", "loop", "end", "clear", "quit", "exited"}
         => curve = NULL
    /\ pc \in {"draw", "search", "keep", "roots", "replace", "own", "construct", "decide"}
         => curve # NULL
    /\ pc \notin {"field", "a", "b", "seed", "clone", "walk"} /\ ~call.walked
    /\ pc = "decide" => Matching
    /\ pc \in {"search", "keep", "roots", "replace"} =>
         /\ min_curve = curve => ~Offered
         /\ ~call.fresh => min_curve = curve

\* From the search on: what the call has done so far.
Underway ==
  /\ pc = "keep" => min_d.mem = "stack"
  /\ pc \in {"search", "keep"} => ~call.walked
  /\ pc \in {"roots", "replace", "own"} =>
       min_d.mem = "live" /\ (~call.walked => call.d = min_d.D)
  /\ pc = "own" => min_roots.of = call.d /\ min_roots.mem = "live" /\ ~call.walked
  /\ pc = "walk" => min_d.mem = "live"
  /\ pc = "roots" /\ call.walked => ~call.fresh

IInv == Structs /\ Reusable /\ Underway /\ RootsMatch

\* The values of pc: what each step needs to tell apart is in its guard.
LEMMA Initially == Init => IInv
BY DEF Init, CmInit, IInv, Structs, Reusable, Underway, RootsMatch, Discriminant, Roots,
       NoCall, Offered

------------------------------------------------------------------------------
(* Steps that leave the caches alone.                                        *)

\* Moving on is harmless where nothing is said of the place moved to.
LEMMA Elsewhere ==
  ASSUME IInv, UNCHANGED <<job, cmvars>>,
         job.kind = "any" /\ pc' = "draw" => curve' # NULL,
         pc' \notin {"search", "keep", "roots", "replace", "own", "construct", "walk"},
         pc' = "decide" => job.kind # "any",
         job.kind = "any" => pc' \notin {"field", "a", "b", "seed", "clone"},
         job.kind = "any" => curve' = curve \/ pc = "decide" \/ curve = NULL,
         job.kind = "any" /\ curve' # NULL
           => pc' \notin {"start", "init", "method", "loop", "end", "clear", "quit", "exited"}
  PROVE  IInv'
<1>1. Structs'
  BY DEF IInv, Structs, cmvars
<1>2. Reusable'
  BY DEF IInv, Reusable, cmvars, Offered, Matching
<1>3. Underway'
  BY DEF Underway
<1>4. RootsMatch'
  BY DEF RootsMatch
<1> QED BY <1>1, <1>2, <1>3, <1>4 DEF IInv

\* main and exhaustive_generate, up to the end of a curve.
LEMMA MainStep ==
  ASSUME IInv, Start \/ InitStreams \/ Refuse \/ Begin \/ Write \/ End \/ quit
  PROVE  IInv'
<1>1. UNCHANGED <<job, cmvars>>
  BY DEF Start, InitStreams, Refuse, Begin, Write, End, quit, Keeps
<1>2. pc' \in {"undefined", "init", "quit", "method", "loop", "clear", "exited"}
  BY DEF Start, InitStreams, Refuse, Begin, Write, End, quit, Go
<1>3. job.kind = "any" => curve' = NULL
  BY DEF Start, InitStreams, Refuse, Begin, Write, End, quit, Go, Keeps, IInv, Reusable
<1>4. job.kind = "any" => curve' = curve \/ pc = "decide"
  BY DEF Start, InitStreams, Refuse, Begin, Write, End, quit, Go, Keeps
<1> QED BY <1>1, <1>2, <1>3, <1>4, Elsewhere

\* The stages before the search: a new curve object, a stage that goes back, a
\* timeout.
LEMMA StageStep ==
  ASSUME IInv, NewCurve \/ Reject
  PROVE  IInv'
<1>1. UNCHANGED <<job, cmvars>>
  BY DEF NewCurve, Reject, Keeps
<1>2. /\ pc' \in {"field", "seed", "draw"}
      /\ job.kind = "any" => pc' = "draw"
  BY DEF NewCurve, Reject, Go, FirstStage
<1>3. job.kind = "any" => curve' # NULL /\ (curve' = curve \/ curve = NULL)
  BY NullAssumption DEF NewCurve, Reject, Go, Keeps, IInv, Reusable
<1> QED BY <1>1, <1>2, <1>3, Elsewhere

LEMMA ExpireStep == ASSUME IInv, Expire PROVE IInv'
<1>1. /\ pc' \in {"field", "seed", "draw"}
      /\ job.kind = "any" => pc' = "draw"
      /\ UNCHANGED <<job, curve, min_d, min_roots, min_curve>>
      /\ call' = NoCall /\ curve # NULL
  BY DEF Expire, FirstStage
<1>2. Structs' /\ Reusable'
  BY <1>1 DEF IInv, Structs, Reusable, Offered, Matching, NoCall
<1>3. Underway' /\ RootsMatch'
  BY <1>1 DEF Underway, RootsMatch
<1> QED BY <1>2, <1>3 DEF IInv

\* The generators that ask, and those that count b up.
LEMMA OtherStep ==
  ASSUME IInv,
         AskField \/ AskA \/ AskB \/ AskSeed \/ FirstB \/ ReleaseB \/ CloneB
  PROVE  IInv'
<1>1. UNCHANGED <<job, cmvars>>
  BY DEF AskField, AskA, AskB, AskSeed, Ask, FirstB, ReleaseB, CloneB, Draws, Keeps
<1>2. job.kind # "any"
  BY DEF AskField, AskA, AskB, AskSeed, Ask, FirstB, ReleaseB, CloneB, Go, IInv, Reusable
<1>3. pc' \in {"field", "a", "b", "seed", "decide", "end", "clone", "undefined"}
  BY DEF AskField, AskA, AskB, AskSeed, Ask, Fail, FirstB, ReleaseB, CloneB, Go
<1> QED BY <1>1, <1>2, <1>3, Elsewhere

LEMMA ClearStep == ASSUME IInv, Clear PROVE IInv'
<1>1. /\ pc = "clear" /\ pc' = "quit"
      /\ UNCHANGED <<job, curve, call>>
  BY DEF Clear, Go
<1>2. CASE IsCm
  <2>1. /\ min_d' = [min_d EXCEPT !.mem = "none"]
        /\ min_roots' = [min_roots EXCEPT !.mem = "none"]
    BY <1>2 DEF Clear
  <2>2. /\ min_d' = Discriminant(min_d.D, "none")
        /\ min_roots' = Roots(min_roots.of, min_roots.total, min_roots.used, "none")
    BY <2>1 DEF IInv, Structs, Discriminant, Roots
  <2>3. Structs'
    BY <1>1, <2>2 DEF IInv, Structs, Discriminant, Roots
  <2>4. Reusable'
    BY <1>1, <2>2 DEF IInv, Reusable, Offered, Discriminant, Roots
  <2> QED BY <1>1, <2>3, <2>4 DEF IInv, Underway, RootsMatch
<1>3. CASE ~IsCm
  BY <1>1, <1>3 DEF Clear, IsCm, IInv, Structs, Reusable, Underway, RootsMatch
<1> QED BY <1>2, <1>3

------------------------------------------------------------------------------
(* The complex multiplication method.                                        *)

LEMMA ReuseStep ==
  ASSUME IInv, ReuseRoots, UNCHANGED <<job, curve>> PROVE IInv'
<1>1. /\ pc = "draw" /\ pc' = "construct"
      /\ UNCHANGED <<job, curve, min_d, min_roots, min_curve>>
      /\ call' = [fresh |-> FALSE, d |-> min_d.D, walked |-> FALSE]
      /\ job.kind = "any" /\ min_curve = curve /\ Offered
  BY DEF ReuseRoots, HasRoots, Go, Offered
<1>2. Matching
  BY <1>1 DEF IInv, Reusable
<1>3. Structs'
  BY <1>1 DEF IInv, Structs
<1>4. /\ ~call'.walked
      /\ Matching'
      /\ curve # NULL /\ min_d.mem # "none"
  BY <1>1, <1>2 DEF IInv, Reusable, Matching, Offered
<1>5. Reusable'
  BY <1>1, <1>4 DEF Reusable
<1>6. Underway' /\ RootsMatch'
  BY <1>1, <1>2 DEF Underway, RootsMatch, Matching
<1> QED BY <1>3, <1>5, <1>6 DEF IInv

LEMMA ReleaseStep ==
  ASSUME IInv, ReleaseDiscriminant, UNCHANGED <<job, curve>> PROVE IInv'
<1>1. CASE min_d.mem \in {"freed", "stack"}
  <2>1. pc = "draw" /\ pc' = "undefined" /\ UNCHANGED <<job, curve, cmvars>>
    BY <1>1 DEF ReleaseDiscriminant, ReleaseWith, Undefined, Go
  <2> QED BY <2>1, Elsewhere
<1>2. CASE min_d.mem \notin {"freed", "stack"}
  <2>1. /\ pc = "draw" /\ pc' = "search" /\ ~HasRoots
        /\ min_d' = (IF min_d.mem = "live" THEN [min_d EXCEPT !.mem = "freed"] ELSE Blank)
        /\ UNCHANGED <<job, curve, min_curve, min_roots>>
        /\ call' = [fresh |-> min_d.mem = "none" \/ min_curve # curve,
                    d |-> 0, walked |-> FALSE]
    BY <1>2 DEF ReleaseDiscriminant, ReleaseWith, Go
  <2>2. /\ min_d' = Discriminant(min_d'.D, min_d'.mem)
        /\ min_d'.mem \in {"freed", "blank"}
    BY <2>1 DEF IInv, Structs, Discriminant, Blank
  <2>3. job.kind = "any" /\ min_curve = curve => ~Offered
    BY <2>1 DEF HasRoots, Offered
  <2>4. job.kind = "any" /\ min_curve = curve => ~Offered'
    BY <2>1, <2>3 DEF IInv, Reusable, Offered
  <2>5. job.kind = "any" => curve # NULL
    BY <2>1 DEF IInv, Reusable
  <2>6. Structs'
    BY <2>1, <2>2 DEF IInv, Structs
  <2>7. Reusable'
    BY <2>1, <2>2, <2>4, <2>5 DEF IInv, Reusable
  <2> QED BY <2>1, <2>6, <2>7 DEF IInv, Underway, RootsMatch
<1> QED BY <1>1, <1>2

LEMMA SearchStep == ASSUME IInv, Search, UNCHANGED <<job, curve>> PROVE IInv'
<1> DEFINE D == good_qdisc_minimal(min_d.D)
<1>1. /\ pc = "search" /\ pc' = "keep"
      /\ min_d' = Discriminant(D, "stack")
      /\ UNCHANGED <<job, curve, min_roots, min_curve, call>>
  BY DEF Search, Go
<1>2. min_d'.mem = "stack" /\ min_d' = Discriminant(min_d'.D, min_d'.mem)
  BY <1>1 DEF Discriminant
<1>3. Structs'
  BY <1>1, <1>2 DEF IInv, Structs
<1>4. Reusable'
  BY <1>1, <1>2 DEF IInv, Reusable, Offered
<1>5. Underway' /\ RootsMatch'
  BY <1>1, <1>2 DEF IInv, Underway, RootsMatch
<1> QED BY <1>3, <1>4, <1>5 DEF IInv

LEMMA KeepStep == ASSUME IInv, Keep, UNCHANGED <<job, curve>> PROVE IInv'
<1>1. /\ pc = "keep" /\ pc' = "roots"
      /\ min_d' = [min_d EXCEPT !.mem = "live"]
      /\ call' = [call EXCEPT !.d = min_d.D]
      /\ UNCHANGED <<job, curve, min_roots, min_curve>>
  BY DEF Keep, Go
<1>2. min_d' = Discriminant(min_d.D, "live")
  BY <1>1 DEF IInv, Structs, Discriminant
<1>3. call' = [fresh |-> call.fresh, d |-> min_d.D, walked |-> call.walked]
  BY <1>1 DEF IInv, Structs
<1>4. Structs'
  BY <1>1, <1>2, <1>3 DEF IInv, Structs, Discriminant
<1>5. Reusable'
  BY <1>1, <1>2, <1>3 DEF IInv, Reusable, Offered, Underway, Discriminant
<1>6. Underway' /\ RootsMatch'
  BY <1>1, <1>2, <1>3 DEF IInv, Underway, RootsMatch, Discriminant
<1> QED BY <1>4, <1>5, <1>6 DEF IInv

LEMMA ReleaseRootsStep ==
  ASSUME IInv, ReleaseRoots, UNCHANGED <<job, curve>> PROVE IInv'
<1>1. CASE min_roots.mem = "freed"
  <2>1. pc = "roots" /\ pc' = "undefined" /\ UNCHANGED <<job, curve, cmvars>>
    BY <1>1 DEF ReleaseRoots, Undefined, Go
  <2> QED BY <2>1, Elsewhere
<1>2. CASE min_roots.mem # "freed"
  <2>1. /\ pc = "roots" /\ pc' = "replace" /\ Renew
        /\ min_roots' = [min_roots EXCEPT !.mem = "freed"]
        /\ UNCHANGED <<job, curve, min_d, min_curve, call>>
    BY <1>2 DEF ReleaseRoots, Go
  <2>2. min_roots' = Roots(min_roots.of, min_roots.total, min_roots.used, "freed")
    BY <2>1 DEF IInv, Structs, Roots
  <2>3. Structs'
    BY <2>1, <2>2 DEF IInv, Structs, Roots
  <2>4. Reusable'
    BY <2>1, <2>2 DEF IInv, Reusable, Renew, Offered, Roots
  <2>5. Underway' /\ RootsMatch'
    BY <2>1 DEF IInv, Underway, RootsMatch
  <2> QED BY <2>3, <2>4, <2>5 DEF IInv
<1> QED BY <1>1, <1>2

\* cm_update_roots and cm_make_roots: the list is of the call's discriminant.
LEMMA NewRootsStep ==
  ASSUME IInv, ReplaceRoots \/ MakeRoots, UNCHANGED <<job, curve>> PROVE IInv'
<1>1. PICK total : min_roots' = NewRoots(total)
  BY DEF ReplaceRoots, MakeRoots
<1>2. /\ pc \in {"roots", "replace"}
      /\ pc' \in {"own", "construct"}
      /\ pc' = "own" => pc = "roots" /\ call.fresh
      /\ UNCHANGED <<job, curve, min_d, min_curve, call>>
  BY DEF ReplaceRoots, MakeRoots, Go
<1>3. /\ min_d.mem = "live"
      /\ ~call.walked => call.d = min_d.D
      /\ pc = "roots" /\ call.walked => ~call.fresh
  BY <1>2 DEF IInv, Underway
<1>4. /\ min_roots'.of = call.d
      /\ min_roots'.mem = "live"
      /\ min_roots' = Roots(min_roots'.of, min_roots'.total, min_roots'.used, min_roots'.mem)
  BY <1>1 DEF NewRoots, Roots
<1>5. Structs'
  BY <1>2, <1>4 DEF IInv, Structs
<1>6. Reusable'
  BY <1>2, <1>3, <1>4 DEF IInv, Reusable, Matching
<1>7. Underway' /\ RootsMatch'
  BY <1>2, <1>3, <1>4 DEF Underway, RootsMatch
<1> QED BY <1>5, <1>6, <1>7 DEF IInv

LEMMA OwnStep == ASSUME IInv, Own, UNCHANGED <<job, curve>> PROVE IInv'
<1>1. /\ pc = "own" /\ pc' = "construct"
      /\ UNCHANGED <<job, curve, min_d, min_roots, call>>
  BY DEF Own, Go
<1>2. /\ min_roots.of = call.d /\ min_roots.mem = "live"
      /\ min_d.mem = "live" /\ call.d = min_d.D
  BY <1>1 DEF IInv, Underway
<1>3. Structs'
  BY <1>1 DEF IInv, Structs
<1>4. Reusable'
  BY <1>1, <1>2 DEF IInv, Reusable, Matching
<1>5. Underway' /\ RootsMatch'
  BY <1>1, <1>2 DEF Underway, RootsMatch
<1> QED BY <1>3, <1>4, <1>5 DEF IInv

LEMMA ConstructStep ==
  ASSUME IInv, Construct, UNCHANGED <<job, curve>> PROVE IInv'
<1>1. /\ pc = "construct"
      /\ min_roots' = [min_roots EXCEPT !.used = @ + 1]
      /\ UNCHANGED <<job, curve, min_d, min_curve, call>>
      /\ pc' \in {"construct", "decide", "walk"}
      /\ pc' = "walk" => job.kind = "unique"
  BY DEF Construct, Go
<1>2. min_roots' = Roots(min_roots.of, min_roots.total, min_roots.used + 1, min_roots.mem)
  BY <1>1 DEF IInv, Structs, Roots
<1>3. /\ min_roots.of = call.d /\ min_roots.mem = "live"
      /\ min_d.mem = "live"
      /\ ~call.walked => call.d = min_d.D
  BY <1>1 DEF IInv, RootsMatch
<1>4. Structs'
  BY <1>1, <1>2 DEF IInv, Structs, Roots
<1>5. Reusable'
  BY <1>1, <1>2, <1>3 DEF IInv, Reusable, Matching, Roots
<1>6. Underway' /\ RootsMatch'
  BY <1>1, <1>2, <1>3 DEF Underway, RootsMatch, Roots
<1> QED BY <1>4, <1>5, <1>6 DEF IInv

LEMMA NoCurveStep == ASSUME IInv, NoCurve, UNCHANGED <<job, curve>> PROVE IInv'
<1>1. /\ pc = "construct" /\ pc' \in {"undefined", "draw"}
      /\ UNCHANGED <<job, curve, cmvars>>
  BY DEF NoCurve, Undefined, Go
<1>2. job.kind = "any" => curve # NULL
  BY <1>1 DEF IInv, Reusable
<1> QED BY <1>1, <1>2, Elsewhere

\* cm_gen_curve_unique: the discriminant kept is not the one walked down to.
LEMMA WalkDownStep == ASSUME IInv, WalkDown, UNCHANGED <<job, curve>> PROVE IInv'
<1>1. /\ pc = "walk" /\ pc' \in {"draw", "roots"}
      /\ UNCHANGED <<job, curve, min_d, min_roots, min_curve>>
      /\ \/ pc' = "draw" /\ call' = call
         \/ \E d : call' = [fresh |-> FALSE, d |-> d, walked |-> TRUE]
  BY DEF WalkDown, Go
<1>2. job.kind # "any" /\ min_d.mem = "live"
  BY <1>1 DEF IInv, Reusable, Underway
<1>3. Structs'
  BY <1>1 DEF IInv, Structs
<1>4. Underway' /\ RootsMatch'
  BY <1>1, <1>2 DEF Underway, RootsMatch
<1> QED BY <1>1, <1>2, <1>3, <1>4 DEF IInv, Reusable

------------------------------------------------------------------------------
LEMMA CmStep == ASSUME IInv, CmNext PROVE IInv'
<1>1. UNCHANGED <<job, curve>>
  BY DEF CmNext
<1> QED
  BY <1>1, ReuseStep, ReleaseStep, SearchStep, KeepStep, ReleaseRootsStep, NewRootsStep,
     OwnStep, ConstructStep, NoCurveStep, WalkDownStep DEF CmNext

LEMMA Stutter == ASSUME IInv, UNCHANGED vars PROVE IInv'
BY DEF vars, cmvars, IInv, Structs, Reusable, Underway, RootsMatch, Offered, Matching

LEMMA Invariant == Spec => []IInv
<1>1. IInv /\ [Next]_vars => IInv'
  <2>1. SUFFICES ASSUME IInv, [Next]_vars PROVE IInv'
    OBVIOUS
  <2> QED
    BY <2>1, MainStep, StageStep, ExpireStep, OtherStep, ClearStep, CmStep, Stutter DEF Next
<1> QED BY Initially, <1>1, PTL DEF Spec

\* cm_gen_curve_any and cm_gen_curve_unique: whatever timeouts fall between the steps
\* that replace the cached discriminant and its roots, and whichever addresses the
\* curve objects have, a curve is constructed from roots of the discriminant meant.
THEOREM CachesAgree == Spec => []RootsMatch
<1>1. IInv => RootsMatch
  BY DEF IInv
<1> QED BY Invariant, <1>1, PTL

------------------------------------------------------------------------------
(* The end of the program.                                                   *)

CmStages == {"search", "keep", "roots", "replace", "own", "construct", "walk"}
Stages == {"field", "a", "b", "seed", "draw", "clone", "decide"} \cup CmStages
Before == {"start", "init", "method"}
After == {"clear", "quit", "exited"}

\* There is a curve object exactly while one is generated.
PhaseInv ==
  /\ job \in Jobs
  /\ i \in 0 .. job.count
  /\ pc \in Before \cup {"loop", "end", "undefined"} \cup Stages \cup After
  /\ pc \in Stages => curve # NULL /\ i < job.count
  /\ pc \notin Stages \cup {"undefined"} => curve = NULL
  /\ pc \in CmStages => IsCm
  /\ pc \in {"field", "a", "b", "seed"} => job.kind \in {"input", "binary", "seed"}
  /\ pc \in {"clone", "end"} => ~IsCm
  /\ pc = "draw" => job.kind \in {"nums", "family", "any", "unique"}
  /\ pc = "clone" => job.kind \in {"nums", "family"}
  /\ pc = "end" => i < job.count

\* What stands at a place of the output from the second on: curves and separators
\* alternate.
Token(k) == IF k % 2 = 0 THEN "curve" ELSE ","

Alternates(s, n) == \A k \in 2 .. n : s[k] = Token(k)

Tokens == {"[", "curve", ",", "]"}

\* The beginning of an array.
Array(s, n) == s \in Seq(Tokens) /\ Len(s) = n /\ s[1] = "[" /\ Alternates(s, n)

\* The array while it is written, and when it was closed after i curves.
Opened == Array(written, 2 * i + (IF i = job.count THEN 0 ELSE 1))

ClosedAfter(n) ==
  /\ written \in Seq(Tokens) /\ Len(written) = n + 1
  /\ written[1] = "[" /\ Alternates(written, n)
  /\ written[n + 1] = "]"

Closed == ClosedAfter(2 * i + (IF i = job.count THEN 0 ELSE 1))

WrittenInv ==
  /\ pc \in Before => written = <<>> /\ i = 0
  /\ pc \in Stages \cup {"loop"} => Opened /\ status = "success"
  /\ pc = "end" => Opened /\ status = "failure"
  /\ pc \in After =>
       \/ written = <<>> /\ status = "failure" /\ pc # "clear"
       \/ Closed /\ status = (IF i = job.count THEN "success" ELSE "failure")

\* Only one kind of cache is filled, and before and after the curves none is.
MemoryInv ==
  /\ cache = Cache(cache.b, cache.owner, cache.mem)
  /\ IsCm => cache.mem = "none"
  /\ ~IsCm => min_d.mem = "none" /\ min_roots.mem = "none" /\ leaked = 0
  /\ pc \in Before \cup {"quit", "exited"} =>
       cache.mem = "none" /\ min_d.mem = "none" /\ min_roots.mem = "none"
  /\ pc = "exited" => open = {}

\* Without a timeout, what was freed is replaced before anything else happens.
DefinedInv ==
  /\ ~job.timeout =>
       /\ pc # "clone" => cache.mem \in {"none", "live"}
       /\ pc \notin {"search", "keep", "undefined"} => min_d.mem \in {"none", "live"}
       /\ pc \notin {"replace", "undefined"} => min_roots.mem \in {"none", "live"}
  /\ pc = "undefined" => job.timeout \/ job.kind = "unique" \/ ~job.cli

\* The curve object at hand is the one roots were made for.
Owned == pc \in Stages /\ (min_curve = curve \/ pc = "own")

\* Roots are lost when they are made for a curve object that others were made
\* before, which happens once to a curve, and never to the first.
LeakInv ==
  /\ leaked \in Nat
  /\ IsCm /\ ~job.timeout =>
       /\ leaked < job.count
       /\ pc \notin {"quit", "exited", "undefined"} =>
            /\ min_roots.mem = "none" => leaked = 0
            /\ min_roots.mem # "none" => leaked + 1 <= i + (IF Owned THEN 1 ELSE 0)
            /\ min_d.mem = "none" => min_roots.mem = "none"
       /\ pc \in {"search", "keep", "roots", "replace"} /\ ~call.fresh => min_curve = curve
       /\ pc \in {"search", "keep", "roots"} /\ call.fresh
            => min_roots.mem = "none" \/ min_curve # curve
       /\ pc = "replace" => ~call.fresh
       /\ pc \in {"construct", "walk", "decide"} => min_curve = curve

EndInv == PhaseInv /\ WrittenInv /\ MemoryInv /\ DefinedInv /\ LeakInv

USE DEF Before, After, Stages, CmStages, IsCm, Go, Keeps, own, cmvars

LEMMA InitEnd == Init => EndInv
<1> SUFFICES ASSUME Init PROVE EndInv
  OBVIOUS
<1>1. job.count \in Nat \ {0}
  BY JobAssumption DEF Init
<1>2. PhaseInv
  BY <1>1 DEF Init, PhaseInv
<1>3. WrittenInv
  BY DEF Init, WrittenInv
<1>4. MemoryInv /\ DefinedInv
  BY DEF Init, CmInit, MemoryInv, DefinedInv, Cache, Discriminant, Roots
<1>5. LeakInv
  BY <1>1 DEF Init, CmInit, LeakInv, Roots, Discriminant
<1> QED BY <1>2, <1>3, <1>4, <1>5 DEF EndInv

------------------------------------------------------------------------------
(* Which step can be next.                                                   *)

\* The steps of cm_any.c stay in its stages.
LEMMA CmMoves ==
  ASSUME CmNext
  PROVE  /\ pc \in CmStages \cup {"draw"}
         /\ pc' \in CmStages \cup {"draw", "decide", "undefined"}
         /\ pc \in CmStages \/ job.kind \in {"any", "unique"}
         /\ UNCHANGED <<job, curve>>
<1>1. CASE ReuseRoots \/ ReleaseDiscriminant
  BY <1>1 DEF CmNext, ReuseRoots, ReleaseDiscriminant, ReleaseWith, Undefined, HasRoots
<1>2. CASE Search \/ Keep \/ ReplaceRoots \/ MakeRoots \/ Own
  BY <1>2 DEF CmNext, Search, Keep, ReplaceRoots, MakeRoots, Own
<1>3. CASE ReleaseRoots \/ Construct \/ NoCurve \/ WalkDown
  BY <1>3 DEF CmNext, ReleaseRoots, Construct, NoCurve, WalkDown, Undefined
<1> QED BY <1>1, <1>2, <1>3 DEF CmNext

\* The generators that ask.
LEMMA AskMoves ==
  ASSUME AskField \/ AskA \/ AskB \/ AskSeed
  PROVE  /\ pc \in {"field", "a", "b", "seed"}
         /\ UNCHANGED <<job, cmvars, cache, i, written, open, drawn>>
         /\ \/ pc' \in {"field", "a", "b", "seed", "decide"} /\ UNCHANGED <<curve, status>>
            \/ pc' = "end" /\ curve' = NULL /\ status' = "failure"
<1>1. ASSUME NEW stage, NEW next, NEW answer, Ask(stage, next, answer),
             stage \in {"field", "a", "b", "seed"}, next \in {"a", "b", "decide"}
      PROVE  /\ pc \in {"field", "a", "b", "seed"}
             /\ UNCHANGED <<job, cmvars, cache, i, written, open, drawn>>
             /\ \/ pc' \in {"field", "a", "b", "seed", "decide"} /\ UNCHANGED <<curve, status>>
                \/ pc' = "end" /\ curve' = NULL /\ status' = "failure"
  BY <1>1 DEF Ask, Fail, FreeOnFailure
<1>2. CASE AskField \/ AskA \/ AskB
  BY <1>1, <1>2 DEF AskField, AskA, AskB
<1>3. CASE AskSeed
  BY <1>1, <1>3 DEF AskSeed
<1> QED BY <1>2, <1>3

LEMMA DrawMoves ==
  ASSUME FirstB \/ ReleaseB \/ CloneB
  PROVE  /\ pc \in {"draw", "clone"} /\ pc' \in {"decide", "clone", "undefined"}
         /\ pc = "draw" => job.kind \in {"nums", "family"}
         /\ UNCHANGED <<job, curve, cmvars, in, i, written, open, status>>
BY DEF FirstB, ReleaseB, CloneB, Draws

LEMMA PhaseStep == ASSUME PhaseInv, [Next]_vars PROVE PhaseInv'
<1> USE DEF PhaseInv
<1>0. job.count \in Nat \ {0} /\ i \in Nat
  BY JobAssumption
<1>1. CASE Start \/ InitStreams \/ Refuse \/ Begin \/ End \/ Clear \/ quit
  BY <1>0, <1>1 DEF Start, InitStreams, Refuse, Begin, End, Clear, quit
<1>2. CASE NewCurve
  BY <1>0, <1>2, NullAssumption, JobAssumption DEF NewCurve, FirstStage, Kinds
<1>3. CASE Write
  BY <1>0, <1>3 DEF Write
<1>4. CASE AskField \/ AskA \/ AskB \/ AskSeed
  BY <1>4, AskMoves
<1>5. CASE FirstB \/ ReleaseB \/ CloneB
  BY <1>5, DrawMoves
<1>6. CASE CmNext /\ UNCHANGED own
  BY <1>6, CmMoves
<1>7. CASE Reject
  BY <1>7, JobAssumption DEF Reject, FirstStage, Kinds
<1>8. CASE Expire
  BY <1>8, JobAssumption DEF Expire, FirstStage, Kinds
<1>9. CASE UNCHANGED vars
  BY <1>9 DEF vars
<1> QED BY <1>1, <1>2, <1>3, <1>4, <1>5, <1>6, <1>7, <1>8, <1>9 DEF Next

------------------------------------------------------------------------------
(* The output.                                                               *)

\* A sequence that one element is joined to.
LEMMA Joined ==
  ASSUME NEW T, NEW s \in Seq(T), NEW a \in T, NEW r, r = s \o <<a>>
  PROVE  /\ r \in Seq(T) /\ Len(r) = Len(s) + 1 /\ r[Len(s) + 1] = a
         /\ \A k \in 1 .. Len(s) : r[k] = s[k]
<1>1. <<a>> \in Seq(T)
  OBVIOUS
<1> QED BY <1>1

LEMMA Parity ==
  \A n \in Nat : Token(2 * n + 2) = "curve" /\ Token(2 * n + 3) = ","
<1>1. \A n \in Nat : (2 * n + 2) % 2 = 0 /\ (2 * n + 3) % 2 # 0
  OBVIOUS
<1> QED BY <1>1 DEF Token

LEMMA Grown ==
  ASSUME NEW n \in Nat, n >= 1, NEW s \in Seq(Tokens), NEW a \in Tokens, NEW r \in Seq(Tokens)
  PROVE  Array(s, n) /\ a = Token(n + 1) /\ r = s \o <<a>> => Array(r, n + 1)
<1>0. SUFFICES ASSUME Array(s, n) /\ a = Token(n + 1) /\ r = s \o <<a>> PROVE Array(r, n + 1)
  OBVIOUS
<1>1. /\ Len(r) = n + 1 /\ r[n + 1] = a
      /\ \A k \in 1 .. n : r[k] = s[k]
  <2>1. Len(s) = n
    BY <1>0 DEF Array
  <2>2. /\ Len(r) = Len(s) + 1 /\ r[Len(s) + 1] = a
        /\ \A k \in 1 .. Len(s) : r[k] = s[k]
    BY <1>0, Joined
  <2> QED BY <2>1, <2>2
<1>2. r[1] = "["
  <2>1. s[1] = "[" /\ 1 \in 1 .. n
    BY <1>0 DEF Array
  <2> QED BY <1>1, <2>1
<1>3. ASSUME NEW k \in 2 .. n + 1 PROVE r[k] = Token(k)
  <2>1. CASE k = n + 1
    BY <1>0, <1>1, <2>1
  <2>2. CASE k \in 2 .. n
    <3>1. s[k] = Token(k)
      BY <1>0, <2>2 DEF Array, Alternates
    <3>2. r[k] = s[k]
      BY <1>1, <2>2
    <3> QED BY <3>1, <3>2
  <2>3. k = n + 1 \/ k \in 2 .. n
    OBVIOUS
  <2> QED BY <2>1, <2>2, <2>3
<1> QED BY <1>1, <1>2, <1>3 DEF Array, Alternates

LEMMA Starts == Array(<<"[">>, 1)
<1>1. "[" \in Tokens
  BY DEF Tokens
<1>2. <<"[">> \in Seq(Tokens)
  BY <1>1
<1>3. Len(<<"[">>) = 1 /\ <<"[">>[1] = "["
  OBVIOUS
<1> QED BY <1>2, <1>3 DEF Array, Alternates

LEMMA Longer ==
  ASSUME NEW n \in Nat, NEW s, Array(s, 2 * n + 1)
  PROVE  /\ Array(s \o <<"curve">>, 2 * n + 2)
         /\ Array(s \o <<"curve">> \o <<>>, 2 * n + 2)
         /\ Array(s \o <<"curve">> \o <<",">>, 2 * n + 3)
<1> DEFINE r == s \o <<"curve">>
           q == r \o <<",">>
<1>0. "curve" \in Tokens /\ "," \in Tokens
  BY DEF Tokens
<1>1. s \in Seq(Tokens)
  BY DEF Array
<1>2. r \in Seq(Tokens)
  BY <1>0, <1>1, Joined
<1>3. Array(r, 2 * n + 2)
  <2>1. 2 * n + 1 \in Nat /\ 2 * n + 1 >= 1 /\ (2 * n + 1) + 1 = 2 * n + 2
    OBVIOUS
  <2>2. "curve" = Token((2 * n + 1) + 1)
    BY <2>1, Parity
  <2>3. Array(r, (2 * n + 1) + 1)
    BY <1>0, <1>1, <1>2, <2>1, <2>2, Grown
  <2> QED BY <2>1, <2>3
<1> HIDE DEF r
<1>4. q \in Seq(Tokens)
  BY <1>0, <1>2, Joined
<1>5. r \o <<>> = r
  BY <1>2
<1>6. Array(q, 2 * n + 3)
  <2>1. 2 * n + 2 \in Nat /\ 2 * n + 2 >= 1 /\ (2 * n + 2) + 1 = 2 * n + 3
    OBVIOUS
  <2>2. "," = Token((2 * n + 2) + 1)
    BY <2>1, Parity
  <2>3. Array(q, (2 * n + 2) + 1)
    BY <1>0, <1>2, <1>3, <1>4, <2>1, <2>2, Grown
  <2> QED BY <2>1, <2>3
<1> QED BY <1>3, <1>5, <1>6 DEF r
\* What the numbers of curves are, and of what the output consists.
LEMMA CurveCounts ==
  ASSUME PhaseInv
  PROVE  i \in Nat /\ job.count \in Nat /\ job.count # 0 /\ i <= job.count
<1>1. job.count \in Nat /\ job.count # 0
  BY JobAssumption DEF PhaseInv
<1> QED BY <1>1 DEF PhaseInv

LEMMA WriteKeeps == ASSUME PhaseInv, WrittenInv, Write PROVE Opened'
<1>0. i \in Nat /\ job.count \in Nat /\ i < job.count
  BY CurveCounts DEF Write, PhaseInv
<1>1. /\ i' = i + 1 /\ job' = job
      /\ written' = written \o <<"curve">> \o (IF i # job.count - 1 THEN <<",">> ELSE <<>>)
  BY DEF Write, Separator
<1>2. Array(written, 2 * i + 1)
  <2>1. Opened /\ i # job.count
    BY <1>0 DEF Write, WrittenInv
  <2> QED BY <2>1 DEF Opened
<1>3. /\ Array(written \o <<"curve">> \o <<>>, 2 * i + 2)
      /\ Array(written \o <<"curve">> \o <<",">>, 2 * i + 3)
  BY <1>0, <1>2, Longer
<1>4. CASE i # job.count - 1
  <2>1. 2 * i' + (IF i' = job'.count THEN 0 ELSE 1) = 2 * i + 3
    <3>1. i' = i + 1 /\ job'.count = job.count
      BY <1>1
    <3>2. i + 1 # job.count
      BY <1>0, <1>4
    <3> QED BY <1>0, <3>1, <3>2
  <2> QED BY <1>1, <1>3, <1>4, <2>1 DEF Opened
<1>5. CASE i = job.count - 1
  <2>1. 2 * i' + (IF i' = job'.count THEN 0 ELSE 1) = 2 * i + 2
    <3>1. i' = i + 1 /\ job'.count = job.count
      BY <1>1
    <3>2. i + 1 = job.count
      BY <1>0, <1>5
    <3> QED BY <1>0, <3>1, <3>2
  <2> QED BY <1>1, <1>3, <1>5, <2>1 DEF Opened
<1> QED BY <1>4, <1>5

LEMMA Ended ==
  ASSUME NEW n \in Nat, n >= 1, NEW s, Array(s, n)
  PROVE  LET r == Append(s, "]")
         IN /\ r \in Seq(Tokens) /\ Len(r) = n + 1
            /\ r[1] = "[" /\ Alternates(r, n) /\ r[n + 1] = "]"
<1> DEFINE r == Append(s, "]")
<1>1. s \in Seq(Tokens) /\ Len(s) = n /\ s[1] = "["
  BY DEF Array
<1>2. "]" \in Tokens
  BY DEF Tokens
<1>3. r \in Seq(Tokens) /\ Len(r) = n + 1 /\ r[n + 1] = "]"
  BY <1>1, <1>2
<1>4. \A k \in 1 .. n : r[k] = s[k]
  BY <1>1, <1>2
<1>5. \A k \in 2 .. n : k \in 1 .. n
  OBVIOUS
<1>6. Alternates(r, n)
  BY <1>4, <1>5 DEF Array, Alternates
<1>7. r[1] = "["
  BY <1>1, <1>4
<1> QED BY <1>3, <1>6, <1>7

LEMMA EndCloses ==
  ASSUME PhaseInv, WrittenInv, End
  PROVE  Closed' /\ status' = IF i' = job'.count THEN "success" ELSE "failure"
<1> DEFINE n == 2 * i + (IF i = job.count THEN 0 ELSE 1)
<1>0. i \in Nat /\ job.count \in Nat /\ job.count # 0 /\ i <= job.count
  BY CurveCounts
<1>1. /\ i' = i /\ job' = job /\ status' = status
      /\ written' = Append(written, "]")
  BY DEF End
<1>2. Opened /\ status = IF i = job.count THEN "success" ELSE "failure"
  <2>1. pc = "end" => i # job.count
    BY <1>0 DEF PhaseInv
  <2>2. (pc = "loop" /\ i = job.count) \/ pc = "end"
    BY DEF End
  <2> QED BY <2>1, <2>2 DEF WrittenInv
<1>3. n \in Nat /\ n >= 1 /\ Array(written, n)
  BY <1>0, <1>2 DEF Opened
<1>4. n' = n
  BY <1>1
<1> HIDE DEF n
<1>5. ClosedAfter(n)'
  BY <1>1, <1>3, <1>4, Ended DEF ClosedAfter
<1> QED BY <1>1, <1>2, <1>5 DEF Closed, n

\* Every other step leaves the output alone, and moves on as it is told to.
LEMMA WrittenStep == ASSUME PhaseInv, WrittenInv, [Next]_vars PROVE WrittenInv'
<1> USE DEF WrittenInv
<1>1. CASE Begin
  <2>1. job.count \in Nat \ {0} /\ i = 0
    BY <1>1, JobAssumption DEF Begin, PhaseInv
  <2>2. Opened'
    BY <1>1, <2>1, Starts DEF Begin, Opened
  <2> QED BY <1>1, <2>2 DEF Begin
<1>2. CASE Write
  BY <1>2, WriteKeeps DEF Write
<1>3. CASE End
  BY <1>3, EndCloses DEF End
<1>4. ASSUME UNCHANGED <<job, i, written>>
      PROVE  /\ Opened' = Opened /\ Closed' = Closed
  BY <1>4 DEF Opened, Closed, ClosedAfter
<1>5. CASE Start \/ InitStreams \/ Refuse \/ Clear \/ quit
  <2>1. UNCHANGED <<job, i, written>>
    BY <1>5 DEF Start, InitStreams, Refuse, Clear, quit
  <2> QED BY <1>4, <1>5, <2>1 DEF Start, InitStreams, Refuse, Clear, quit
<1>6. CASE NewCurve \/ Reject
  <2>1. UNCHANGED <<job, i, written, status>> /\ pc' \in Stages /\ pc \in Stages \cup {"loop"}
    BY <1>6 DEF NewCurve, Reject, FirstStage
  <2> QED BY <1>4, <2>1
<1>7. CASE AskField \/ AskA \/ AskB \/ AskSeed
  <2>1. UNCHANGED <<job, i, written>>
    BY <1>7, AskMoves
  <2> QED BY <1>4, <1>7, <2>1, AskMoves
<1>8. CASE FirstB \/ ReleaseB \/ CloneB
  <2>1. UNCHANGED <<job, i, written>>
    BY <1>8, DrawMoves
  <2> QED BY <1>4, <1>8, <2>1, DrawMoves
<1>9. CASE CmNext /\ UNCHANGED own
  <2>1. UNCHANGED <<job, i, written>>
    BY <1>9, CmMoves
  <2> QED BY <1>4, <1>9, <2>1, CmMoves
<1>10. CASE Expire
  <2>1. UNCHANGED <<job, i, written, status>> /\ pc' \in Stages /\ pc \in Stages
    BY <1>10 DEF Expire, FirstStage, PhaseInv
  <2> QED BY <1>4, <2>1
<1>11. CASE UNCHANGED vars
  <2>1. UNCHANGED <<job, i, written, status, pc>>
    BY <1>11 DEF vars
  <2> QED BY <1>4, <2>1
<1> QED
  BY <1>1, <1>2, <1>3, <1>5, <1>6, <1>7, <1>8, <1>9, <1>10, <1>11 DEF Next


------------------------------------------------------------------------------
(* The memory.                                                               *)

\* What a step of cm_any.c does to the caches.
LEMMA CmMemory ==
  ASSUME IInv, CmNext
  PROVE  \/ pc \notin {"search", "keep", "replace"} /\ UNCHANGED <<min_d, min_roots>>
         \/ /\ pc = "draw" /\ pc' = "search"
            /\ min_d'.mem = (IF min_d.mem = "live" THEN "freed" ELSE "blank")
            /\ min_roots' = min_roots
         \/ pc = "search" /\ pc' = "keep" /\ min_d'.mem = "stack" /\ min_roots' = min_roots
         \/ pc = "keep" /\ pc' = "roots" /\ min_d'.mem = "live" /\ min_roots' = min_roots
         \/ pc = "roots" /\ pc' = "replace" /\ min_roots'.mem = "freed" /\ min_d' = min_d
         \/ /\ pc \in {"roots", "replace"} /\ pc' \in {"own", "construct"}
            /\ min_roots'.mem = "live" /\ min_d' = min_d
         \/ /\ pc = "construct" /\ pc' \in {"construct", "decide", "walk"}
            /\ min_roots'.mem = min_roots.mem /\ min_d' = min_d
<1> USE DEF IInv, Structs
<1>1. CASE ReuseRoots \/ Own \/ NoCurve \/ WalkDown
  BY <1>1 DEF ReuseRoots, Own, NoCurve, WalkDown, Undefined
<1>2. CASE ReleaseDiscriminant
  BY <1>2 DEF ReleaseDiscriminant, ReleaseWith, Undefined, Discriminant, Blank
<1>3. CASE Search
  BY <1>3 DEF Search, Discriminant
<1>4. CASE Keep
  BY <1>4 DEF Keep, Discriminant
<1>5. CASE ReleaseRoots
  BY <1>5 DEF ReleaseRoots, Undefined, Roots
<1>6. CASE ReplaceRoots \/ MakeRoots
  BY <1>6 DEF ReplaceRoots, MakeRoots, NewRoots, Roots
<1>7. CASE Construct
  BY <1>7 DEF Construct, Roots
<1> QED BY <1>1, <1>2, <1>3, <1>4, <1>5, <1>6, <1>7 DEF CmNext

\* The clone of b, which is for one curve object at a time.
LEMMA CloneMemory ==
  ASSUME MemoryInv, FirstB \/ ReleaseB \/ CloneB
  PROVE  /\ cache' = Cache(cache'.b, cache'.owner, cache'.mem)
         /\ \/ pc' = "decide" /\ cache'.mem = "live"
            \/ pc' = "clone" /\ cache'.mem = "freed"
            \/ pc' = "undefined" /\ cache'.mem = "freed" /\ cache.mem # "live"
         /\ pc' = "undefined" => pc = "draw" /\ cache.mem # "none"
         /\ UNCHANGED cmvars
<1>1. CASE FirstB \/ CloneB
  BY <1>1 DEF FirstB, CloneB, Draws, Cache
<1>2. CASE ReleaseB
  BY <1>2 DEF ReleaseB, MemoryInv, Cache
<1> QED BY <1>1, <1>2

\* Steps of main, of the loop and of the generators that ask.
Elsewise ==
  \/ Start \/ InitStreams \/ Refuse \/ Begin \/ NewCurve \/ Write \/ End \/ quit \/ Reject
  \/ AskField \/ AskA \/ AskB \/ AskSeed

LEMMA ElsewiseKeeps ==
  ASSUME Elsewise
  PROVE  /\ UNCHANGED <<job, cmvars, cache>>
         /\ pc \notin CmStages \cup {"clone", "undefined"}
         /\ pc' \notin CmStages \cup {"clone"}
         /\ pc' = "undefined" => ~job.cli
<1>1. CASE Start \/ InitStreams \/ Refuse \/ Begin \/ Write \/ End \/ quit
  BY <1>1 DEF Start, InitStreams, Refuse, Begin, Write, End, quit
<1>2. CASE NewCurve \/ Reject
  BY <1>2 DEF NewCurve, Reject, FirstStage
<1>3. CASE AskField \/ AskA \/ AskB \/ AskSeed
  BY <1>3, AskMoves
<1> QED BY <1>1, <1>2, <1>3 DEF Elsewise

LEMMA MemoryStep ==
  ASSUME IInv, PhaseInv, MemoryInv, LeakInv, [Next]_vars PROVE MemoryInv'
<1> USE DEF MemoryInv
<1>1. CASE Elsewise
  <2>1. pc' \in Before \cup {"quit", "exited"} => pc \in Before \cup {"quit", "exited"}
    BY <1>1, AskMoves
       DEF Elsewise, Start, InitStreams, Refuse, Begin, NewCurve, Write, End, quit, Reject,
           FirstStage
  <2>2. pc' = "exited" => open' = {}
    BY <1>1, AskMoves
       DEF Elsewise, Start, InitStreams, Refuse, Begin, NewCurve, Write, End, quit, Reject,
           FirstStage
  <2> QED BY <1>1, <2>1, <2>2, ElsewiseKeeps
<1>2. CASE FirstB \/ ReleaseB \/ CloneB
  <2>1. job.kind \in {"nums", "family"}
    BY <1>2, DrawMoves DEF PhaseInv
  <2> QED BY <1>2, <2>1, DrawMoves, CloneMemory
<1>3. CASE CmNext /\ UNCHANGED own
  BY <1>3, CmMoves DEF PhaseInv
<1>4. CASE Clear
  <2>1. cache' = Cache(cache'.b, cache'.owner, cache'.mem) /\ cache'.mem = "none"
    BY <1>4 DEF Clear, Cache
  <2>2. min_d'.mem = "none" /\ min_roots'.mem = "none"
    BY <1>4 DEF Clear, IInv, Structs, Discriminant, Roots
  <2> QED BY <1>4, <2>1, <2>2 DEF Clear
<1>5. CASE Expire
  BY <1>5 DEF Expire, FirstStage
<1>6. CASE UNCHANGED vars
  BY <1>6 DEF vars
<1> QED BY <1>1, <1>2, <1>3, <1>4, <1>5, <1>6 DEF Next, Elsewise

LEMMA DefinedStep ==
  ASSUME IInv, PhaseInv, MemoryInv, DefinedInv, [Next]_vars PROVE DefinedInv'
<1> USE DEF DefinedInv
<1>1. CASE Elsewise
  BY <1>1, ElsewiseKeeps
<1>2. CASE FirstB \/ ReleaseB \/ CloneB
  <2>1. job.kind \in {"nums", "family"}
    BY <1>2, DrawMoves DEF PhaseInv
  <2>2. UNCHANGED <<job, cmvars>> /\ min_d.mem = "none" /\ min_roots.mem = "none"
    BY <1>2, <2>1, DrawMoves DEF MemoryInv
  <2> QED BY <1>2, <2>2, CloneMemory, DrawMoves
<1>3. CASE CmNext /\ UNCHANGED own
  <2>1. IsCm /\ cache.mem = "none" /\ UNCHANGED <<job, cache>>
    BY <1>3, CmMoves DEF PhaseInv, MemoryInv
  <2>2. pc' = "undefined" => job.timeout \/ job.kind = "unique"
    <3>1. CASE ReleaseDiscriminant
      BY <3>1 DEF ReleaseDiscriminant, ReleaseWith, Undefined
    <3>2. CASE ReleaseRoots
      BY <3>2 DEF ReleaseRoots, Undefined
    <3>3. CASE NoCurve
      BY <2>1, <3>3 DEF NoCurve, Undefined, IInv, Reusable
    <3> QED
      BY <1>3, <3>1, <3>2, <3>3
         DEF CmNext, ReuseRoots, Search, Keep, ReplaceRoots, MakeRoots, Own, Construct, WalkDown
  <2>3. pc \notin {"undefined", "clone"} /\ pc' # "clone"
    BY <1>3, CmMoves
  <2>4. ~job.timeout => /\ pc' \notin {"search", "keep", "undefined"}
                             => min_d'.mem \in {"none", "live"}
                        /\ pc' \notin {"replace", "undefined"}
                             => min_roots'.mem \in {"none", "live"}
    BY <1>3, <2>3, CmMemory
  <2> QED BY <2>1, <2>2, <2>3, <2>4
<1>4. CASE Clear
  <2>1. cache'.mem \in {"none", cache.mem}
    BY <1>4 DEF Clear, MemoryInv, Cache
  <2>2. min_d'.mem \in {"none", min_d.mem} /\ min_roots'.mem \in {"none", min_roots.mem}
    BY <1>4 DEF Clear, IInv, Structs, Discriminant, Roots
  <2> QED BY <1>4, <2>1, <2>2 DEF Clear
<1>5. CASE Expire
  BY <1>5 DEF Expire, FirstStage
<1>6. CASE UNCHANGED vars
  BY <1>6 DEF vars
<1> QED BY <1>1, <1>2, <1>3, <1>4, <1>5, <1>6 DEF Next, Elsewise

\* What cm_any.c adds to the lists that are lost, and to whom the others belong.
LEMMA CmLeaks ==
  ASSUME IInv, PhaseInv, MemoryInv, DefinedInv, LeakInv, CmNext, UNCHANGED own,
         ~job.timeout
  PROVE  LeakInv'
<1>0. /\ IsCm /\ UNCHANGED <<job, curve, i>>
      /\ i \in Nat /\ job.count \in Nat /\ i < job.count /\ leaked \in Nat
      /\ pc \in Stages
  BY CmMoves, CurveCounts DEF PhaseInv, LeakInv
<1> USE <1>0 DEF LeakInv, Owned
<1>1. CASE ReuseRoots \/ NoCurve \/ WalkDown
  <2>1. UNCHANGED <<min_d, min_roots, min_curve, leaked>>
    BY <1>1 DEF ReuseRoots, NoCurve, WalkDown, Undefined
  <2>2. \/ pc = "draw" /\ pc' = "construct" /\ min_curve = curve
        \/ pc \in {"construct", "walk"} /\ pc' \in {"draw", "undefined"}
        \/ pc = "walk" /\ pc' = "roots" /\ ~call'.fresh
    BY <1>1 DEF ReuseRoots, HasRoots, NoCurve, WalkDown, Undefined
  <2> QED BY <2>1, <2>2
<1>2. CASE ReleaseDiscriminant
  <2>1. min_d.mem \notin {"freed", "stack"}
    <3>1. pc = "draw"
      BY <1>2 DEF ReleaseDiscriminant, ReleaseWith, Undefined
    <3> QED BY <3>1 DEF DefinedInv
  <2>2. /\ pc = "draw" /\ pc' = "search"
        /\ UNCHANGED <<min_roots, min_curve, leaked>>
        /\ call'.fresh = (min_d.mem = "none" \/ min_curve # curve)
    BY <1>2, <2>1 DEF ReleaseDiscriminant, ReleaseWith
  <2>3. min_d'.mem \in {"freed", "blank"}
    BY <1>2, <2>1 DEF ReleaseDiscriminant, ReleaseWith, Discriminant, Blank, IInv, Structs
  <2> QED BY <2>2, <2>3
<1>3. CASE Search
  BY <1>3 DEF Search, Discriminant
<1>4. CASE Keep
  BY <1>4 DEF Keep, Discriminant, IInv, Structs
<1>5. CASE ReleaseRoots
  BY <1>5 DEF ReleaseRoots, Renew, Undefined, Roots, IInv, Structs
<1>6. CASE ReplaceRoots
  BY <1>6 DEF ReplaceRoots, NewRoots, Roots, IInv, Underway
<1>7. CASE MakeRoots
  <2>1. min_roots'.mem = "live" /\ min_d.mem = "live" /\ UNCHANGED <<min_d, min_curve, call>>
    BY <1>7 DEF MakeRoots, NewRoots, Roots, IInv, Underway
  <2>2. pc = "roots" /\ pc' = (IF call.fresh THEN "own" ELSE "construct")
    BY <1>7 DEF MakeRoots
  <2>3. CASE min_roots.mem = "none"
    <3>1. leaked = 0 /\ leaked' = 0
      BY <1>7, <2>2, <2>3 DEF MakeRoots
    <3> QED BY <2>1, <2>2, <3>1
  <2>4. CASE min_roots.mem # "none"
    <3>1. call.fresh /\ leaked' = leaked + 1
      BY <1>7, <2>4 DEF MakeRoots, Renew
    <3>2. min_curve # curve /\ leaked + 1 <= i
      BY <2>2, <2>4, <3>1
    <3> QED BY <2>1, <2>2, <3>1, <3>2
  <2> QED BY <2>3, <2>4
<1>8. CASE Own
  BY <1>8 DEF Own
<1>9. CASE Construct
  BY <1>9 DEF Construct, Roots, IInv, Structs
<1> QED BY <1>1, <1>2, <1>3, <1>4, <1>5, <1>6, <1>7, <1>8, <1>9 DEF CmNext

LEMMA CmCounts == ASSUME CmNext, leaked \in Nat PROVE leaked' \in Nat
BY DEF CmNext, ReuseRoots, ReleaseDiscriminant, ReleaseWith, Search, Keep, ReleaseRoots,
       ReplaceRoots, MakeRoots, Own, Construct, NoCurve, WalkDown, Undefined

LEMMA LeakStep ==
  ASSUME IInv, PhaseInv, MemoryInv, DefinedInv, LeakInv, [Next]_vars PROVE LeakInv'
<1> USE DEF LeakInv, Owned
<1>0. i \in Nat /\ job.count \in Nat /\ i <= job.count /\ job.count # 0
  BY CurveCounts
<1>1. CASE Elsewise
  <2>1. UNCHANGED <<job, cmvars>>
    BY <1>1, ElsewiseKeeps
  <2>2. CASE Start \/ InitStreams \/ Refuse \/ Begin \/ End \/ quit
    BY <1>0, <2>1, <2>2 DEF Start, InitStreams, Refuse, Begin, End, quit, PhaseInv, MemoryInv
  <2>3. CASE NewCurve
    BY <1>0, <2>1, <2>3 DEF NewCurve, FirstStage
  <2>4. CASE Reject
    BY <1>0, <2>1, <2>4 DEF Reject, FirstStage
  <2>5. CASE Write
    BY <1>0, <2>1, <2>5 DEF Write
  <2>6. CASE AskField \/ AskA \/ AskB \/ AskSeed
    BY <2>1, <2>6, AskMoves DEF PhaseInv
  <2> QED BY <1>1, <2>2, <2>3, <2>4, <2>5, <2>6 DEF Elsewise
<1>2. CASE FirstB \/ ReleaseB \/ CloneB
  BY <1>2, DrawMoves, CloneMemory DEF PhaseInv
<1>3. CASE CmNext /\ UNCHANGED own
  <2>1. CASE ~job.timeout
    BY <1>3, <2>1, CmLeaks
  <2>2. CASE job.timeout
    BY <1>3, <2>2, CmMoves, CmCounts
  <2> QED BY <2>1, <2>2, JobAssumption DEF PhaseInv
<1>4. CASE Clear
  BY <1>0, <1>4 DEF Clear
<1>5. CASE Expire
  BY <1>5 DEF Expire
<1>6. CASE UNCHANGED vars
  BY <1>6 DEF vars
<1> QED BY <1>1, <1>2, <1>3, <1>4, <1>5, <1>6 DEF Next, Elsewise

\* The strengthening holds in every state.
LEMMA EndInvariant == Spec => [](IInv /\ EndInv)
<1>1. IInv /\ EndInv /\ [Next]_vars => EndInv'
  BY PhaseStep, WrittenStep, MemoryStep, DefinedStep, LeakStep DEF EndInv
<1> QED BY Invariant, InitEnd, <1>1, PTL DEF Spec

------------------------------------------------------------------------------
(* What the invariant says of the end.                                       *)

\* The memory and the streams, for every command line: there is as much of the
\* caches at the end as before the beginning, and of the lists of roots that a new
\* curve object makes unreachable there are fewer than curves.
THEOREM MemoryGivenBack == Spec => []EverythingFreed
<1>1. IInv /\ EndInv => EverythingFreed
  <2>1. SUFFICES ASSUME IInv, EndInv PROVE EverythingFreed
    OBVIOUS
  <2> USE <2>1
  <2>2. pc = "exited" => /\ curve = NULL /\ open = {}
                         /\ {cache.mem, min_d.mem, min_roots.mem} = {"none"}
    BY DEF EndInv, PhaseInv, MemoryInv
  <2>3. leaked < job.count \/ job.timeout
    BY CurveCounts DEF EndInv, LeakInv, MemoryInv
  <2>4. pc = "undefined" => job.timeout \/ job.kind = "unique" \/ ~job.cli
    BY DEF EndInv, DefinedInv
  <2> QED BY <2>2, <2>3, <2>4 DEF EverythingFreed
<1> QED BY EndInvariant, <1>1, PTL

Places(s, x) == {k \in 1 .. Len(s) : s[k] = x}

LEMMA EvenPlaces ==
  ASSUME NEW m \in Nat
  PROVE  Cardinality({2 * j : j \in 1 .. m}) = m
<1> DEFINE S == {2 * j : j \in 1 .. m}
           f == [j \in 1 .. m |-> 2 * j]
<1>1. f \in Bijection(1 .. m, S)
  <2>1. f \in [1 .. m -> S]
    OBVIOUS
  <2>2. \A a, b \in 1 .. m : f[a] = f[b] => a = b
    OBVIOUS
  <2>3. \A t \in S : \E j \in 1 .. m : f[j] = t
    OBVIOUS
  <2> HIDE DEF f, S
  <2> QED BY <2>1, <2>2, <2>3 DEF Bijection, Injection, Surjection, IsInjective
<1> HIDE DEF f, S
<1>2. ExistsBijection(1 .. m, S)
  BY <1>1 DEF ExistsBijection
<1>3. Cardinality(S) = m
  BY <1>2, FS_CountingElements
<1> QED BY <1>3 DEF S

\* Where a closed array has its tokens.
LEMMA TokenPlaces ==
  ASSUME NEW m \in Nat, NEW n \in {2 * m, 2 * m + 1}, n >= 1, ClosedAfter(n)
  PROVE  /\ Count("[") = 1 /\ Count("]") = 1 /\ Count("curve") = m
<1>0. /\ n \in Nat /\ Len(written) = n + 1
      /\ written[1] = "[" /\ written[n + 1] = "]"
      /\ \A k \in 2 .. n : written[k] = Token(k)
  BY DEF ClosedAfter, Alternates
<1>1. \A k \in 1 .. n + 1 : k = 1 \/ k \in 2 .. n \/ k = n + 1
  BY <1>0
<1>2. 1 \in 1 .. n + 1 /\ n + 1 \in 1 .. n + 1
  BY <1>0
<1>3. \A k : Token(k) \in {"curve", ","}
  BY DEF Token
<1>4. Places(written, "[") = {1}
  BY <1>0, <1>1, <1>2, <1>3 DEF Places
<1>5. Places(written, "]") = {n + 1}
  BY <1>0, <1>1, <1>2, <1>3 DEF Places
<1>6. Places(written, "curve") = {2 * j : j \in 1 .. m}
  <2>1. ASSUME NEW j \in 1 .. m
        PROVE  2 * j \in 2 .. n /\ 2 * j \in 1 .. n + 1 /\ Token(2 * j) = "curve"
    <3>1. 2 * j \in 2 .. n /\ 2 * j \in 1 .. n + 1 /\ (2 * j) % 2 = 0
      BY <1>0
    <3> QED BY <3>1 DEF Token
  <2>2. ASSUME NEW k \in 2 .. n, Token(k) = "curve"
        PROVE  \E j \in 1 .. m : k = 2 * j
    <3>1. k % 2 = 0
      BY <2>2 DEF Token
    <3>2. PICK j \in Int : k = 2 * j
      BY <1>0, <3>1
    <3>3. j \in 1 .. m
      BY <1>0, <3>2
    <3> QED BY <3>2, <3>3
  <2> QED BY <1>0, <1>1, <2>1, <2>2 DEF Places
<1>7. Cardinality({1}) = 1 /\ Cardinality({n + 1}) = 1
  BY FS_Singleton
<1>8. \A x : Count(x) = Cardinality(Places(written, x))
  BY DEF Count, Places
<1> QED BY <1>4, <1>5, <1>6, <1>7, <1>8, EvenPlaces

\* Output, for every command line: what a finished program has written is the array
\* it was asked for, or not an array although it is closed like one.
THEOREM OutputIsArray == Spec => []ArrayWritten
<1>1. EndInv => ArrayWritten
  <2>1. SUFFICES ASSUME EndInv, pc = "exited"
                 PROVE  /\ status \in {"success", "failure"}
                        /\ status = "success" => IsArray /\ Count("curve") = job.count
                        /\ status = "failure" =>
                             \/ written = <<>>
                             \/ Count("curve") < job.count /\ (IsArray <=> Count("curve") = 0)
    BY DEF ArrayWritten
  <2> DEFINE n == 2 * i + (IF i = job.count THEN 0 ELSE 1)
  <2>2. \/ written = <<>> /\ status = "failure"
        \/ Closed /\ status = (IF i = job.count THEN "success" ELSE "failure")
    BY <2>1 DEF EndInv, WrittenInv
  <2>3. CASE written = <<>> /\ status = "failure"
    BY <2>3
  <2>4. CASE Closed /\ status = (IF i = job.count THEN "success" ELSE "failure")
    <3>1. i \in Nat /\ job.count \in Nat /\ job.count # 0 /\ i <= job.count
      BY <2>1, CurveCounts DEF EndInv
    <3>2. n \in {2 * i, 2 * i + 1} /\ n \in Nat /\ n >= 1 /\ ClosedAfter(n)
      BY <2>4, <3>1 DEF Closed
    <3> HIDE DEF n
    <3>3. Count("[") = 1 /\ Count("]") = 1 /\ Count("curve") = i
      BY <3>1, <3>2, TokenPlaces
    <3>4. /\ Len(written) = n + 1 /\ written[Len(written)] = "]"
          /\ Head(written) = "["
          /\ \A k \in 2 .. Len(written) - 1 :
               written[k] = (IF k % 2 = 0 THEN "curve" ELSE ",")
      <4>1. /\ written \in Seq(Tokens) /\ Len(written) = n + 1 /\ written[1] = "["
            /\ written[n + 1] = "]" /\ Alternates(written, n)
        BY <3>2 DEF ClosedAfter
      <4>2. Head(written) = written[1]
        BY <3>2, <4>1
      <4>3. Len(written) - 1 = n
        BY <3>2, <4>1
      <4> QED BY <4>1, <4>2, <4>3 DEF Alternates, Token
    <3>5. IsArray <=> (n + 1) % 2 = 1 \/ n + 1 = 2
      BY <3>3, <3>4 DEF IsArray
    <3>6. CASE i = job.count
      <4>1. (n + 1) % 2 = 1
        BY <3>1, <3>6 DEF n
      <4> QED BY <2>4, <3>3, <3>5, <3>6, <4>1
    <3>7. CASE i # job.count
      <4>1. n + 1 = 2 * i + 2 /\ (2 * i + 2) % 2 = 0
        BY <3>1, <3>7 DEF n
      <4>2. n + 1 = 2 <=> i = 0
        BY <3>1, <4>1
      <4> QED BY <2>4, <3>1, <3>3, <3>5, <3>7, <4>1, <4>2
    <3> QED BY <3>6, <3>7
  <2> QED BY <2>2, <2>3, <2>4
<1> QED BY EndInvariant, <1>1, PTL

------------------------------------------------------------------------------
(* What is kept from one call of a generator to the next is ahead of all that *)
(* was drawn before.                                                          *)

LOCAL INSTANCE FiniteSetsExt

\* Where the roots of a discriminant begin among all that can be drawn.
Span(D) == abs(D) * (MaxRoots + 1)

\* The cached coefficient is the last one drawn, and belongs to a curve object.
CoefficientInv ==
  /\ cache.b \in Nat
  /\ cache.owner # NULL => job.kind \in {"nums", "family"} /\ drawn = cache.b
  /\ cache.mem = "none" /\ pc \notin {"quit", "exited"} => cache.owner = NULL

\* The cached discriminant and roots are those drawn last, or later ones.  A list of
\* new roots starts at the first, which is ahead as long as the discriminant is new;
\* cm_gen_curve_unique makes the list again for the same discriminant, but always
\* looks for a new one first.
New ==
  \/ pc \in {"keep", "roots", "replace", "own", "walk"}
  \/ pc = "construct" /\ job.kind = "unique"

RootInv ==
  /\ min_d.D \in Int
  /\ min_d.mem \in {"none", "blank", "live", "freed", "stack"}
  /\ min_roots.total \in 0 .. MaxRoots
  /\ min_roots.used \in 0 .. min_roots.total
  /\ IsCm /\ pc \notin {"quit", "exited"} =>
       /\ min_d.mem \in {"none", "blank"} => min_d.D = 0 /\ drawn = 0
       /\ drawn <= Span(min_d.D) + min_roots.used
       /\ New => drawn <= Span(min_d.D)

DrawnInv == drawn \in Nat /\ CoefficientInv /\ RootInv

------------------------------------------------------------------------------
(* good_qdisc_minimal finds something larger.                                *)

LEMMA MinIsLeast == ASSUME NEW S \in SUBSET Nat, S # {} PROVE Min(S) \in S
<1> DEFINE less == {pair \in Nat \X Nat : pair[1] < pair[2]}
<1>1. IsWellFoundedOn(less, Nat)
  BY NatLessThanWellFounded, Zenon DEF OpToRel
<1> HIDE DEF less
<1>2. PICK m \in S : \A n \in S : ~(<<n, m>> \in less)
  BY <1>1, WFMin
<1>3. \A a, b \in Nat : a < b => <<a, b>> \in less
  BY DEF less
<1>4. ASSUME NEW n \in S PROVE m <= n
  <2>1. m \in Nat /\ n \in Nat
    OBVIOUS
  <2>2. ~(n < m)
    BY <1>2, <1>3, <2>1, Zenon
  <2> QED BY <2>1, <2>2
<1> QED BY <1>4 DEF Min

LEMMA Larger ==
  ASSUME NEW D \in Int, candidates(D) # {}
  PROVE  good_qdisc_minimal(D) \in Int /\ abs(good_qdisc_minimal(D)) > abs(D)
<1>1. candidates(D) \subseteq Nat /\ \A d \in candidates(D) : d > abs(D)
  BY HasElementAssumption DEF candidates
<1>2. PICK d \in candidates(D) : good_qdisc_minimal(D) = quaddisc(d)
  BY <1>1, MinIsLeast DEF good_qdisc_minimal
<1>3. d \in Nat /\ d > abs(D) /\ quaddisc(d) \in {-d, -4 * d}
  BY <1>1 DEF quaddisc
<1>4. abs(-d) = d /\ abs(-4 * d) = 4 * d
  BY <1>3 DEF abs
<1>5. abs(D) \in Nat
  BY DEF abs
<1> QED BY <1>2, <1>3, <1>4, <1>5

LEMMA Spans ==
  /\ \A D \in Int : Span(D) \in Nat
  /\ Span(0) = 0
  /\ \A D, E \in Int : abs(E) > abs(D) => Span(E) >= Span(D) + MaxRoots + 1
<1>1. MaxRoots \in Nat /\ \A D \in Int : abs(D) \in Nat
  BY MaxRootsAssumption DEF abs
<1>2. \A a, w \in Nat : a * w \in Nat
  OBVIOUS
<1>3. \A a, b, w \in Nat : a > b => a * w >= b * w + w
  OBVIOUS
<1>4. MaxRoots + 1 \in Nat
  BY <1>1
<1>5. \A D \in Int : Span(D) \in Nat
  BY <1>1, <1>2, <1>4 DEF Span
<1>6. Span(0) = 0
  BY <1>1 DEF Span, abs
<1>7. ASSUME NEW D \in Int, NEW E \in Int, abs(E) > abs(D)
      PROVE  Span(E) >= Span(D) + MaxRoots + 1
  <2>1. abs(E) * (MaxRoots + 1) >= abs(D) * (MaxRoots + 1) + (MaxRoots + 1)
    BY <1>1, <1>3, <1>4, <1>7
  <2> QED BY <1>1, <1>5, <2>1 DEF Span
<1> QED BY <1>5, <1>6, <1>7

------------------------------------------------------------------------------
(* Every step keeps it.                                                      *)

LEMMA InitDraws == Init => DrawnInv
BY MaxRootsAssumption, Spans
   DEF Init, CmInit, DrawnInv, CoefficientInv, RootInv, New, Cache, Discriminant, Roots

\* Steps that leave everything alone that is kept or was drawn.
LEMMA KeptDraws ==
  ASSUME DrawnInv, UNCHANGED <<job, min_d, min_roots, cache, drawn>>,
         pc \in {"quit", "exited"} => pc' \in {"quit", "exited"}, ~New'
  PROVE  DrawnInv'
BY DEF DrawnInv, CoefficientInv, RootInv

LEMMA ElsewiseDraws == ASSUME Elsewise, DrawnInv PROVE DrawnInv'
<1>1. UNCHANGED <<job, min_d, min_roots, cache, drawn>> /\ ~New'
  BY ElsewiseKeeps, AskMoves
     DEF Elsewise, Start, InitStreams, Refuse, Begin, NewCurve, Write, End, quit, Reject, New
<1>2. pc \in {"quit", "exited"} => pc' \in {"quit", "exited"}
  BY AskMoves
     DEF Elsewise, Start, InitStreams, Refuse, Begin, NewCurve, Write, End, quit, Reject
<1> QED BY <1>1, <1>2, KeptDraws

LEMMA CoefficientDraws ==
  ASSUME FirstB \/ ReleaseB \/ CloneB, IInv, PhaseInv, MemoryInv, DrawnInv
  PROVE  /\ DrawnInv'
         /\ pc' = "decide" /\ cache.owner = curve => drawn' > drawn
<1>1. /\ job.kind \in {"nums", "family"} /\ curve # NULL
      /\ UNCHANGED <<job, min_d, min_roots>>
      /\ pc \notin {"quit", "exited"} /\ ~New'
  BY DrawMoves DEF PhaseInv, New
<1>2. /\ cache.b \in Nat
      /\ cache.mem = "none" => cache.owner = NULL
      /\ cache.owner # NULL => drawn = cache.b
  BY <1>1 DEF DrawnInv, CoefficientInv
<1>3. RootInv'
  BY <1>1 DEF DrawnInv, RootInv
<1>4. CASE FirstB \/ CloneB
  <2>1. PICK b \in Nat : Draws(b) /\ (cache.owner = curve => b > cache.b)
    BY <1>1, <1>2, <1>4 DEF FirstB, CloneB, NextB, bn
  <2>2. cache'.b = b /\ cache'.owner = curve /\ cache'.mem = "live" /\ drawn' = b
    BY <2>1 DEF Draws, Cache
  <2> QED BY <1>1, <1>2, <1>3, <2>1, <2>2 DEF DrawnInv, CoefficientInv
<1>5. CASE ReleaseB
  <2>1. /\ cache'.b = cache.b /\ cache'.owner = cache.owner /\ cache'.mem = "freed"
        /\ drawn' = drawn /\ pc' # "decide"
    BY <1>5 DEF ReleaseB, MemoryInv, Cache
  <2> QED BY <1>1, <1>2, <1>3, <2>1 DEF DrawnInv, CoefficientInv
<1> QED BY <1>4, <1>5

LEMMA ClearDraws == ASSUME Clear, IInv, MemoryInv, DrawnInv PROVE DrawnInv'
<1>1. /\ cache'.b = cache.b /\ cache'.owner = cache.owner
      /\ UNCHANGED <<job, drawn>> /\ pc' = "quit"
  BY DEF Clear, MemoryInv, Cache
<1>2. /\ min_d'.D = min_d.D /\ min_d'.mem \in {"none", min_d.mem}
      /\ min_roots'.used = min_roots.used /\ min_roots'.total = min_roots.total
  BY DEF Clear, IInv, Structs, Discriminant, Roots
<1> QED BY <1>1, <1>2 DEF DrawnInv, CoefficientInv, RootInv

\* The complex multiplication method: of all steps only the search changes the
\* discriminant, and only a curve changes what is drawn.
LEMMA CmDraws ==
  ASSUME CmNext, UNCHANGED own, IInv, PhaseInv, DefinedInv, DrawnInv
  PROVE  DrawnInv' /\ (pc' = "decide" => drawn' > drawn)
<1>1. /\ IsCm /\ UNCHANGED <<job, cache>>
      /\ pc \notin {"quit", "exited"} /\ pc' \notin {"quit", "exited"}
  BY CmMoves DEF PhaseInv
<1>2. CoefficientInv /\ cache.owner = NULL
  BY <1>1 DEF DrawnInv, CoefficientInv
<1>3. CoefficientInv'
  BY <1>1, <1>2 DEF CoefficientInv
<1>4. /\ drawn \in Nat /\ min_d.D \in Int /\ MaxRoots \in Nat \ {0}
      /\ min_d.mem \in {"none", "blank", "live", "freed", "stack"}
      /\ min_roots.total \in 0 .. MaxRoots
      /\ min_roots.used \in 0 .. min_roots.total
      /\ min_d.mem \in {"none", "blank"} => min_d.D = 0 /\ drawn = 0
      /\ drawn <= Span(min_d.D) + min_roots.used
      /\ New => drawn <= Span(min_d.D)
      /\ Span(min_d.D) \in Nat
  BY <1>1, Spans, MaxRootsAssumption DEF DrawnInv, RootInv
<1> SUFFICES /\ drawn' \in Nat /\ RootInv'
             /\ pc' = "decide" => drawn' > drawn
  BY <1>3 DEF DrawnInv
<1>5. CASE ReuseRoots \/ Own \/ NoCurve \/ WalkDown
  <2>1. UNCHANGED <<min_d, min_roots, drawn>> /\ pc' # "decide" /\ (New' => New)
    BY <1>1, <1>5 DEF ReuseRoots, HasRoots, Own, NoCurve, WalkDown, Undefined, New
  <2> QED BY <1>1, <1>4, <2>1 DEF RootInv
<1>6. CASE ReleaseDiscriminant
  <2>1. /\ UNCHANGED <<min_roots, drawn>> /\ pc' # "decide" /\ ~New'
        /\ \/ min_d' = min_d
           \/ min_d'.D = min_d.D /\ min_d'.mem = "freed"
           \/ min_d.mem \in {"none", "blank"} /\ min_d'.D = 0 /\ min_d'.mem = "blank"
    BY <1>4, <1>6
       DEF ReleaseDiscriminant, ReleaseWith, Undefined, New, IInv, Structs, Discriminant, Blank
  <2> QED BY <1>1, <1>4, <2>1 DEF RootInv
<1>7. CASE Search
  <2>1. /\ UNCHANGED <<min_roots, drawn>> /\ pc' = "keep"
        /\ min_d'.D = good_qdisc_minimal(min_d.D) /\ min_d'.mem = "stack"
    BY <1>7 DEF Search, Discriminant
  <2>2. min_d'.D \in Int /\ abs(min_d'.D) > abs(min_d.D)
    BY <1>4, <1>7, <2>1, Larger DEF Search
  <2>3. Span(min_d'.D) >= Span(min_d.D) + MaxRoots + 1 /\ Span(min_d'.D) \in Nat
    BY <1>4, <2>2, Spans
  <2>4. drawn <= Span(min_d'.D)
    BY <1>4, <2>3
  <2> QED BY <1>1, <1>4, <2>1, <2>2, <2>3, <2>4 DEF RootInv
<1>8. CASE Keep
  <2>1. /\ UNCHANGED <<min_roots, drawn>> /\ pc = "keep" /\ pc' = "roots"
        /\ min_d'.D = min_d.D /\ min_d'.mem = "live"
    BY <1>8 DEF Keep, IInv, Structs, Discriminant
  <2> QED BY <1>1, <1>4, <2>1 DEF RootInv, New
<1>9. CASE ReleaseRoots
  <2>1. /\ UNCHANGED <<min_d, drawn>> /\ pc = "roots" /\ pc' \in {"replace", "undefined"}
        /\ min_roots'.used = min_roots.used /\ min_roots'.total = min_roots.total
    BY <1>9 DEF ReleaseRoots, Undefined, IInv, Structs, Roots
  <2> QED BY <1>1, <1>4, <2>1 DEF RootInv, New
<1>10. CASE ReplaceRoots \/ MakeRoots
  <2>1. /\ UNCHANGED <<min_d, drawn>> /\ pc \in {"roots", "replace"} /\ pc' # "decide"
        /\ min_roots'.used = 0 /\ min_roots'.total \in 0 .. MaxRoots
    BY <1>4, <1>10 DEF ReplaceRoots, MakeRoots, NewRoots, Roots
  <2> QED BY <1>1, <1>4, <2>1 DEF RootInv, New
<1>11. CASE Construct
  <2>1. /\ UNCHANGED min_d /\ pc = "construct"
        /\ min_roots'.used = min_roots.used + 1 /\ min_roots'.total = min_roots.total
        /\ min_roots.used # min_roots.total
        /\ \/ pc' = "construct" /\ drawn' = drawn
           \/ pc' = "walk" /\ drawn' = drawn /\ job.kind = "unique"
           \/ pc' = "decide" /\ drawn' = Span(min_d.D) + min_roots'.used
    BY <1>11 DEF Construct, Exhausted, IInv, Structs, Roots, Span
  <2>2. min_roots'.used \in 0 .. min_roots'.total /\ min_d.mem = "live"
    BY <1>4, <2>1 DEF IInv, RootsMatch
  <2>3. CASE pc' = "decide"
    BY <1>1, <1>4, <2>1, <2>2, <2>3 DEF RootInv, New
  <2>4. CASE pc' # "decide"
    BY <1>1, <1>4, <2>1, <2>2, <2>4 DEF RootInv, New
  <2> QED BY <2>3, <2>4
<1> QED
  BY <1>5, <1>6, <1>7, <1>8, <1>9, <1>10, <1>11 DEF CmNext

LEMMA DrawStep ==
  ASSUME IInv, EndInv, DrawnInv, [Next]_vars
  PROVE  /\ DrawnInv'
         /\ pc # "decide" /\ pc' = "decide" /\ (IsCm \/ cache.owner = curve) => drawn' > drawn
<1> USE DEF EndInv
<1>1. CASE Elsewise
  <2>1. pc' = "decide" => pc \in Stages /\ ~IsCm /\ job.kind \notin {"nums", "family"}
    BY <1>1, AskMoves
       DEF Elsewise, Start, InitStreams, Refuse, Begin, NewCurve, Write, End, quit, Reject,
           FirstStage, PhaseInv
  <2>2. pc' = "decide" => cache.owner # curve
    BY <2>1 DEF PhaseInv, DrawnInv, CoefficientInv
  <2> QED BY <1>1, <2>1, <2>2, ElsewiseDraws
<1>2. CASE FirstB \/ ReleaseB \/ CloneB
  <2>1. ~IsCm
    BY <1>2, DrawMoves DEF PhaseInv
  <2> QED BY <1>2, <2>1, CoefficientDraws
<1>3. CASE CmNext /\ UNCHANGED own
  BY <1>3, CmDraws
<1>4. CASE Clear
  BY <1>4, ClearDraws DEF Clear
<1>5. CASE Expire
  <2>1. /\ UNCHANGED <<job, min_d, min_roots, cache, drawn>>
        /\ pc \notin {"quit", "exited"} /\ pc' \in {"field", "seed", "draw"}
    BY <1>5 DEF Expire, FirstStage, PhaseInv
  <2> QED BY <2>1, KeptDraws DEF New
<1>6. CASE UNCHANGED vars
  BY <1>6 DEF vars, DrawnInv, CoefficientInv, RootInv, New
<1> QED BY <1>1, <1>2, <1>3, <1>4, <1>5, <1>6 DEF Next, Elsewise

\* nums_gen_b, family_gen_equation_iter, cm_gen_curve_any and cm_gen_curve_unique, for
\* every command line: whoever asks for the same curve object again, and every curve
\* of the complex multiplication method, gets what comes after all that was drawn.
THEOREM NothingDrawnTwice == Spec => Advances
<1>1. DrawnInv /\ IInv /\ EndInv /\ [Next]_vars => DrawnInv'
  BY DrawStep
<1>2. Spec => []DrawnInv
  BY InitDraws, EndInvariant, <1>1, PTL DEF Spec
<1>3. DrawnInv /\ IInv /\ EndInv /\ [Next]_vars
        => [pc # "decide" /\ pc' = "decide" /\ (IsCm \/ cache.owner = curve) => drawn' > drawn]_vars
  BY DrawStep
<1> QED BY EndInvariant, <1>2, <1>3, PTL DEF Spec, Advances
================================================================================
