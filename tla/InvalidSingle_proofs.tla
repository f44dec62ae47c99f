-------------------------- MODULE InvalidSingle_proofs --------------------------
(***************************************************************************)
(* Proofs about the driver with one thread, for any number of primes: who  *)
(* owns a curve_t, what the PARI stack still holds, and what was written,  *)
(* from the hand-over of `invalid` to the array of results until the       *)
(* results are freed; and that the driver implements InvalidCurves.        *)
(***************************************************************************)
EXTENDS InvalidSingle, FiniteSetTheorems, TLAPS

Early == {"start", "primes", "exited"}
Generating == {"loop", "gens", "points", "unroll"}
Closing == {"free", "done"}

TypeOK ==
  /\ nprimes \in 0 .. N
  /\ pc \in Early \cup Generating \cup {"save"} \cup Closing
  /\ order \subseteq 0 .. nprimes - 1
  /\ curves \in [Prime -> Object \cup {None}]
  /\ invalid \in Object \cup {None}
  /\ ncurves \in 0 .. nprimes
  /\ cursor \in 0 .. nprimes
  /\ count \in Nat
  /\ output \in Seq(Int)
  /\ heap \subseteq Object
  /\ avma \in Nat /\ btop \in Nat
  /\ depth \in [Object -> Nat]
  /\ live \subseteq Object

\* The curve_t at hand is nobody's result yet.
Unsaved == pc \in Generating \/ (pc = "save" /\ count = 0)

\* Every allocated curve_t has one owner: the driver, or one prime.
OwnInv ==
  /\ \A i, j \in Saved : i # j => curves[i] # curves[j]
  /\ \A i \in Saved : curves[i] \in heap
  /\ \A o \in heap : o = invalid \/ \E i \in Saved : curves[i] = o
  /\ pc \in Generating \cup {"save"} => invalid \in heap /\ nprimes > 0
  /\ Unsaved => \A i \in Saved : curves[i] # invalid
  /\ pc = "save" /\ ~Unsaved => \E i \in Saved : curves[i] = invalid
  /\ pc \in Early \cup Closing => invalid = None

\* The parameters of a result lie below the depth the stack goes back to.
DepthInv ==
  /\ \A i \in Saved : curves[i] \in live /\ depth[curves[i]] <= avma
  /\ pc \in {"gens", "points", "unroll"} =>
       btop <= avma /\ \A i \in Saved : depth[curves[i]] <= btop
  /\ pc = "save" => invalid \in live /\ depth[invalid] <= avma

\* A curve that was kept is wanted, and the loop that saves it misses no prime.
OrderInv ==
  /\ pc \in {"gens", "points"} => \E i \in order : Missing(i)
  /\ pc = "save" => \A i \in order : i >= cursor => ~Missing(i)
  /\ pc = "save" /\ count = 0 => \E i \in order : i < cursor /\ Missing(i)

\* What was written before the array is closed: a separator after the original curve
\* and after every other but the last.
OutputInv ==
  pc \in Generating \cup {"save"} =>
    /\ ncurves = Cardinality(Saved)
    /\ Len(output) = 2 * ncurves + (IF ncurves = nprimes THEN 2 ELSE 3)
    /\ output[1] = Begin /\ output[2] = Original
    /\ \A k \in 1 .. nprimes : 2 * k + 1 <= Len(output) => output[2 * k + 1] = Separator
    /\ \A k \in 1 .. ncurves : output[2 * k + 2] \in Saved
    /\ \A i \in Saved : \E k \in 1 .. ncurves : output[2 * k + 2] = i

\* Results are freed in order, and only when there is one for every prime.
PhaseInv ==
  /\ \A i \in Saved : i < nprimes
  /\ pc \in Early => Saved = {} /\ ncurves = 0
  /\ pc \in {"start", "primes"} =>
       output = IF pc = "start" THEN <<>> ELSE <<Begin, Original, Separator>>
  /\ pc = "exited" => output \in {<<>>, <<Begin, Original, Separator>>}
  /\ pc \in Closing => ncurves = nprimes /\ \A i \in Curves : i >= cursor <=> i \in Saved
  /\ pc = "done" => cursor = nprimes
  /\ ArrayComplete

IInv == TypeOK /\ OwnInv /\ DepthInv /\ OrderInv /\ OutputInv /\ PhaseInv

------------------------------------------------------------------------------
(* A curve_t can always be allocated, and what saving one adds.              *)

LEMMA SavedFinite ==
  ASSUME TypeOK, PhaseInv
  PROVE  /\ IsFiniteSet(Saved) /\ Cardinality(Saved) \in 0 .. nprimes
         /\ Cardinality(Saved) = nprimes => Saved = Curves
<1>1. Saved \subseteq 0 .. nprimes - 1 /\ Curves = 0 .. nprimes - 1
  BY NAssumption DEF TypeOK, PhaseInv, Saved, Curves, Prime
<1>2. IsFiniteSet(0 .. nprimes - 1) /\ Cardinality(0 .. nprimes - 1) = nprimes
  <2>1. nprimes \in Nat /\ nprimes - 1 \in Int
    BY NAssumption DEF TypeOK
  <2>2. /\ IsFiniteSet(0 .. nprimes - 1)
        /\ Cardinality(0 .. nprimes - 1)
             = IF 0 > nprimes - 1 THEN 0 ELSE (nprimes - 1) - 0 + 1
    BY <2>1, FS_Interval
  <2> QED BY <2>1, <2>2
<1>3. /\ IsFiniteSet(Saved) /\ Cardinality(Saved) <= nprimes
      /\ Cardinality(Saved) = nprimes => Saved = 0 .. nprimes - 1
  BY <1>1, <1>2, FS_Subset
<1>4. Cardinality(Saved) \in Nat
  BY <1>3, FS_CardinalityType
<1> QED BY <1>1, <1>3, <1>4 DEF TypeOK

\* No more objects are in use than there are primes, and one.
LEMMA FreshExists ==
  ASSUME TypeOK, OwnInv, PhaseInv, nprimes > 0
  PROVE  Fresh \in Object /\ Fresh \notin heap
<1> DEFINE rest == heap \ {invalid}
           owner == [o \in rest |-> CHOOSE i \in Saved : curves[i] = o]
<1>1. \A o \in rest : owner[o] \in Saved /\ curves[owner[o]] = o
  BY DEF OwnInv
<1>2. owner \in Injection(rest, Saved)
  <2>1. owner \in [rest -> Saved]
    BY <1>1
  <2>2. \A a, b \in rest : owner[a] = owner[b] => a = b
    BY <1>1
  <2> HIDE DEF owner
  <2> QED BY <2>1, <2>2 DEF Injection, IsInjective
<1>3. IsFiniteSet(Saved) /\ Cardinality(Saved) \in 0 .. nprimes
  BY SavedFinite
<1> HIDE DEF rest, owner
<1>4. IsFiniteSet(rest) /\ Cardinality(rest) \in Nat /\ Cardinality(rest) <= N
  <2>1. IsFiniteSet(rest) /\ Cardinality(rest) <= Cardinality(Saved)
    BY <1>2, <1>3, FS_Injection
  <2>2. Cardinality(rest) \in Nat
    BY <2>1, FS_CardinalityType
  <2> QED BY <1>3, <2>1, <2>2, NAssumption DEF TypeOK
<1>5. /\ IsFiniteSet(rest \cup {invalid})
      /\ Cardinality(rest \cup {invalid}) \in Nat
      /\ Cardinality(rest \cup {invalid}) <= N + 1
  BY <1>4, FS_AddElement, NAssumption
<1>6. IsFiniteSet(Object) /\ Cardinality(Object) = 2 * N + 1
  BY NAssumption, FS_Interval DEF Object
<1>7. ~(Object \subseteq heap)
  <2>1. SUFFICES ASSUME Object \subseteq rest \cup {invalid} PROVE FALSE
    BY DEF rest
  <2>2. 2 * N + 1 <= Cardinality(rest \cup {invalid})
    BY <1>5, <1>6, <2>1, FS_Subset
  <2> QED BY <1>5, <2>2, NAssumption DEF TypeOK
<1> QED BY <1>7 DEF Fresh

LEMMA SaveOne ==
  ASSUME TypeOK, NEW i \in Prime, Missing(i), NEW c, c # None,
         curves' = [curves EXCEPT ![i] = c]
  PROVE  /\ Saved' = Saved \cup {i} /\ i \notin Saved
         /\ curves'[i] = c
         /\ \A j \in Saved : curves'[j] = curves[j]
         /\ \A j \in Prime : Missing(j)' <=> Missing(j) /\ j # i
BY DEF TypeOK, Saved, Missing

\* None of what the invariant says of the results has changed.
LEMMA SameSaved == ASSUME UNCHANGED curves PROVE Saved' = Saved
BY DEF Saved

------------------------------------------------------------------------------
(* The steps keep the invariant.                                             *)

USE DEF memory, Early, Generating, Closing

LEMMA Initially == Init => IInv
<1> SUFFICES ASSUME Init PROVE IInv
  OBVIOUS
<1>1. TypeOK
  BY NAssumption DEF Init, TypeOK
<1>2. Saved = {}
  BY DEF Init, Saved
<1>3. OwnInv /\ DepthInv /\ OrderInv /\ OutputInv
  BY <1>2 DEF Init, OwnInv, DepthInv, OrderInv, OutputInv, Unsaved
<1>4. PhaseInv
  BY <1>2 DEF Init, PhaseInv, ArrayComplete
<1> QED BY <1>1, <1>3, <1>4 DEF IInv

LEMMA EarlyStep ==
  ASSUME IInv, NoOriginal \/ WriteOriginal \/ NoPrimes
  PROVE  IInv'
<1>0. /\ pc \in {"start", "primes"} /\ pc' \in {"primes", "exited"}
      /\ UNCHANGED <<nprimes, order, curves, invalid, ncurves, cursor, count, memory>>
      /\ output' = IF pc' = "primes" THEN <<Begin, Original, Separator>> ELSE output
      /\ pc' = "exited" => pc = "start" \/ nprimes = 0
  BY DEF NoOriginal, WriteOriginal, NoPrimes
<1>1. TypeOK'
  <2>1. <<Begin, Original, Separator>> \in Seq(Int)
    BY DEF Begin, Original, Separator
  <2> QED BY <1>0, <2>1 DEF IInv, TypeOK
<1>2. Saved' = Saved /\ \A i : Missing(i)' = Missing(i)
  BY <1>0 DEF Saved, Missing
<1>3. OwnInv' /\ DepthInv' /\ OrderInv' /\ OutputInv'
  BY <1>0, <1>2 DEF IInv, OwnInv, DepthInv, OrderInv, OutputInv, Unsaved
<1>4. PhaseInv'
  BY <1>0, <1>2 DEF IInv, PhaseInv, ArrayComplete
<1> QED BY <1>1, <1>3, <1>4 DEF IInv

LEMMA EnterStep == ASSUME IInv, Enter PROVE IInv'
<1>0. /\ pc = "primes" /\ pc' = "loop" /\ nprimes > 0
      /\ invalid' = Fresh /\ heap' = heap \cup {Fresh} /\ avma' = avma + 1
      /\ UNCHANGED <<nprimes, order, curves, ncurves, cursor, count, output, btop,
                     depth, live>>
  BY DEF Enter, NewInvalid
<1>1. Fresh \in Object /\ Fresh \notin heap
  BY <1>0, FreshExists DEF IInv
<1>2. TypeOK'
  BY <1>0, <1>1 DEF IInv, TypeOK
<1>3. Saved = {} /\ Saved' = {} /\ ncurves = 0 /\ invalid = None /\ heap = {}
  <2>1. Saved = {} /\ ncurves = 0 /\ invalid = None
    BY <1>0 DEF IInv, PhaseInv, OwnInv
  <2>2. heap = {}
    BY <2>1, NoneAssumption DEF IInv, OwnInv, TypeOK
  <2> QED BY <1>0, <2>1, <2>2 DEF Saved
<1>4. OwnInv' /\ DepthInv' /\ OrderInv'
  BY <1>0, <1>3 DEF OwnInv, DepthInv, OrderInv, Unsaved
<1>5. OutputInv'
  <2>1. output = <<Begin, Original, Separator>>
    BY <1>0 DEF IInv, PhaseInv
  <2>2. Cardinality({}) = 0
    BY FS_EmptySet
  <2>3. nprimes \in Nat
    BY NAssumption DEF IInv, TypeOK
  <2> QED BY <1>0, <1>3, <2>1, <2>2, <2>3 DEF OutputInv
<1>6. PhaseInv'
  BY <1>0, <1>3 DEF PhaseInv, ArrayComplete
<1> QED BY <1>2, <1>4, <1>5, <1>6 DEF IInv

LEMMA DrawStep ==
  ASSUME IInv, NEW D \in SUBSET (0 .. nprimes - 1), Draw(D)
  PROVE  IInv'
<1>0. /\ pc = "loop" /\ pc' \in {"gens", "unroll"}
      /\ pc' = "gens" => \E i \in D : Wanted(i)
      /\ btop' = avma /\ avma' = avma + 1 /\ order' = D
      /\ UNCHANGED <<nprimes, curves, invalid, ncurves, cursor, count, output, heap,
                     depth, live>>
  BY DEF Draw
<1>1. TypeOK'
  BY <1>0 DEF IInv, TypeOK
<1>2. Saved' = Saved /\ \A i : Missing(i)' = Missing(i)
  BY <1>0 DEF Saved, Missing
<1>3. OwnInv' /\ OrderInv' /\ OutputInv'
  BY <1>0, <1>2 DEF IInv, OwnInv, OrderInv, OutputInv, Unsaved, Wanted
<1>4. DepthInv'
  <2>1. \A i \in Saved : curves[i] \in Object
    BY NoneAssumption DEF IInv, OwnInv, TypeOK
  <2> QED BY <1>0, <1>2, <2>1 DEF IInv, DepthInv, TypeOK
<1>5. PhaseInv'
  BY <1>0, <1>2 DEF IInv, PhaseInv, ArrayComplete
<1> QED BY <1>1, <1>3, <1>4, <1>5 DEF IInv

LEMMA GensStep == ASSUME IInv, NEW ok \in BOOLEAN, Gens(ok) PROVE IInv'
<1>0. /\ pc = "gens" /\ pc' \in {"points", "unroll"}
      /\ UNCHANGED <<nprimes, order, curves, invalid, ncurves, cursor, count, output,
                     memory>>
  BY DEF Gens
<1>1. TypeOK'
  BY <1>0 DEF IInv, TypeOK
<1>2. Saved' = Saved /\ \A i : Missing(i)' = Missing(i)
  BY <1>0 DEF Saved, Missing
<1>3. OwnInv' /\ DepthInv' /\ OrderInv' /\ OutputInv'
  BY <1>0, <1>2 DEF IInv, OwnInv, DepthInv, OrderInv, OutputInv, Unsaved
<1>4. PhaseInv'
  BY <1>0, <1>2 DEF IInv, PhaseInv, ArrayComplete
<1> QED BY <1>1, <1>3, <1>4 DEF IInv

LEMMA PointsStep == ASSUME IInv, Points PROVE IInv'
<1>0. /\ pc = "points" /\ pc' = "save" /\ cursor' = nprimes /\ count' = 0
      /\ avma' = avma + 1 /\ live' = live \cup {invalid}
      /\ depth' = [depth EXCEPT ![invalid] = avma']
      /\ UNCHANGED <<nprimes, order, curves, invalid, ncurves, output, heap, btop>>
  BY DEF Points
<1>1. invalid \in heap /\ invalid \in Object
  BY <1>0 DEF IInv, OwnInv, TypeOK
<1>2. TypeOK'
  BY <1>0, <1>1 DEF IInv, TypeOK
<1>3. Saved' = Saved /\ \A i : Missing(i)' = Missing(i)
  BY <1>0 DEF Saved, Missing
<1>4. OwnInv' /\ OutputInv'
  BY <1>0, <1>3 DEF IInv, OwnInv, OutputInv, Unsaved
<1>5. OrderInv'
  <2>1. \A i \in order : i \in Nat /\ i < nprimes
    BY NAssumption DEF IInv, TypeOK
  <2> QED BY <1>0, <1>3, <2>1 DEF IInv, OrderInv, TypeOK
<1>6. DepthInv'
  <2>1. depth'[invalid] = avma + 1
    BY <1>0, <1>1 DEF IInv, TypeOK
  <2>2. ASSUME NEW i \in Saved
        PROVE  curves[i] \in live /\ depth'[curves[i]] <= avma + 1
    <3>1. curves[i] # invalid /\ curves[i] \in Object
      BY <1>0, <2>2 DEF IInv, OwnInv, Unsaved, TypeOK
    <3>2. depth'[curves[i]] = depth[curves[i]]
      BY <1>0, <3>1 DEF IInv, TypeOK
    <3> QED BY <2>2, <3>1, <3>2 DEF IInv, DepthInv, TypeOK
  <2>3. avma + 1 \in Nat
    BY DEF IInv, TypeOK
  <2> QED BY <1>0, <1>3, <2>1, <2>2, <2>3 DEF DepthInv
<1>7. PhaseInv'
  BY <1>0, <1>3 DEF IInv, PhaseInv, ArrayComplete
<1> QED BY <1>2, <1>4, <1>5, <1>6, <1>7 DEF IInv

LEMMA UnrollStep == ASSUME IInv, Unroll PROVE IInv'
<1>0. /\ pc = "unroll" /\ pc' = "loop" /\ avma' = btop
      /\ live' = {o \in live : depth[o] <= btop}
      /\ UNCHANGED <<nprimes, order, curves, invalid, ncurves, cursor, count, output,
                     heap, btop, depth>>
  BY DEF Unroll
<1>1. TypeOK'
  BY <1>0 DEF IInv, TypeOK
<1>2. Saved' = Saved
  BY <1>0 DEF Saved
<1>3. OwnInv' /\ DepthInv' /\ OrderInv' /\ OutputInv'
  BY <1>0, <1>2 DEF IInv, OwnInv, DepthInv, OrderInv, OutputInv, Unsaved
<1>4. PhaseInv'
  BY <1>0, <1>2 DEF IInv, PhaseInv, ArrayComplete
<1> QED BY <1>1, <1>3, <1>4 DEF IInv

------------------------------------------------------------------------------
(* Saving.                                                                   *)

\* What a curve adds to the output, behind the separator that awaits it.
LEMMA Writes ==
  ASSUME IInv, pc = "save", NEW i \in Prime, i < nprimes, Missing(i)
  PROVE  LET out == output \o Writing(i)
             n == ncurves
         IN  /\ n < nprimes /\ n \in Nat /\ Len(output) = 2 * n + 3
             /\ out \in Seq(Int)
             /\ Len(out) = 2 * n + (IF n + 1 = nprimes THEN 4 ELSE 5)
             /\ \A k \in 1 .. 2 * n + 3 : out[k] = output[k]
             /\ out[2 * n + 4] = i
             /\ n + 1 # nprimes => out[2 * n + 5] = Separator
<1>1. ncurves < nprimes /\ ncurves \in Nat /\ nprimes \in Nat
  <2>1. ncurves = Cardinality(Saved) /\ i \notin Saved /\ i \in Curves
    BY DEF IInv, OutputInv, Missing, Saved, Curves
  <2>2. Cardinality(Saved) \in 0 .. nprimes /\ Cardinality(Saved) # nprimes
    BY <2>1, SavedFinite DEF IInv
  <2> QED BY <2>1, <2>2, NAssumption DEF IInv, TypeOK
<1>2. output \in Seq(Int) /\ Len(output) = 2 * ncurves + 3
  BY <1>1 DEF IInv, TypeOK, OutputInv
<1>3. i \in Int /\ Separator \in Int
  BY NAssumption DEF Prime, Separator
<1>4. CASE ncurves = nprimes - 1
  <2>1. Writing(i) = <<i>>
    BY <1>4 DEF Writing
  <2>2. <<i>> \in Seq(Int)
    BY <1>3
  <2>3. ncurves + 1 = nprimes
    BY <1>1, <1>4
  <2> QED BY <1>1, <1>2, <1>3, <2>1, <2>2, <2>3
<1>5. CASE ncurves # nprimes - 1
  <2>1. Writing(i) = <<i, Separator>>
    BY <1>5 DEF Writing
  <2>2. <<i, Separator>> \in Seq(Int)
    BY <1>3
  <2>3. ncurves + 1 # nprimes
    BY <1>1, <1>5
  <2>4. /\ output \o <<i, Separator>> \in Seq(Int)
        /\ Len(output \o <<i, Separator>>) = 2 * ncurves + 5
    BY <1>1, <1>2, <2>2
  <2>6. \A k \in 1 .. 2 * ncurves + 3 : (output \o <<i, Separator>>)[k] = output[k]
    BY <1>1, <1>2, <2>2
  <2>5. /\ (output \o <<i, Separator>>)[2 * ncurves + 4] = i
        /\ (output \o <<i, Separator>>)[2 * ncurves + 5] = Separator
    BY <1>1, <1>2, <2>2
  <2> QED BY <1>1, <1>2, <2>1, <2>3, <2>4, <2>5, <2>6
<1> QED BY <1>4, <1>5

LEMMA OutputStep ==
  ASSUME IInv, pc = "save", NEW i \in Prime, i < nprimes, Missing(i),
         Saved' = Saved \cup {i}, ncurves' = ncurves + 1,
         output' = output \o Writing(i), UNCHANGED <<nprimes, pc>>
  PROVE  OutputInv'
<1> DEFINE n == ncurves
<1>1. /\ n < nprimes /\ n \in Nat /\ nprimes \in Nat /\ Len(output) = 2 * n + 3
      /\ Len(output') = 2 * n + (IF n + 1 = nprimes THEN 4 ELSE 5)
      /\ \A k \in 1 .. 2 * n + 3 : output'[k] = output[k]
      /\ output'[2 * n + 4] = i
      /\ n + 1 # nprimes => output'[2 * n + 5] = Separator
  <2>1. nprimes \in Nat
    BY NAssumption DEF IInv, TypeOK
  <2> QED BY <2>1, Writes
<1>2. /\ n = Cardinality(Saved)
      /\ output[1] = Begin /\ output[2] = Original
      /\ \A k \in 1 .. nprimes : 2 * k + 1 <= Len(output) => output[2 * k + 1] = Separator
      /\ \A k \in 1 .. n : output[2 * k + 2] \in Saved
      /\ \A j \in Saved : \E k \in 1 .. n : output[2 * k + 2] = j
  BY DEF IInv, OutputInv
<1>3. ncurves' = Cardinality(Saved')
  <2>1. i \notin Saved
    BY DEF Saved, Missing
  <2> QED BY <1>2, <2>1, SavedFinite, FS_AddElement DEF IInv
<1>4. Len(output') = 2 * ncurves' + (IF ncurves' = nprimes THEN 2 ELSE 3)
  BY <1>1
<1>5. output'[1] = Begin /\ output'[2] = Original
  BY <1>1, <1>2
<1>6. ASSUME NEW k \in 1 .. nprimes, 2 * k + 1 <= Len(output')
      PROVE  output'[2 * k + 1] = Separator
  <2>1. CASE k <= n + 1
    <3>1. 2 * k + 1 \in 1 .. 2 * n + 3
      BY <1>1, <2>1
    <3> QED BY <1>1, <1>2, <3>1
  <2>2. CASE ~(k <= n + 1)
    <3>1. n + 1 # nprimes /\ k = n + 2
      BY <1>1, <1>6, <2>2
    <3> QED BY <1>1, <3>1
  <2> QED BY <2>1, <2>2
<1>7. ASSUME NEW k \in 1 .. n + 1
      PROVE  output'[2 * k + 2] = IF k = n + 1 THEN i ELSE output[2 * k + 2]
  <2>1. CASE k = n + 1
    BY <1>1, <2>1
  <2>2. CASE k # n + 1
    <3>1. 2 * k + 2 \in 1 .. 2 * n + 3
      BY <1>1, <2>2
    <3> QED BY <1>1, <2>2, <3>1
  <2> QED BY <2>1, <2>2
<1>8. \A k \in 1 .. ncurves' : output'[2 * k + 2] \in Saved'
  <2>1. SUFFICES ASSUME NEW k \in 1 .. n + 1 PROVE output'[2 * k + 2] \in Saved'
    OBVIOUS
  <2>2. k = n + 1 \/ k \in 1 .. n
    BY <1>1
  <2> QED BY <1>2, <1>7, <2>2
<1>9. ASSUME NEW j \in Saved' PROVE \E k \in 1 .. ncurves' : output'[2 * k + 2] = j
  <2>1. CASE j = i
    <3>1. n + 1 \in 1 .. n + 1
      BY <1>1
    <3> QED BY <1>7, <2>1, <3>1
  <2>2. CASE j \in Saved
    <3>1. PICK k \in 1 .. n : output[2 * k + 2] = j
      BY <1>2, <2>2
    <3>2. k \in 1 .. n + 1 /\ k # n + 1
      BY <1>1
    <3> QED BY <1>7, <3>1, <3>2
  <2> QED BY <2>1, <2>2
<1> HIDE DEF n
<1> QED BY <1>3, <1>4, <1>5, <1>6, <1>8, <1>9 DEF OutputInv

\* The loop passes by a prime that the curve is not for, or that has one.
LEMMA PassStep ==
  ASSUME IInv, Save, cursor - 1 \notin order \/ ~Missing(cursor - 1)
  PROVE  IInv'
<1>0. /\ pc = "save" /\ pc' = "save" /\ cursor > 0 /\ cursor' = cursor - 1
      /\ UNCHANGED <<nprimes, order, curves, invalid, ncurves, count, output, memory>>
  BY DEF Save
<1>1. TypeOK'
  BY <1>0, NAssumption DEF IInv, TypeOK
<1>2. Saved' = Saved /\ \A i : Missing(i)' = Missing(i)
  BY <1>0 DEF Saved, Missing
<1>3. OwnInv' /\ DepthInv' /\ OutputInv'
  BY <1>0, <1>2 DEF IInv, OwnInv, DepthInv, OutputInv, Unsaved
<1>4. OrderInv'
  <2>1. \A i \in order : i \in Int /\ (i >= cursor - 1 <=> i >= cursor \/ i = cursor - 1)
    BY NAssumption DEF IInv, TypeOK
  <2>2. \A i \in order : i < cursor /\ i # cursor - 1 => i < cursor - 1
    BY NAssumption DEF IInv, TypeOK
  <2> QED BY <1>0, <1>2, <2>1, <2>2 DEF IInv, OrderInv
<1>5. PhaseInv'
  BY <1>0, <1>2 DEF IInv, PhaseInv, ArrayComplete
<1> QED BY <1>1, <1>3, <1>4, <1>5 DEF IInv

\* What handing over and copying have in common.
LEMMA SavesOne ==
  ASSUME IInv, Save, cursor - 1 \in order, Missing(cursor - 1),
         NEW c \in Object, curves' = [curves EXCEPT ![cursor - 1] = c]
  PROVE  LET i == cursor - 1 IN
         /\ i \in Prime /\ i \notin Saved /\ Saved' = Saved \cup {i} /\ curves'[i] = c
         /\ \A j \in Saved : curves'[j] = curves[j]
         /\ count' = count + 1 /\ pc = "save" /\ pc' = "save"
         /\ UNCHANGED <<nprimes, order, invalid>>
         /\ nprimes' \in 0 .. N /\ order' \subseteq 0 .. nprimes' - 1
         /\ curves' \in [Prime -> Object \cup {None}]
         /\ ncurves' \in 0 .. nprimes' /\ cursor' \in 0 .. nprimes' /\ count' \in Nat \ {0}
         /\ output' \in Seq(Int)
         /\ OrderInv' /\ OutputInv' /\ PhaseInv'
<1> DEFINE i == cursor - 1
<1>0. /\ pc = "save" /\ pc' = "save" /\ cursor > 0 /\ cursor' = i
      /\ ncurves' = ncurves + 1 /\ count' = count + 1
      /\ output' = output \o Writing(i)
      /\ UNCHANGED <<nprimes, order, invalid>>
  BY DEF Save
<1>1. i \in Prime /\ i \in Nat /\ i < nprimes /\ nprimes \in Nat
  BY <1>0, NAssumption DEF IInv, TypeOK, Prime
<1>2. /\ Saved' = Saved \cup {i} /\ i \notin Saved /\ curves'[i] = c
      /\ \A j \in Saved : curves'[j] = curves[j]
      /\ \A j \in Prime : Missing(j)' <=> Missing(j) /\ j # i
  BY <1>1, SaveOne, NoneAssumption DEF IInv
<1>3. OutputInv'
  BY <1>0, <1>1, <1>2, OutputStep
<1>4. ncurves' \in 0 .. nprimes' /\ output' \in Seq(Int)
  BY <1>0, <1>1, Writes DEF IInv, TypeOK
<1>5. count' \in Nat \ {0} /\ cursor' \in 0 .. nprimes'
  BY <1>0, <1>1 DEF IInv, TypeOK
<1>6. OrderInv'
  <2>1. \A j \in order : j \in Prime /\ (j >= i <=> j >= cursor \/ j = i)
    BY <1>0, NAssumption DEF IInv, TypeOK, Prime
  <2> QED BY <1>0, <1>2, <1>5, <2>1 DEF IInv, OrderInv
<1>7. PhaseInv'
  BY <1>0, <1>1, <1>2 DEF IInv, PhaseInv, ArrayComplete
<1> QED
  BY <1>0, <1>1, <1>2, <1>3, <1>4, <1>5, <1>6, <1>7 DEF IInv, TypeOK

\* The first prime gets the curve_t itself.
LEMMA HandOverStep ==
  ASSUME IInv, Save, cursor - 1 \in order, Missing(cursor - 1), count = 0
  PROVE  IInv'
<1> DEFINE i == cursor - 1
<1>1. curves' = [curves EXCEPT ![i] = invalid] /\ UNCHANGED memory
  BY DEF Save, HandOver
<1>2. invalid \in Object /\ invalid \in heap /\ \A j \in Saved : curves[j] # invalid
  BY DEF Save, IInv, OwnInv, TypeOK, Unsaved
<1>3. /\ i \in Prime /\ i \notin Saved /\ Saved' = Saved \cup {i} /\ curves'[i] = invalid
      /\ \A j \in Saved : curves'[j] = curves[j]
      /\ count' # 0 /\ pc = "save" /\ pc' = "save"
      /\ UNCHANGED <<nprimes, order, invalid>>
      /\ OrderInv' /\ OutputInv' /\ PhaseInv'
  BY <1>1, <1>2, SavesOne
<1>4. TypeOK'
  BY <1>1, <1>2, <1>3, SavesOne DEF IInv, TypeOK
<1> HIDE DEF i
<1>5. OwnInv'
  BY <1>1, <1>2, <1>3 DEF IInv, OwnInv, Unsaved
<1>6. DepthInv'
  BY <1>1, <1>2, <1>3 DEF IInv, DepthInv
<1> QED BY <1>3, <1>4, <1>5, <1>6 DEF IInv

\* The others get copies, above everything there is on the stack.
LEMMA CopyStep ==
  ASSUME IInv, Save, cursor - 1 \in order, Missing(cursor - 1), count # 0
  PROVE  IInv'
<1> DEFINE i == cursor - 1
<1>1. /\ curves' = [curves EXCEPT ![i] = Fresh]
      /\ heap' = heap \cup {Fresh}
      /\ avma' = avma + 1
      /\ depth' = [depth EXCEPT ![Fresh] = avma']
      /\ live' = live \cup {Fresh}
      /\ UNCHANGED btop
  BY DEF Save, HandOver
<1>2. Fresh \in Object /\ Fresh \notin heap
  BY FreshExists DEF Save, IInv, OwnInv
<1>3. /\ i \in Prime /\ i \notin Saved /\ Saved' = Saved \cup {i} /\ curves'[i] = Fresh
      /\ \A j \in Saved : curves'[j] = curves[j]
      /\ count' # 0 /\ pc = "save" /\ pc' = "save"
      /\ UNCHANGED <<nprimes, order, invalid>>
      /\ OrderInv' /\ OutputInv' /\ PhaseInv'
  BY <1>1, <1>2, SavesOne
<1>4. TypeOK'
  <2>1. heap' \subseteq Object /\ live' \subseteq Object
    BY <1>1, <1>2 DEF IInv, TypeOK
  <2>2. avma' \in Nat /\ btop' \in Nat /\ depth' \in [Object -> Nat]
    BY <1>1, <1>2 DEF IInv, TypeOK
  <2>3. invalid' \in Object \cup {None}
    BY <1>3 DEF IInv, TypeOK
  <2> QED BY <1>1, <1>2, <1>3, <2>1, <2>2, <2>3, SavesOne DEF TypeOK
<1> HIDE DEF i
<1>5. invalid \in heap /\ \E j \in Saved : curves[j] = invalid
  BY <1>3 DEF IInv, OwnInv, Unsaved
<1>6. OwnInv'
  BY <1>1, <1>2, <1>3, <1>5 DEF IInv, OwnInv, Unsaved
<1>7. DepthInv'
  <2>1. /\ depth'[Fresh] = avma + 1 /\ avma \in Nat
        /\ \A o \in heap : depth'[o] = depth[o] /\ depth[o] \in Nat
    BY <1>1, <1>2 DEF IInv, TypeOK
  <2>2. \A j \in Saved : curves[j] \in heap
    BY DEF IInv, OwnInv
  <2> QED BY <1>1, <1>3, <1>5, <2>1, <2>2 DEF IInv, DepthInv
<1> QED BY <1>3, <1>4, <1>6, <1>7 DEF IInv

LEMMA SaveStep == ASSUME IInv, Save PROVE IInv'
BY PassStep, HandOverStep, CopyStep

\* A curve that was kept was handed over, so that replacing it loses nothing.
LEMMA RenewStep == ASSUME IInv, Renew PROVE IInv'
<1>0. /\ pc = "save" /\ cursor = 0 /\ pc' = "loop"
      /\ invalid' = Fresh /\ heap' = heap \cup {Fresh} /\ avma' = avma + 1
      /\ UNCHANGED <<nprimes, order, curves, ncurves, cursor, count, output, btop,
                     depth, live>>
  BY DEF Renew, NewInvalid
<1>1. Fresh \in Object /\ Fresh \notin heap
  BY <1>0, FreshExists DEF IInv, OwnInv
<1>2. TypeOK'
  BY <1>0, <1>1 DEF IInv, TypeOK
<1>3. Saved' = Saved
  BY <1>0 DEF Saved
<1>4. \E i \in Saved : curves[i] = invalid
  <2>1. count # 0
    <3>1. \A i \in order : ~(i < 0)
      BY NAssumption DEF IInv, TypeOK
    <3> QED BY <1>0, <3>1 DEF IInv, OrderInv
  <2> QED BY <1>0, <2>1 DEF IInv, OwnInv, Unsaved
<1>5. OwnInv'
  <2>1. \A o \in heap : \E i \in Saved : curves[i] = o
    BY <1>4 DEF IInv, OwnInv
  <2>2. \A i \in Saved : curves[i] \in heap /\ curves[i] # Fresh
    BY <1>1 DEF IInv, OwnInv
  <2> QED BY <1>0, <1>3, <2>1, <2>2 DEF IInv, OwnInv, Unsaved
<1>6. DepthInv'
  <2>1. \A i \in Saved : curves[i] \in Object
    BY DEF IInv, OwnInv, TypeOK
  <2> QED BY <1>0, <1>3, <2>1 DEF IInv, DepthInv, TypeOK
<1>7. OrderInv' /\ OutputInv' /\ PhaseInv'
  BY <1>0, <1>3 DEF IInv, OrderInv, OutputInv, PhaseInv, ArrayComplete
<1> QED BY <1>2, <1>5, <1>6, <1>7 DEF IInv

\* The loop is left with a curve for every prime, and the array is complete.
LEMMA LeaveStep == ASSUME IInv, Leave PROVE IInv'
<1>0. /\ pc = "loop" /\ pc' = "free" /\ ncurves >= nprimes
      /\ heap' = heap \ {invalid} /\ invalid' = None
      /\ output' = Append(output, End) /\ cursor' = 0
      /\ UNCHANGED <<nprimes, order, curves, ncurves, count, avma, btop, depth, live>>
  BY DEF Leave
<1>1. nprimes \in Nat /\ ncurves = nprimes
  BY <1>0, NAssumption DEF IInv, TypeOK
<1>2. Saved' = Saved /\ Saved = Curves
  BY <1>0, <1>1, SavedFinite DEF IInv, OutputInv, Saved
<1>3. TypeOK'
  <2>1. End \in Int
    BY DEF End
  <2> QED BY <1>0, <1>1, <2>1 DEF IInv, TypeOK
<1>4. OwnInv'
  BY <1>0, <1>2 DEF IInv, OwnInv, Unsaved
<1>5. DepthInv' /\ OrderInv' /\ OutputInv'
  BY <1>0, <1>2 DEF IInv, DepthInv, OrderInv, OutputInv
<1>6. /\ Len(output') = 2 * nprimes + 3
      /\ output'[2 * nprimes + 3] = End
      /\ \A k \in 1 .. 2 * nprimes + 2 : output'[k] = output[k]
  <2>1. output \in Seq(Int) /\ Len(output) = 2 * nprimes + 2
    BY <1>0, <1>1 DEF IInv, TypeOK, OutputInv
  <2> QED BY <1>0, <1>1, <2>1
<1>7. ArrayComplete'
  <2>1. /\ output[1] = Begin /\ output[2] = Original
        /\ \A k \in 1 .. nprimes : 2 * k + 1 <= Len(output) => output[2 * k + 1] = Separator
        /\ \A k \in 1 .. nprimes : output[2 * k + 2] \in Saved
        /\ \A i \in Saved : \E k \in 1 .. nprimes : output[2 * k + 2] = i
        /\ Len(output) = 2 * nprimes + 2
    BY <1>0, <1>1 DEF IInv, OutputInv
  <2>2. /\ 1 \in 1 .. 2 * nprimes + 2 /\ 2 \in 1 .. 2 * nprimes + 2
        /\ \A k \in 1 .. nprimes : /\ 2 * k + 1 \in 1 .. 2 * nprimes + 2
                                   /\ 2 * k + 2 \in 1 .. 2 * nprimes + 2
                                   /\ 2 * k + 1 <= 2 * nprimes + 2
    BY <1>1
  <2>3. output'[1] = Begin /\ output'[2] = Original
    BY <1>6, <2>1, <2>2
  <2>4. \A k \in 1 .. nprimes : output'[2 * k + 1] = Separator
    BY <1>6, <2>1, <2>2
  <2>5. \A k \in 1 .. nprimes : output'[2 * k + 2] = output[2 * k + 2]
    BY <1>6, <2>2
  <2>6. {output'[2 * k + 2] : k \in 1 .. nprimes} = Curves
    BY <1>2, <2>1, <2>5
  <2>7. Curves' = Curves /\ nprimes' = nprimes
    BY <1>0 DEF Curves
  <2>8. pc' # "exited"
    BY <1>0
  <2> QED BY <1>6, <2>3, <2>4, <2>6, <2>7, <2>8 DEF ArrayComplete
<1>8. PhaseInv'
  <2>1. Curves' = Curves /\ \A i \in Curves : i >= 0 /\ i < nprimes
    BY <1>0, NAssumption DEF Curves, Prime
  <2> QED BY <1>0, <1>1, <1>2, <1>7, <2>1 DEF PhaseInv
<1> QED BY <1>3, <1>4, <1>5, <1>8 DEF IInv

\* Freeing one result leaves the others alone.
LEMMA FreeStep == ASSUME IInv, Free PROVE IInv'
<1>0. /\ pc = "free" /\ cursor < ncurves
      /\ heap' = heap \ {curves[cursor]}
      /\ curves' = [curves EXCEPT ![cursor] = None]
      /\ cursor' = cursor + 1
      /\ pc' = IF cursor' = ncurves THEN "done" ELSE "free"
      /\ UNCHANGED <<nprimes, order, invalid, ncurves, count, output, avma, btop,
                     depth, live>>
  BY DEF Free
<1>1. /\ ncurves = nprimes /\ nprimes \in Nat /\ cursor \in Nat
      /\ cursor \in Prime /\ cursor \in Curves
  BY <1>0, NAssumption DEF IInv, TypeOK, PhaseInv, Prime, Curves
<1>2. cursor \in Saved
  BY <1>0, <1>1 DEF IInv, PhaseInv
<1>3. Saved' = Saved \ {cursor} /\ \A i \in Saved' : curves'[i] = curves[i]
  BY <1>0, <1>1 DEF IInv, TypeOK, Saved
<1>4. TypeOK'
  BY <1>0, <1>1 DEF IInv, TypeOK
<1>5. OwnInv'
  <2>1. invalid = None /\ None \notin heap
    BY <1>0, NoneAssumption DEF IInv, OwnInv, TypeOK
  <2> QED BY <1>0, <1>2, <1>3, <2>1 DEF IInv, OwnInv, Unsaved
<1>6. DepthInv' /\ OrderInv' /\ OutputInv'
  BY <1>0, <1>3 DEF IInv, DepthInv, OrderInv, OutputInv
<1>7. PhaseInv'
  <2>1. Curves' = Curves /\ \A i \in Curves : i \in Int
    BY <1>0, NAssumption DEF Curves, Prime
  <2>2. \A i \in Curves : i >= cursor' <=> i \in Saved'
    BY <1>0, <1>1, <1>3, <2>1 DEF IInv, PhaseInv
  <2>3. ArrayComplete'
    BY <1>0, <2>1 DEF IInv, PhaseInv, ArrayComplete
  <2> QED BY <1>0, <1>1, <1>3, <2>1, <2>2, <2>3 DEF IInv, PhaseInv
<1> QED BY <1>4, <1>5, <1>6, <1>7 DEF IInv

LEMMA Stutter == ASSUME IInv, UNCHANGED vars PROVE IInv'
<1>1. Saved' = Saved /\ Curves' = Curves /\ Unsaved' = Unsaved
  BY DEF vars, Saved, Curves, Unsaved
<1>2. TypeOK'
  BY DEF vars, IInv, TypeOK
<1>3. OwnInv' /\ DepthInv'
  BY <1>1 DEF vars, IInv, OwnInv, DepthInv
<1>4. OrderInv'
  BY DEF vars, IInv, OrderInv, Missing
<1>5. OutputInv'
  BY <1>1 DEF vars, IInv, OutputInv
<1>6. PhaseInv'
  BY <1>1 DEF vars, IInv, PhaseInv, ArrayComplete
<1> QED BY <1>2, <1>3, <1>4, <1>5, <1>6 DEF IInv

LEMMA Invariant == SafeSpec => []IInv
<1>1. IInv /\ [Next]_vars => IInv'
  <2> SUFFICES ASSUME IInv, [Next]_vars PROVE IInv'
    OBVIOUS
  <2> QED
    BY EarlyStep, EnterStep, DrawStep, GensStep, PointsStep, SaveStep, RenewStep,
       UnrollStep, LeaveStep, FreeStep, Stutter DEF Next, Returned
<1> QED BY Initially, <1>1, PTL DEF SafeSpec

------------------------------------------------------------------------------
(* What follows for the driver.                                              *)

\* invalid_curves_single hands its curve_t over to the array of results: no two primes
\* get the same one, and none that is still generated into.
THEOREM NothingIsShared == SafeSpec => []NoAliasing
<1>1. IInv => NoAliasing
  BY DEF IInv, OwnInv, Unsaved, NoAliasing
<1> QED BY Invariant, <1>1, PTL

\* Results outlive every `avma = btop` of the rounds after theirs.
THEOREM ResultsStayLive == SafeSpec => []SavedLive
<1>1. IInv => SavedLive
  BY DEF IInv, OwnInv, DepthInv, SavedLive
<1> QED BY Invariant, <1>1, PTL

\* invalid_do frees every curve_t that was allocated on the way.
THEOREM EverythingIsFreed == SafeSpec => []NothingLeaks
<1>1. ASSUME IInv, pc = "done" PROVE heap = {} /\ Saved = {}
  <2>1. \A i \in Saved : i \in Curves /\ i < nprimes /\ i >= cursor
    BY <1>1 DEF IInv, PhaseInv, Curves, Saved
  <2>2. Saved = {}
    BY <1>1, <2>1, NAssumption DEF IInv, PhaseInv, TypeOK, Saved, Prime
  <2> QED BY <1>1, <2>2, NoneAssumption DEF IInv, OwnInv, TypeOK
<1> QED BY Invariant, <1>1, PTL DEF NothingLeaks

\* The array that was written holds the original curve and one of every prime, and only
\* without primes is it left open.
THEOREM ArrayIsComplete == SafeSpec => []ArrayComplete
<1>1. IInv => ArrayComplete
  BY DEF IInv, PhaseInv
<1> QED BY Invariant, <1>1, PTL

------------------------------------------------------------------------------
(* The driver implements InvalidCurves, as far as safety goes.               *)

\* What is written is what was saved, until the results are freed.
WrittenInv ==
  \A i \in Prime : Written(i) <=> i < nprimes /\ (i \in Saved \/ pc \in Closing)

LEMMA Halves == \A m \in Nat : \E k \in Nat : m = 2 * k \/ m = 2 * k + 1
<1> TAKE m \in Nat
<1>1. m \div 2 \in Nat /\ (m = 2 * (m \div 2) \/ m = 2 * (m \div 2) + 1)
  OBVIOUS
<1> QED BY <1>1

\* A finished or unfinished array: its odd places hold no curve, nor does the second.
AtEvenPlaces(s, n, S) ==
  /\ Len(s) <= 2 * n + 3 /\ Len(s) >= 2 * n + 2
  /\ s[1] \notin Nat /\ s[2] \notin Nat
  /\ \A k \in 1 .. n + 1 : 2 * k + 1 <= Len(s) => s[2 * k + 1] \notin Nat
  /\ \A k \in 1 .. n : s[2 * k + 2] \in S
  /\ \A j \in S : \E k \in 1 .. n : s[2 * k + 2] = j

LEMMA CurvesAtEvenPlaces ==
  ASSUME NEW n \in Nat, NEW s \in Seq(Int), NEW S, NEW i \in Nat, AtEvenPlaces(s, n, S)
  PROVE  (\E m \in DOMAIN s : s[m] = i) <=> i \in S
<1> USE DEF AtEvenPlaces
<1>1. ASSUME i \in S PROVE \E m \in DOMAIN s : s[m] = i
  <2>1. PICK k \in 1 .. n : s[2 * k + 2] = i
    BY <1>1
  <2>2. 2 * k + 2 \in DOMAIN s
    OBVIOUS
  <2> QED BY <2>1, <2>2
<1>2. ASSUME NEW m \in DOMAIN s, s[m] = i PROVE i \in S
  <2>0. m \in Nat /\ m >= 1 /\ m <= Len(s) /\ m # 1 /\ m # 2 /\ Len(s) \in Nat
    BY <1>2
  <2>1. PICK h \in Nat : m = 2 * h \/ m = 2 * h + 1
    BY <2>0, Halves
  <2>3. CASE m = 2 * h + 1
    <3>1. h \in 1 .. n + 1
      BY <2>0, <2>3
    <3> QED BY <1>2, <2>0, <2>3, <3>1
  <2>4. CASE m = 2 * h
    <3>1. h - 1 \in 1 .. n /\ m = 2 * (h - 1) + 2
      BY <2>0, <2>4
    <3> QED BY <1>2, <3>1
  <2> QED BY <2>1, <2>3, <2>4
<1> QED BY <1>1, <1>2

LEMMA WhatIsWritten == IInv => WrittenInv
<1> SUFFICES ASSUME IInv, NEW i \in Prime
             PROVE  Written(i) <=> i < nprimes /\ (i \in Saved \/ pc \in Closing)
  BY DEF WrittenInv
<1>0. /\ i \in Nat /\ nprimes \in Nat /\ output \in Seq(Int) /\ ncurves \in Nat
      /\ ncurves <= nprimes
      /\ i \in Saved => i < nprimes
  BY NAssumption DEF IInv, TypeOK, PhaseInv, Prime
<1> USE DEF Begin, Original, Separator, End
<1>1. CASE pc \in Early
  <2>1. Saved = {} /\ pc \notin Closing
    BY <1>1 DEF IInv, PhaseInv
  <2>2. output \in {<<>>, <<Begin, Original, Separator>>}
    BY <1>1 DEF IInv, PhaseInv
  <2>3. ~Written(i)
    BY <1>0, <2>2 DEF Written
  <2> QED BY <2>1, <2>3
<1>2. CASE pc \in Generating \cup {"save"}
  <2>1. /\ Len(output) = 2 * ncurves + (IF ncurves = nprimes THEN 2 ELSE 3)
        /\ output[1] = Begin /\ output[2] = Original
        /\ \A k \in 1 .. nprimes : 2 * k + 1 <= Len(output) => output[2 * k + 1] = Separator
        /\ \A k \in 1 .. ncurves : output[2 * k + 2] \in Saved
        /\ \A j \in Saved : \E k \in 1 .. ncurves : output[2 * k + 2] = j
    BY <1>2 DEF IInv, OutputInv
  <2>2. Len(output) <= 2 * ncurves + 3 /\ Len(output) >= 2 * ncurves + 2
    BY <1>0, <2>1
  <2>3. \A k \in 1 .. ncurves + 1 : 2 * k + 1 <= Len(output) => k \in 1 .. nprimes
    BY <1>0, <2>1
  <2>4. /\ output[1] \notin Nat /\ output[2] \notin Nat
        /\ \A k \in 1 .. ncurves + 1 : 2 * k + 1 <= Len(output) => output[2 * k + 1] \notin Nat
    BY <2>1, <2>3
  <2>5. Written(i) <=> i \in Saved
    <3>1. AtEvenPlaces(output, ncurves, Saved)
      BY <2>1, <2>2, <2>4 DEF AtEvenPlaces
    <3> QED BY <1>0, <3>1, CurvesAtEvenPlaces DEF Written
  <2> QED BY <1>0, <1>2, <2>5
<1>3. CASE pc \in Closing
  <2>1. /\ Len(output) = 2 * nprimes + 3
        /\ output[1] = Begin /\ output[2] = Original /\ output[2 * nprimes + 3] = End
        /\ \A k \in 1 .. nprimes : output[2 * k + 1] = Separator
        /\ {output[2 * k + 2] : k \in 1 .. nprimes} = Curves
    BY <1>3 DEF IInv, PhaseInv, ArrayComplete
  <2>2. \A k \in 1 .. nprimes + 1 : k = nprimes + 1 \/ k \in 1 .. nprimes
    BY <1>0
  <2>3. 2 * (nprimes + 1) + 1 = 2 * nprimes + 3
    BY <1>0
  <2>4. /\ output[1] \notin Nat /\ output[2] \notin Nat
        /\ \A k \in 1 .. nprimes + 1 : output[2 * k + 1] \notin Nat
    BY <2>1, <2>2, <2>3
  <2>5. /\ \A k \in 1 .. nprimes : output[2 * k + 2] \in Curves
        /\ \A j \in Curves : \E k \in 1 .. nprimes : output[2 * k + 2] = j
    BY <2>1
  <2>6. Len(output) <= 2 * nprimes + 3 /\ Len(output) >= 2 * nprimes + 2
    BY <1>0, <2>1
  <2>7. Written(i) <=> i \in Curves
    <3>1. AtEvenPlaces(output, nprimes, Curves)
      BY <2>4, <2>5, <2>6 DEF AtEvenPlaces
    <3> QED BY <1>0, <3>1, CurvesAtEvenPlaces DEF Written
  <2> QED BY <1>3, <2>7 DEF Curves
<1> QED BY <1>1, <1>2, <1>3 DEF IInv, TypeOK

stageA == [i \in Prime |-> StageOf(i)]
takenA == [w \in {Driver} |->
             IF pc = "points" THEN {i \in order : Wanted(i)} ELSE {}]
closedA == pc \in {"free", "done"}

LEMMA InitRefined == Init => Abstract!Init
<1> SUFFICES ASSUME Init PROVE Abstract!Init
  OBVIOUS
<1>1. \A i \in Prime : StageOf(i) \in {"wanted", "unwanted"}
  BY DEF Init, StageOf, Written
<1>2. stageA \in [Prime -> {"wanted", "unwanted"}]
  BY <1>1 DEF stageA
<1>3. takenA = [w \in {Driver} |-> {}]
  BY DEF Init, takenA
<1>4. closedA = FALSE
  BY DEF Init, closedA
<1> QED BY <1>2, <1>3, <1>4 DEF Abstract!Init, stageA, takenA, closedA

\* How far a curve has come, told without the output.
StageInv ==
  \A i \in Prime :
    StageOf(i) = IF i >= nprimes THEN "unwanted"
                 ELSE IF i \in Saved \/ pc \in Closing THEN "written"
                 ELSE IF i \in order /\ pc = "points" THEN "taken"
                 ELSE IF i \in order /\ pc = "save" THEN "delivered"
                 ELSE "wanted"

LEMMA StagesTold == IInv => StageInv
<1> SUFFICES ASSUME IInv, NEW i \in Prime PROVE StageInv!(i)
  BY DEF StageInv
<1>1. i >= nprimes <=> ~(i < nprimes)
  BY NAssumption DEF IInv, TypeOK, Prime
<1> QED BY <1>1, WhatIsWritten DEF StageOf, WrittenInv

Told == IInv /\ StageInv

\* Steps that neither take nor deliver, write or close.
LEMMA InvisibleStep ==
  ASSUME Told, Told', UNCHANGED <<nprimes, curves>>,
         pc = "points" <=> pc' = "points", pc \in Closing <=> pc' \in Closing,
         pc \in {"points", "save"} /\ pc' \in {"points", "save"} => order' = order,
         pc = "save" /\ pc' # "save" => \A i \in order : i \in Saved,
         pc # "save" => pc' # "save"
  PROVE  UNCHANGED <<stageA, takenA, closedA>>
<1>1. Saved' = Saved /\ \A i : Wanted(i)' = Wanted(i)
  BY DEF Saved, Wanted, Missing
<1>2. \A i \in Prime : StageOf(i)' = StageOf(i)
  BY <1>1 DEF Told, StageInv
<1>3. stageA' = stageA
  BY <1>2 DEF stageA
<1>4. takenA' = takenA
  BY <1>1 DEF takenA
<1> QED BY <1>3, <1>4 DEF closedA

\* With generators for the curve, the driver takes all primes it is good for.
LEMMA TakeRefined ==
  ASSUME Told, Told', Gens(TRUE)
  PROVE  Abstract!Next
<1> DEFINE S == {i \in order : Wanted(i)}
<1>0. /\ pc = "gens" /\ pc' = "points"
      /\ UNCHANGED <<nprimes, order, curves>>
  BY DEF Gens
<1>1. Saved' = Saved /\ \A i : Wanted(i)' = Wanted(i)
  BY <1>0 DEF Saved, Wanted, Missing
<1>2. order \subseteq Prime /\ \A i \in Prime : i >= nprimes <=> ~(i < nprimes)
  BY NAssumption DEF Told, IInv, TypeOK, Prime
<1>3. \A i \in Prime : i \in S <=> i \in order /\ i < nprimes /\ i \notin Saved
  BY <1>2 DEF Wanted, Missing, Saved
<1>4. S # {}
  <2>1. \A i \in order : i < nprimes
    BY NAssumption DEF Told, IInv, TypeOK
  <2> QED BY <1>0, <2>1 DEF Told, IInv, OrderInv, Wanted
<1> HIDE DEF S
<1>5. \A i \in Prime : StageOf(i)' = IF i \in S THEN "taken" ELSE StageOf(i)
  BY <1>0, <1>1, <1>2, <1>3 DEF Told, StageInv
<1>6. \A i \in S : i \in Prime /\ StageOf(i) = "wanted"
  <2>1. S \subseteq order
    BY DEF S
  <2> QED BY <1>0, <1>2, <1>3, <2>1 DEF Told, StageInv
<1>7. S \in SUBSET {i \in Prime : stageA[i] = "wanted"}
  BY <1>6 DEF stageA
<1>8. stageA' = [i \in Prime |-> IF i \in S THEN "taken" ELSE stageA[i]]
  BY <1>5 DEF stageA
<1>9. takenA[Driver] = {} /\ takenA' = [takenA EXCEPT ![Driver] = S]
  BY <1>0, <1>1 DEF takenA, S
<1>10. closedA' = closedA
  BY <1>0 DEF closedA
<1>11. Abstract!Take(Driver)
  BY <1>4, <1>7, <1>8, <1>9, <1>10 DEF Abstract!Take, stageA, takenA, closedA
<1> QED BY <1>11 DEF Abstract!Next

\* The complete curve is delivered for all of them.
LEMMA DeliverRefined ==
  ASSUME Told, Told', Points
  PROVE  Abstract!Next
<1> DEFINE S == {i \in order : Wanted(i)}
<1>0. /\ pc = "points" /\ pc' = "save"
      /\ UNCHANGED <<nprimes, order, curves>>
  BY DEF Points
<1>1. Saved' = Saved
  BY <1>0 DEF Saved
<1>2. order \subseteq Prime /\ \A i \in Prime : i >= nprimes <=> ~(i < nprimes)
  BY NAssumption DEF Told, IInv, TypeOK, Prime
<1>3. \A i \in Prime : i \in S <=> i \in order /\ i < nprimes /\ i \notin Saved
  BY <1>2 DEF Wanted, Missing, Saved
<1>4. S # {}
  <2>1. \A i \in order : i < nprimes
    BY NAssumption DEF Told, IInv, TypeOK
  <2> QED BY <1>0, <2>1 DEF Told, IInv, OrderInv, Wanted
<1>5. takenA = [w \in {Driver} |-> S] /\ takenA' = [w \in {Driver} |-> {}]
  BY <1>0 DEF takenA
<1> HIDE DEF S
<1>6. \A i \in Prime : StageOf(i)' = IF i \in S THEN "delivered" ELSE StageOf(i)
  BY <1>0, <1>1, <1>2, <1>3 DEF Told, StageInv
<1>7. stageA' = [i \in Prime |-> IF i \in takenA[Driver] THEN "delivered" ELSE stageA[i]]
  BY <1>5, <1>6 DEF stageA
<1>8. takenA[Driver] # {} /\ takenA' = [takenA EXCEPT ![Driver] = {}]
  BY <1>4, <1>5
<1>9. closedA' = closedA
  BY <1>0 DEF closedA
<1>10. Abstract!Deliver(Driver)
  BY <1>7, <1>8, <1>9 DEF Abstract!Deliver, stageA, takenA, closedA
<1> QED BY <1>10 DEF Abstract!Next

\* Saving a curve for a prime writes it.
LEMMA WriteRefined ==
  ASSUME Told, Told', Save, cursor - 1 \in order, Missing(cursor - 1)
  PROVE  Abstract!Next
<1> DEFINE p == cursor - 1
<1>0. /\ pc = "save" /\ pc' = "save" /\ UNCHANGED <<nprimes, order>>
      /\ \E c : curves' = [curves EXCEPT ![p] = c] /\ (c = invalid \/ c = Fresh)
  BY DEF Save
<1>1. p \in Prime /\ p < nprimes /\ \A i \in Prime : i >= nprimes <=> ~(i < nprimes)
  BY NAssumption DEF Told, IInv, TypeOK, Prime
<1>2. invalid \in Object /\ Fresh \in Object
  <2>1. invalid \in heap /\ nprimes > 0
    BY <1>0 DEF Told, IInv, OwnInv
  <2> QED BY <2>1, FreshExists DEF Told, IInv, TypeOK
<1>3. Saved' = Saved \cup {p} /\ p \notin Saved
  BY <1>0, <1>1, <1>2, SaveOne, NoneAssumption DEF Told, IInv
<1> HIDE DEF p
<1>4. \A i \in Prime : StageOf(i)' = IF i = p THEN "written" ELSE StageOf(i)
  BY <1>0, <1>1, <1>3 DEF Told, StageInv
<1>5. stageA' = [stageA EXCEPT ![p] = "written"]
  BY <1>1, <1>4 DEF stageA
<1>6. stageA[p] = "delivered"
  <2>1. p \in order
    BY DEF p
  <2> QED BY <1>0, <1>1, <1>3, <2>1 DEF Told, StageInv, stageA
<1>7. takenA' = takenA /\ closedA' = closedA
  BY <1>0 DEF takenA, closedA
<1>8. Abstract!Write(p)
  BY <1>5, <1>6, <1>7 DEF Abstract!Write, stageA, takenA, closedA
<1> QED BY <1>1, <1>8 DEF Abstract!Next

\* The array is closed with every curve in it.
LEMMA CloseRefined ==
  ASSUME Told, Told', Leave
  PROVE  Abstract!Next
<1>0. pc = "loop" /\ pc' = "free" /\ ncurves >= nprimes /\ UNCHANGED <<nprimes, curves>>
  BY DEF Leave
<1>1. Saved = Curves
  <2>1. ncurves = nprimes
    BY <1>0, NAssumption DEF Told, IInv, TypeOK
  <2> QED BY <1>0, <2>1, SavedFinite DEF Told, IInv, OutputInv
<1>2. \A i \in Prime : i \in Saved <=> ~(i >= nprimes)
  BY <1>1, NAssumption DEF Curves, Told, IInv, TypeOK, Prime
<1>3. \A i \in Prime : StageOf(i)' = StageOf(i) /\ StageOf(i) \in {"written", "unwanted"}
  BY <1>0, <1>2 DEF Told, StageInv
<1>4. stageA' = stageA /\ \A i \in Prime : stageA[i] \in {"written", "unwanted"}
  BY <1>3 DEF stageA
<1>5. takenA' = takenA /\ ~closedA /\ closedA' = TRUE
  BY <1>0 DEF takenA, closedA
<1>6. Abstract!Close
  BY <1>4, <1>5 DEF Abstract!Close, stageA, takenA, closedA
<1> QED BY <1>6 DEF Abstract!Next

LEMMA StepRefined == Told /\ Told' /\ [Next]_vars => [Abstract!Next]_(Abstract!vars)
<1> SUFFICES ASSUME Told, Told', [Next]_vars
             PROVE  Abstract!Next \/ UNCHANGED <<stageA, takenA, closedA>>
  BY DEF Abstract!vars, stageA, takenA, closedA
<1>1. CASE NoOriginal \/ WriteOriginal \/ NoPrimes \/ Enter \/ Unroll
  BY <1>1, InvisibleStep DEF NoOriginal, WriteOriginal, NoPrimes, Enter, Unroll
<1>2. ASSUME NEW D \in SUBSET (0 .. nprimes - 1), Draw(D)
      PROVE  UNCHANGED <<stageA, takenA, closedA>>
  BY <1>2, InvisibleStep DEF Draw
<1>3. CASE Gens(FALSE)
  BY <1>3, InvisibleStep DEF Gens
<1>4. CASE Save /\ (cursor - 1 \notin order \/ ~Missing(cursor - 1))
  BY <1>4, InvisibleStep DEF Save
<1>5. CASE Renew
  <2>1. \A i \in order : i \in Saved
    <3>1. \A i \in order : i >= 0 /\ i \in Prime
      BY NAssumption DEF Told, IInv, TypeOK, Prime
    <3> QED BY <1>5, <3>1 DEF Renew, Told, IInv, OrderInv, Missing, Saved
  <2> QED BY <1>5, <2>1, InvisibleStep DEF Renew
<1>6. CASE Free
  <2>0. pc = "free" /\ pc' \in Closing /\ nprimes' = nprimes
    BY <1>6 DEF Free
  <2>1. \A i \in Prime : StageOf(i)' = StageOf(i)
    BY <2>0 DEF Told, StageInv
  <2>2. stageA' = stageA
    BY <2>1 DEF stageA
  <2> QED BY <2>0, <2>2 DEF takenA, closedA
<1>7. CASE Returned \/ UNCHANGED vars
  <2>1. UNCHANGED <<nprimes, curves, order, pc>>
    BY <1>7 DEF Returned, vars
  <2>2. pc = "save" => pc' = "save"
    BY <2>1
  <2> QED BY <2>1, <2>2, InvisibleStep
<1>8. CASE Gens(TRUE) \/ Points \/ Leave
  BY <1>8, TakeRefined, DeliverRefined, CloseRefined
<1>9. CASE Save /\ cursor - 1 \in order /\ Missing(cursor - 1)
  BY <1>9, WriteRefined
<1> QED BY <1>1, <1>2, <1>3, <1>4, <1>5, <1>6, <1>7, <1>8, <1>9 DEF Next

\* Every behaviour of the driver with one thread is one InvalidCurves allows: what
\* it keeps a curve for is taken, delivered at once, written one by one, and the array
\* is closed when the curve of every prime is in it.
THEOREM SingleRefines == SafeSpec => ImplementsInvalidCurves
<1>1. SafeSpec => []Told
  BY Invariant, StagesTold, PTL DEF Told
<1> QED
  BY <1>1, InitRefined, StepRefined, PTL
  DEF SafeSpec, Abstract!SafeSpec, ImplementsInvalidCurves
================================================================================
