------------------------- MODULE InvalidThreads_proofs -------------------------
(***************************************************************************)
(* Proofs about the threaded driver and what it writes, for any number of  *)
(* threads and of primes.  The safety properties of InvalidThreads follow  *)
(* from one inductive invariant, made of the named parts below, those of   *)
(* the output from a second one that goes on from it.                      *)
(***************************************************************************)
EXTENDS InvalidThreads, TLAPS, FiniteSetTheorems

USE DEF Unclaimed, Writing, Signal, Count

\* Who holds the mutex is told by where its holder is.
LockInv ==
  /\ mutex = Main <=> mpc \in {"create", "scan"}
  /\ \A t \in Thread : mutex = t <=> pc[t] \in {"claiming", "publishing"}

\* A thread that holds claims holds at least one.
ClaimsInv ==
  /\ ClaimsExclusive
  /\ \A t \in Thread : Holding(t) => primes[t] # {}

\* What the main thread knows: nothing before it first waits, and in a scan
\* that the curves behind its cursor are written.
ScanInv ==
  /\ mpc = "create" => Generated = {}
  /\ mpc = "scan" => \A i \in Prime : i < cursor => ~IsNew(i)
  /\ mpc = "waiting" => \A i \in Prime : ~IsNew(i)
  /\ \A i \in Prime : old[i] = "GENERATED" => states[i] = "GENERATED"

\* The thread's stack will go back to btop at the end of this iteration.
Discards(t) ==
  \/ pc[t] \in {"gens", "claim", "claiming", "points", "publish", "publishing"}
  \/ pc[t] = "unroll" /\ primes[t] = {}

\* The copies of thread t end no deeper than its stack does, nor than btop
\* where the stack may go back to it.
CopiesWithin(t, d) == \A i \in Generated : curves[i] = t => depth[i] <= d

StackInv ==
  /\ \A t \in Thread :
       /\ btop[t] <= avma[t]
       /\ CopiesWithin(t, avma[t])
       /\ Discards(t) => CopiesWithin(t, btop[t])
  /\ PublishedLive

IInv ==
  /\ TypeOK
  /\ LockInv
  /\ ClaimsInv
  /\ CounterExact
  /\ ScanInv
  /\ StackInv

------------------------------------------------------------------------------

LEMMA PrimeFinite == IsFiniteSet(Prime) /\ Cardinality(Prime) = N
  BY FS_Interval, NAssumption DEF Prime

\* Type correctness: the code's arrays, counters and thread positions stay in
\* their ranges.
THEOREM TypeCorrect == SafeSpec => []TypeOK
<1>1. Init => TypeOK
  BY NAssumption, ThreadAssumption
  DEF Init, TypeOK, Prime, State, MainPC, ThreadPC, Separator
<1>2. TypeOK /\ [Next]_vars => TypeOK'
  <2> SUFFICES ASSUME TypeOK, [Next]_vars PROVE TypeOK'
    OBVIOUS
  <2> USE NAssumption, ThreadAssumption, PrimeFinite DEF TypeOK
  <2>1. CASE MainNext
    <3>1. CASE Wait
      BY <3>1 DEF Wait, MainPC, shared, main, local, stack
    <3>2. CASE Reacquire
      BY <3>2 DEF Reacquire, MainPC, shared, main, local, stack
    <3>3. CASE Scan
      <4>1. cursor \in Prime /\ cursor' \in 0 .. N
        BY <3>3 DEF Scan, Prime
      <4>2. output' \in Seq(Prime \cup {Separator})
        <5>1. CASE output' = output \o <<cursor, Separator>>
          <6>1. <<cursor, Separator>> \in Seq(Prime \cup {Separator})
            BY <4>1
          <6> QED BY <5>1, <6>1
        <5>2. CASE output' = output \o <<cursor>>
          <6>1. <<cursor>> \in Seq(Prime \cup {Separator})
            BY <4>1
          <6> QED BY <5>2, <6>1
        <5> QED BY <3>3, <5>1, <5>2 DEF Scan
      <4>3. old' \in [Prime -> State]
        BY <3>3, <4>1 DEF Scan, State
      <4> QED BY <3>3, <4>1, <4>2, <4>3 DEF Scan, shared, local, stack
    <3>4. CASE Break
      BY <3>4 DEF Break, MainPC, shared, main, local, stack
    <3>5. CASE Join
      BY <3>5 DEF Join, MainPC, shared, main, local, stack
    <3>6. CASE Copy
      BY <3>6 DEF Copy, shared, main, local, stack
    <3>7. CASE FreeStacks
      BY <3>7 DEF FreeStacks, MainPC, shared, main, local, stack
    <3> QED BY <2>1, <3>1, <3>2, <3>3, <3>4, <3>5, <3>6, <3>7 DEF MainNext
  <2>2. CASE SpuriousWakeup
    BY <2>2 DEF SpuriousWakeup, MainPC, shared, main, local, stack
  <2>3. ASSUME NEW t \in Thread, Create(t) \/ ThreadNext(t) PROVE TypeOK'
    <3>1. CASE Create(t)
      BY <3>1 DEF Create, ThreadPC, shared, main, local, stack
    <3>2. CASE Check(t)
      BY <3>2 DEF Check, ThreadPC, shared, main, local, stack
    <3>3. ASSUME NEW D \in SUBSET Prime, Draw(t, D) PROVE TypeOK'
      BY <3>3 DEF Draw, ThreadPC, shared, main, local, stack
    <3>4. ASSUME NEW ok \in BOOLEAN, Gens(t, ok) PROVE TypeOK'
      BY <3>4 DEF Gens, ThreadPC, shared, main, local, stack
    <3>5. CASE LockClaim(t)
      BY <3>5 DEF LockClaim, Lock, ThreadPC, shared, main, local, stack
    <3>6. CASE Claim(t)
      BY <3>6 DEF Claim, ThreadPC, State, shared, main, local, stack
    <3>7. CASE Points(t)
      BY <3>7 DEF Points, ThreadPC, shared, main, local, stack
    <3>8. CASE LockPublish(t)
      BY <3>8 DEF LockPublish, Lock, ThreadPC, shared, main, local, stack
    <3>9. CASE Publish(t)
      <4>1. Cardinality(primes[t]) \in Nat
        BY FS_Subset, FS_CardinalityType
      <4> QED BY <3>9, <4>1
          DEF Publish, MainPC, ThreadPC, State, shared, main, local, stack
    <3>10. CASE Unroll(t)
      BY <3>10 DEF Unroll, ThreadPC, shared, main, local, stack
    <3> QED BY <2>3, <3>1, <3>2, <3>3, <3>4, <3>5, <3>6, <3>7, <3>8, <3>9, <3>10
        DEF ThreadNext
  <2>4. CASE Returned \/ UNCHANGED vars
    BY <2>4 DEF Returned, vars, shared, main, local, stack
  <2> QED BY <2>1, <2>2, <2>3, <2>4 DEF Next
<1> QED BY <1>1, <1>2, PTL DEF SafeSpec

------------------------------------------------------------------------------
(* Each part of the invariant is kept by every step.                         *)

LEMMA LockStep == TypeOK /\ LockInv /\ [Next]_vars => LockInv'
<1> SUFFICES ASSUME TypeOK, LockInv, [Next]_vars PROVE LockInv'
  OBVIOUS
<1> USE ThreadAssumption DEF TypeOK, LockInv, shared, main, local, stack
<1>1. CASE MainNext
  <2>1. CASE Wait \/ Reacquire
    BY <2>1 DEF Wait, Reacquire
  <2>2. CASE Scan \/ Break
    BY <2>2 DEF Scan, Break
  <2>3. CASE Join \/ Copy \/ FreeStacks
    BY <2>3 DEF Join, Copy, FreeStacks
  <2> QED BY <1>1, <2>1, <2>2, <2>3 DEF MainNext
<1>2. CASE SpuriousWakeup
  BY <1>2 DEF SpuriousWakeup
<1>3. ASSUME NEW t \in Thread, Create(t) \/ ThreadNext(t) PROVE LockInv'
  <2>1. CASE Create(t) \/ Check(t)
    BY <2>1 DEF Create, Check
  <2>2. ASSUME NEW D \in SUBSET Prime, Draw(t, D) PROVE LockInv'
    BY <2>2 DEF Draw
  <2>3. ASSUME NEW ok \in BOOLEAN, Gens(t, ok) PROVE LockInv'
    BY <2>3 DEF Gens
  <2>4. CASE LockClaim(t)
    BY <2>4 DEF LockClaim, Lock
  <2>5. CASE Claim(t)
    BY <2>5 DEF Claim
  <2>6. CASE LockPublish(t)
    BY <2>6 DEF LockPublish, Lock
  <2>7. CASE Publish(t)
    BY <2>7 DEF Publish
  <2>8. CASE Points(t) \/ Unroll(t)
    BY <2>8 DEF Points, Unroll
  <2> QED BY <1>3, <2>1, <2>2, <2>3, <2>4, <2>5, <2>6, <2>7, <2>8 DEF ThreadNext
<1>4. CASE Returned \/ UNCHANGED vars
  BY <1>4 DEF Returned, vars
<1> QED BY <1>1, <1>2, <1>3, <1>4 DEF Next

\* While the main thread or another thread moves, a thread keeps its claims;
\* a claim takes what is FREE, so nobody else holds it.
LEMMA ClaimsStep ==
  TypeOK /\ LockInv /\ ClaimsInv /\ [Next]_vars => ClaimsInv'
<1> SUFFICES ASSUME TypeOK, LockInv, ClaimsInv, [Next]_vars PROVE ClaimsInv'
  OBVIOUS
<1> USE DEF TypeOK, ClaimsInv, ClaimsExclusive, Holding,
            shared, main, local, stack
<1>1. CASE MainNext \/ SpuriousWakeup
  BY <1>1 DEF MainNext, SpuriousWakeup, Wait, Reacquire, Scan, Break, Join,
              Copy, FreeStacks
<1>2. ASSUME NEW t \in Thread, Create(t) \/ ThreadNext(t) PROVE ClaimsInv'
  <2> DEFINE Same == /\ states' = states /\ primes' = primes
                     /\ \A u \in Thread : Holding(u)' <=> Holding(u)
  <2>0. Same => ClaimsInv'
    OBVIOUS
  <2>1. CASE Create(t) \/ Check(t) \/ Points(t) \/ Unroll(t)
    <3>1. Same
      BY <2>1 DEF Create, Check, Points, Unroll
    <3> QED BY <2>0, <3>1
  <2>2. ASSUME NEW D \in SUBSET Prime, Draw(t, D) PROVE ClaimsInv'
    <3>1. /\ states' = states
          /\ \A u \in Thread : Holding(u)' <=> Holding(u)
          /\ \A u \in Thread : Holding(u) => primes'[u] = primes[u]
      BY <2>2 DEF Draw
    <3> QED BY <3>1
  <2>3. ASSUME NEW ok \in BOOLEAN, Gens(t, ok) PROVE ClaimsInv'
    BY <2>3 DEF Gens
  <2>4. CASE LockClaim(t) \/ LockPublish(t)
    <3>1. Same
      BY <2>4 DEF LockClaim, LockPublish, Lock
    <3> QED BY <2>0, <3>1
  <2>5. CASE Claim(t)
    <3> DEFINE free == {i \in order[t] : states[i] = "FREE"}
    <3>1. /\ ~Holding(t)
          /\ \A u \in Thread \ {t} :
               /\ Holding(u)' <=> Holding(u)
               /\ primes'[u] = primes[u]
          /\ primes'[t] = free
          /\ Holding(t)' <=> free # {}
      BY <2>5 DEF Claim
    <3>2. \A i \in Prime : states'[i] = IF i \in free THEN "GENERATING" ELSE states[i]
      BY <2>5 DEF Claim
    <3>3. \A u \in Thread : Holding(u) => primes[u] \cap free = {}
      OBVIOUS
    <3>4. free \subseteq Prime
      OBVIOUS
    <3> HIDE DEF free
    <3>5. \A i \in Prime : states'[i] = "GENERATING"
                             <=> \E u \in Thread : Holding(u)' /\ i \in primes'[u]
      <4> SUFFICES ASSUME NEW i \in Prime
                   PROVE  states'[i] = "GENERATING"
                            <=> \E u \in Thread : Holding(u)' /\ i \in primes'[u]
        OBVIOUS
      <4>1. CASE i \in free
        BY <3>1, <3>2, <4>1
      <4>2. CASE i \notin free
        BY <3>1, <3>2, <4>2
      <4> QED BY <4>1, <4>2
    <3>6. \A u, v \in Thread :
            u # v /\ Holding(u)' /\ Holding(v)' => primes'[u] \cap primes'[v] = {}
      <4> SUFFICES ASSUME NEW u \in Thread, NEW v \in Thread,
                          u # v, Holding(u)', Holding(v)'
                   PROVE  primes'[u] \cap primes'[v] = {}
        OBVIOUS
      <4>1. CASE u = t
        BY <3>1, <3>3, <4>1
      <4>2. CASE v = t
        BY <3>1, <3>3, <4>2
      <4>3. CASE u # t /\ v # t
        <5>1. Holding(u) /\ Holding(v) /\ primes'[u] = primes[u] /\ primes'[v] = primes[v]
          BY <3>1, <4>3
        <5> QED BY <5>1
      <4> QED BY <4>1, <4>2, <4>3
    <3>7. \A u \in Thread : Holding(u)' => primes'[u] # {}
      BY <3>1
    <3> QED BY <3>5, <3>6, <3>7
  <2>6. CASE Publish(t)
    <3>1. /\ Holding(t) /\ ~Holding(t)'
          /\ \A u \in Thread \ {t} : Holding(u)' <=> Holding(u)
          /\ primes' = primes
      BY <2>6 DEF Publish
    <3>2. \A i \in Prime :
            states'[i] = IF i \in primes[t] THEN "GENERATED" ELSE states[i]
      BY <2>6 DEF Publish
    <3>3. \A i \in Prime : states'[i] = "GENERATING"
                             <=> \E u \in Thread : Holding(u)' /\ i \in primes'[u]
      BY <3>1, <3>2
    <3> QED BY <3>1, <3>3
  <2> QED BY <1>2, <2>1, <2>2, <2>3, <2>4, <2>5, <2>6 DEF ThreadNext
<1>3. CASE Returned \/ UNCHANGED vars
  BY <1>3 DEF Returned, vars
<1> QED BY <1>1, <1>2, <1>3 DEF Next

\* The counter is moved only by Publish, which adds the claims it turns into
\* GENERATED primes; none of these was GENERATED before.
LEMMA CountStep ==
  TypeOK /\ ClaimsInv /\ CounterExact /\ [Next]_vars => CounterExact'
<1> SUFFICES ASSUME TypeOK, ClaimsInv, CounterExact, [Next]_vars
             PROVE  CounterExact'
  OBVIOUS
<1> USE DEF TypeOK, CounterExact, shared, main, local, stack
<1>0. Generated' = Generated /\ generated' = generated => CounterExact'
  OBVIOUS
<1>1. CASE MainNext \/ SpuriousWakeup
  <2>1. states' = states /\ generated' = generated
    BY <1>1 DEF MainNext, SpuriousWakeup, Wait, Reacquire, Scan, Break, Join,
                Copy, FreeStacks
  <2> QED BY <1>0, <2>1 DEF Generated
<1>2. ASSUME NEW t \in Thread, Create(t) \/ ThreadNext(t) PROVE CounterExact'
  <2>1. CASE Publish(t)
    <3>1. Generated' = Generated \cup primes[t]
      BY <2>1 DEF Publish, Generated
    <3>2. Generated \cap primes[t] = {}
      BY <2>1 DEF Publish, Generated, ClaimsInv, ClaimsExclusive, Holding
    <3>3. IsFiniteSet(Generated) /\ IsFiniteSet(primes[t])
      BY PrimeFinite, FS_Subset DEF Generated
    <3>4. Cardinality(Generated \cup primes[t])
            = Cardinality(Generated) + Cardinality(primes[t])
      <4>1. Cardinality(Generated \cap primes[t]) = 0
        BY <3>2, FS_EmptySet
      <4>2. /\ Cardinality(Generated) \in Nat
            /\ Cardinality(primes[t]) \in Nat
        BY <3>3, FS_CardinalityType
      <4>3. Cardinality(Generated \cup primes[t])
              = Cardinality(Generated) + Cardinality(primes[t])
                  - Cardinality(Generated \cap primes[t])
        BY <3>3, FS_Union
      <4> QED BY <4>1, <4>2, <4>3
    <3>5. generated' = generated + Cardinality(primes[t])
      BY <2>1 DEF Publish
    <3> QED BY <3>1, <3>4, <3>5
  <2>2. CASE Claim(t)
    <3>1. Generated' = Generated /\ generated' = generated
      BY <2>2 DEF Claim, Generated
    <3> QED BY <1>0, <3>1
  <2>3. CASE ~Publish(t) /\ ~Claim(t)
    <3>1. states' = states /\ generated' = generated
      BY <1>2, <2>3 DEF Create, ThreadNext, Check, Draw, Gens, LockClaim,
                        LockPublish, Lock, Points, Unroll
    <3> QED BY <1>0, <3>1 DEF Generated
  <2> QED BY <2>1, <2>2, <2>3
<1>3. CASE Returned \/ UNCHANGED vars
  BY <1>0, <1>3 DEF Returned, vars, Generated
<1> QED BY <1>1, <1>2, <1>3 DEF Next

\* Threads change no state while the main thread is in its scan, for it holds
\* the mutex; a publication wakes it when it sleeps.
LEMMA ScanStep ==
  TypeOK /\ LockInv /\ ClaimsInv /\ ScanInv /\ [Next]_vars => ScanInv'
<1> SUFFICES ASSUME TypeOK, LockInv, ClaimsInv, ScanInv, [Next]_vars
             PROVE  ScanInv'
  OBVIOUS
<1> USE ThreadAssumption
        DEF TypeOK, ScanInv, IsNew, Generated, shared, main, local, stack
<1>1. CASE MainNext
  <2>1. CASE Wait
    <3>1. CASE mpc = "create"
      BY <2>1, <3>1 DEF Wait
    <3>2. CASE mpc = "scan" /\ cursor = N
      <4>1. \A i \in Prime : i < cursor
        BY <3>2, NAssumption DEF Prime
      <4>2. \A i \in Prime : ~IsNew(i)
        BY <3>2, <4>1
      <4>3. states' = states /\ old' = old /\ mpc' = "waiting"
        BY <2>1 DEF Wait
      <4> QED BY <4>2, <4>3
    <3> QED BY <2>1, <3>1, <3>2 DEF Wait
  <2>2. CASE Reacquire
    BY <2>2 DEF Reacquire, Prime
  <2>3. CASE Scan
    <3>1. \A i \in Prime : i < cursor' => i < cursor \/ i = cursor
      BY <2>3 DEF Scan, Prime
    <3>2. CASE IsNew(cursor)
      BY <2>3, <3>1, <3>2 DEF Scan
    <3>3. CASE ~IsNew(cursor)
      BY <2>3, <3>1, <3>3 DEF Scan
    <3> QED BY <3>2, <3>3
  <2>4. CASE Break \/ Join \/ Copy \/ FreeStacks
    BY <2>4 DEF Break, Join, Copy, FreeStacks
  <2> QED BY <1>1, <2>1, <2>2, <2>3, <2>4 DEF MainNext
<1>2. CASE SpuriousWakeup
  BY <1>2 DEF SpuriousWakeup
<1>3. ASSUME NEW t \in Thread, Create(t) \/ ThreadNext(t) PROVE ScanInv'
  <2>1. CASE Claim(t)
    <3>1. mpc \notin {"create", "scan"}
      BY <2>1 DEF Claim, LockInv
    <3>2. \A i \in Prime : states'[i] = "GENERATED" <=> states[i] = "GENERATED"
      BY <2>1 DEF Claim
    <3> QED BY <2>1, <3>1, <3>2 DEF Claim
  <2>2. CASE Publish(t)
    <3>1. mpc' \notin {"create", "scan", "waiting"}
      BY <2>2 DEF Publish, LockInv
    <3>2. \A i \in Prime : states[i] = "GENERATED" => states'[i] = "GENERATED"
      BY <2>2 DEF Publish
    <3> QED BY <2>2, <3>1, <3>2 DEF Publish
  <2>3. CASE ~Publish(t) /\ ~Claim(t)
    BY <1>3, <2>3 DEF Create, ThreadNext, Check, Draw, Gens, LockClaim,
                      LockPublish, Lock, Points, Unroll
  <2> QED BY <2>1, <2>2, <2>3
<1>4. CASE Returned \/ UNCHANGED vars
  BY <1>4 DEF Returned, vars
<1> QED BY <1>1, <1>2, <1>3, <1>4 DEF Next

\* A thread's stack only goes back to btop in an iteration that published
\* nothing, and every earlier copy ends at or below btop.
LEMMA StackStep ==
  TypeOK /\ ClaimsInv /\ StackInv /\ [Next]_vars => StackInv'
<1> SUFFICES ASSUME TypeOK, ClaimsInv, StackInv, [Next]_vars PROVE StackInv'
  OBVIOUS
<1> USE DEF TypeOK, shared, main, local, stack
\* What a step has to leave alone, for the invariant to be out of its reach.
<1> DEFINE Same == /\ UNCHANGED stack
                   /\ Generated' = Generated
                   /\ \A i \in Generated : curves'[i] = curves[i]
           Until(t) == Discards(t)' => Discards(t)
<1>0. Same /\ (mpc = "done" => mpc' = "done") /\ (\A t \in Thread : Until(t))
        => StackInv'
  BY DEF StackInv, PublishedLive, CopiesWithin
<1>1. CASE MainNext \/ SpuriousWakeup
  <2>1. CASE FreeStacks
    BY <2>1 DEF FreeStacks, StackInv, CopiesWithin, Generated, Discards,
                PublishedLive
  <2>2. CASE ~FreeStacks
    <3>1. /\ UNCHANGED <<shared, stack, local, pc>> \/ UNCHANGED <<states, curves, stack, local, pc>>
          /\ mpc # "done"
      BY <1>1, <2>2 DEF MainNext, SpuriousWakeup, Wait, Reacquire, Scan, Break,
                        Join, Copy
    <3>2. Same /\ \A t \in Thread : Until(t)
      BY <3>1 DEF Generated, Discards
    <3> QED BY <1>0, <3>1, <3>2
  <2> QED BY <2>1, <2>2
<1>2. ASSUME NEW t \in Thread, Create(t) \/ ThreadNext(t) PROVE StackInv'
  <2>1. ASSUME NEW D \in SUBSET Prime, Draw(t, D) PROVE StackInv'
    <3>1. /\ Generated' = Generated /\ UNCHANGED <<curves, depth, live, mpc>>
          /\ btop'[t] = avma[t] /\ avma'[t] = avma[t] + 1
          /\ \A u \in Thread \ {t} :
               /\ btop'[u] = btop[u] /\ avma'[u] = avma[u]
               /\ Discards(u)' = Discards(u)
      BY <2>1 DEF Draw, Generated, Discards
    <3>2. PublishedLive'
      BY <3>1 DEF StackInv, PublishedLive
    <3>3. CopiesWithin(t, avma[t])' /\ CopiesWithin(t, btop[t])'
      <4> SUFFICES ASSUME NEW i \in Generated', curves'[i] = t
                   PROVE  depth'[i] <= avma'[t] /\ depth'[i] <= btop'[t]
        BY DEF CopiesWithin
      <4>1. depth[i] <= avma[t] /\ depth'[i] = depth[i]
        BY <3>1 DEF StackInv, CopiesWithin
      <4>2. depth[i] \in Nat /\ avma[t] \in Nat
        BY <3>1 DEF Generated
      <4> QED BY <3>1, <4>1, <4>2
    <3>4. \A u \in Thread \ {t} :
            /\ CopiesWithin(u, avma[u])'
            /\ Discards(u)' => CopiesWithin(u, btop[u])'
      BY <3>1 DEF StackInv, CopiesWithin
    <3>5. ASSUME NEW u \in Thread PROVE btop'[u] <= avma'[u]
      <4>1. btop[u] <= avma[u] /\ btop[u] \in Nat /\ avma[u] \in Nat
        BY DEF StackInv
      <4>2. CASE u = t
        BY <3>1, <4>1, <4>2
      <4>3. CASE u # t
        BY <3>1, <4>1, <4>3
      <4> QED BY <4>2, <4>3
    <3> QED BY <3>2, <3>3, <3>4, <3>5 DEF StackInv
  <2>2. CASE Publish(t)
    <3>1. /\ Generated' = Generated \cup primes[t]
          /\ primes[t] \cap Generated = {}
          /\ primes[t] # {}
      BY <2>2 DEF Publish, Generated, ClaimsInv, ClaimsExclusive, Holding
    <3>2. /\ \A i \in Prime : curves'[i] = IF i \in primes[t] THEN t ELSE curves[i]
          /\ \A i \in Prime : depth'[i] = IF i \in primes[t] THEN avma[t] + 1 ELSE depth[i]
          /\ avma'[t] = avma[t] + 1
          /\ \A u \in Thread \ {t} : avma'[u] = avma[u]
          /\ btop' = btop /\ primes' = primes
          /\ live' = live \cup primes[t]
      BY <2>2 DEF Publish
    <3>3. ~Discards(t)' /\ \A u \in Thread \ {t} : Discards(u)' = Discards(u)
      BY <2>2, <3>1 DEF Publish, Discards
    <3>4. mpc = "done" => mpc' = "done"
      BY <2>2 DEF Publish
    <3>5. PublishedLive'
      BY <3>1, <3>2, <3>4 DEF StackInv, PublishedLive
    <3>6. Generated \subseteq Prime /\ primes[t] \subseteq Prime
      BY DEF Generated
    <3>7. CopiesWithin(t, avma[t])'
      <4> SUFFICES ASSUME NEW i \in Generated', curves'[i] = t
                   PROVE  depth'[i] <= avma'[t]
        BY DEF CopiesWithin
      <4>1. CASE i \in primes[t]
        BY <3>2, <3>6, <4>1
      <4>2. CASE i \in Generated /\ i \notin primes[t]
        <5>1. curves[i] = t /\ depth'[i] = depth[i] /\ depth[i] <= avma[t]
          BY <3>2, <3>6, <4>2 DEF StackInv, CopiesWithin
        <5>2. depth[i] \in Nat /\ avma[t] \in Nat
          BY <3>6, <4>2
        <5> QED BY <3>2, <5>1, <5>2
      <4> QED BY <3>1, <4>1, <4>2
    <3>8. ASSUME NEW u \in Thread \ {t}
          PROVE  /\ CopiesWithin(u, avma[u])'
                 /\ Discards(u)' => CopiesWithin(u, btop[u])'
      <4>1. \A i \in Generated' : curves'[i] = u =>
              i \in Generated /\ curves[i] = u /\ depth'[i] = depth[i]
        BY <3>1, <3>2, <3>6
      <4>2. /\ CopiesWithin(u, avma[u])
            /\ Discards(u) => CopiesWithin(u, btop[u])
        BY DEF StackInv
      <4> QED BY <3>2, <3>3, <4>1, <4>2 DEF CopiesWithin
    <3>9. ASSUME NEW u \in Thread PROVE btop'[u] <= avma'[u]
      <4>1. btop[u] <= avma[u] /\ btop[u] \in Nat /\ avma[u] \in Nat
        BY DEF StackInv
      <4>2. avma'[u] = avma[u] + 1 \/ avma'[u] = avma[u]
        BY <3>2
      <4> QED BY <3>2, <4>1, <4>2
    <3> QED BY <3>2, <3>3, <3>5, <3>7, <3>8, <3>9 DEF StackInv
  <2>3. CASE Unroll(t)
    <3>1. /\ Generated' = Generated /\ UNCHANGED <<curves, depth, btop, mpc>>
          /\ ~Discards(t)'
          /\ \A u \in Thread \ {t} :
               avma'[u] = avma[u] /\ Discards(u)' = Discards(u)
      BY <2>3 DEF Unroll, Generated, Discards
    <3>2. /\ primes[t] = {} => /\ CopiesWithin(t, btop[t]) /\ avma'[t] = btop[t]
                               /\ live' = {i \in live : curves[i] = t => depth[i] <= btop[t]}
          /\ primes[t] # {} => avma'[t] = avma[t] /\ live' = live
      BY <2>3 DEF Unroll, StackInv, Discards
    <3>3. CopiesWithin(t, avma[t])' /\ btop'[t] <= avma'[t]
      BY <3>1, <3>2 DEF StackInv, CopiesWithin
    <3>4. PublishedLive'
      BY <3>1, <3>2 DEF StackInv, PublishedLive, CopiesWithin
    <3>5. ASSUME NEW u \in Thread \ {t}
          PROVE  /\ btop'[u] <= avma'[u]
                 /\ CopiesWithin(u, avma[u])'
                 /\ Discards(u)' => CopiesWithin(u, btop[u])'
      BY <3>1 DEF StackInv, CopiesWithin
    <3> QED BY <3>1, <3>3, <3>4, <3>5 DEF StackInv
  <2>4. CASE Claim(t)
    <3>1. Same /\ mpc' = mpc /\ \A u \in Thread : Until(u)
      BY <2>4 DEF Claim, Generated, Discards
    <3> QED BY <1>0, <3>1
  <2>5. ASSUME NEW ok \in BOOLEAN, Gens(t, ok) PROVE StackInv'
    <3>1. Same /\ mpc' = mpc /\ \A u \in Thread : Until(u)
      BY <2>5 DEF Gens, Generated, Discards
    <3> QED BY <1>0, <3>1
  <2>6. CASE Create(t) \/ Check(t) \/ LockClaim(t) \/ Points(t) \/ LockPublish(t)
    <3>1. Same /\ mpc' = mpc /\ \A u \in Thread : Until(u)
      BY <2>6 DEF Create, Check, LockClaim, Points, LockPublish, Lock, Generated,
                  Discards
    <3> QED BY <1>0, <3>1
  <2> QED BY <1>2, <2>1, <2>2, <2>3, <2>4, <2>5, <2>6 DEF ThreadNext
<1>3. CASE Returned \/ UNCHANGED vars
  <2>1. Same /\ mpc' = mpc /\ \A u \in Thread : Until(u)
    BY <1>3 DEF Returned, vars, Generated, Discards
  <2> QED BY <1>0, <2>1
<1> QED BY <1>1, <1>2, <1>3 DEF Next

------------------------------------------------------------------------------
(* The invariant, and what follows from it.                                  *)

LEMMA Initially == Init => IInv
<1> SUFFICES ASSUME Init PROVE IInv
  OBVIOUS
<1> USE NAssumption, ThreadAssumption DEF Init
<1>1. TypeOK
  BY DEF TypeOK, Prime, State, MainPC, ThreadPC, Separator
<1>2. Generated = {}
  BY DEF Generated
<1>3. LockInv
  BY DEF LockInv
<1>4. ClaimsInv
  BY DEF ClaimsInv, ClaimsExclusive, Holding
<1>5. CounterExact
  BY <1>2, FS_EmptySet DEF CounterExact
<1>6. ScanInv
  BY <1>2 DEF ScanInv
<1>7. StackInv
  BY <1>2 DEF StackInv, CopiesWithin, PublishedLive
<1> QED BY <1>1, <1>3, <1>4, <1>5, <1>6, <1>7 DEF IInv

\* The invariant holds of every state the threaded driver reaches.
THEOREM Invariant == SafeSpec => []IInv
<1>1. IInv /\ [Next]_vars => LockInv' /\ ClaimsInv' /\ CounterExact' /\ ScanInv'
                             /\ StackInv'
  BY LockStep, ClaimsStep, CountStep, ScanStep, StackStep DEF IInv
<1>2. TypeOK /\ LockInv /\ ClaimsInv /\ CounterExact /\ ScanInv /\ StackInv
        <=> IInv
  BY DEF IInv
<1> QED BY Initially, TypeCorrect, <1>1, <1>2, PTL DEF SafeSpec

\* No prime is ever generated by two threads, and each GENERATING one is
\* claimed by a thread that is on its way to publish it.
THEOREM ClaimsAreExclusive == SafeSpec => []ClaimsExclusive
  BY Invariant, PTL DEF IInv, ClaimsInv

\* The mutex does its work: no two threads are in a critical section, and none
\* is in one while the main thread scans.
THEOREM MutualExclusion ==
  SafeSpec => [](\A t \in Thread :
                   pc[t] \in {"claiming", "publishing"} =>
                     /\ mpc # "scan"
                     /\ \A u \in Thread \ {t} : pc[u] \notin {"claiming", "publishing"})
<1>1. IInv => \A t \in Thread :
                pc[t] \in {"claiming", "publishing"} =>
                  /\ mpc # "scan"
                  /\ \A u \in Thread \ {t} : pc[u] \notin {"claiming", "publishing"}
  BY ThreadAssumption DEF IInv, LockInv
<1> QED BY Invariant, <1>1, PTL

\* `generated` counts the GENERATED primes.
THEOREM CounterIsExact == SafeSpec => []CounterExact
  BY Invariant, PTL DEF IInv

\* A published copy lives until the main thread has taken its own copy.
THEOREM PublishedCopiesLive == SafeSpec => []PublishedLive
  BY Invariant, PTL DEF IInv, StackInv

\* If every prime is GENERATED the counter has reached N, and conversely.
LEMMA AllGenerated ==
  ASSUME CounterExact
  PROVE  /\ Generated \subseteq Prime
         /\ generated <= N
         /\ generated = N => Generated = Prime
<1>1. Generated \subseteq Prime
  BY DEF Generated
<1>2. /\ Cardinality(Generated) <= Cardinality(Prime)
      /\ Cardinality(Generated) = Cardinality(Prime) => Generated = Prime
  BY <1>1, PrimeFinite, FS_Subset
<1> QED BY <1>1, <1>2, PrimeFinite DEF CounterExact

\* The main thread only goes to sleep with nothing left to write and something
\* left to wait for, and every publication wakes it.
THEOREM NoSignalIsLost == SafeSpec => []NoLostSignal
<1>1. Init => NoLostSignal
  BY DEF Init, NoLostSignal
<1>2. IInv /\ NoLostSignal /\ [Next]_vars => NoLostSignal'
  <2> SUFFICES ASSUME IInv, NoLostSignal, [Next]_vars, ScanInv',
                      mpc' = "waiting"
               PROVE  generated' < N
    BY ScanStep DEF IInv, ScanInv, NoLostSignal
  <2> USE DEF shared, main, local, stack
  <2>1. CASE Wait
    <3>1. generated' = generated /\ generated \in Nat /\ N \in Nat \ {0}
      BY <2>1, NAssumption DEF Wait, IInv, TypeOK
    <3>2. CASE mpc = "create"
      <4>1. generated = 0
        BY <3>2, FS_EmptySet DEF IInv, ScanInv, CounterExact
      <4> QED BY <3>1, <4>1
    <3>3. CASE generated # N
      <4>1. generated <= N
        BY AllGenerated DEF IInv
      <4> QED BY <3>1, <3>3, <4>1
    <3> QED BY <2>1, <3>2, <3>3 DEF Wait
  <2>2. CASE ~Wait
    <3>1. generated' = generated /\ mpc = "waiting"
      <4>1. CASE MainNext \/ SpuriousWakeup
        BY <2>2, <4>1 DEF MainNext, SpuriousWakeup, Reacquire, Scan, Break,
                          Join, Copy, FreeStacks
      <4>2. ASSUME NEW t \in Thread, Create(t) \/ ThreadNext(t)
            PROVE  generated' = generated /\ mpc = "waiting"
        BY <4>2 DEF Create, ThreadNext, Check, Draw, Gens, LockClaim, Claim,
                    Points, LockPublish, Lock, Publish, Unroll
      <4>3. CASE Returned \/ UNCHANGED vars
        BY <4>3 DEF Returned, vars
      <4> QED BY <4>1, <4>2, <4>3 DEF Next
    <3> QED BY <3>1 DEF NoLostSignal
  <2> QED BY <2>1, <2>2
<1> QED BY Invariant, <1>1, <1>2, PTL DEF SafeSpec

\* Nothing takes a published curve back or puts another in its place.
THEOREM PublishedCurvesStay == SafeSpec => PublishedStays
<1>1. IInv /\ [Next]_vars =>
        [\A i \in Generated : states'[i] = "GENERATED" /\ curves'[i] = curves[i]]_vars
  <2> SUFFICES ASSUME IInv, [Next]_vars, NEW i \in Generated
               PROVE  states'[i] = "GENERATED" /\ curves'[i] = curves[i]
    OBVIOUS
  <2> USE DEF shared, main, local, stack
  <2>0. i \in Prime /\ states[i] = "GENERATED"
    BY DEF Generated
  <2>1. CASE MainNext \/ SpuriousWakeup
    BY <2>0, <2>1 DEF MainNext, SpuriousWakeup, Wait, Reacquire, Scan, Break,
                      Join, Copy, FreeStacks
  <2>2. ASSUME NEW t \in Thread, Create(t) \/ ThreadNext(t)
        PROVE  states'[i] = "GENERATED" /\ curves'[i] = curves[i]
    <3>1. CASE Claim(t)
      BY <2>0, <3>1 DEF Claim
    <3>2. CASE Publish(t)
      <4>1. i \notin primes[t]
        BY <2>0, <3>2 DEF Publish, Holding, IInv, ClaimsInv, ClaimsExclusive
      <4> QED BY <2>0, <3>2, <4>1 DEF Publish
    <3>3. CASE ~Claim(t) /\ ~Publish(t)
      BY <2>0, <2>2, <3>3 DEF Create, ThreadNext, Check, Draw, Gens, LockClaim,
                              Points, LockPublish, Lock, Unroll
    <3> QED BY <3>1, <3>2, <3>3
  <2>3. CASE Returned \/ UNCHANGED vars
    BY <2>0, <2>3 DEF Returned, vars
  <2> QED BY <2>1, <2>2, <2>3 DEF Next
<1> QED BY Invariant, <1>1, PTL DEF SafeSpec, PublishedStays

------------------------------------------------------------------------------
(* The threaded driver implements InvalidCurves, as far as safety goes.      *)

stageA == [i \in Prime |-> StageOf(i)]
takenA == [t \in Thread |-> IF Holding(t) THEN primes[t] ELSE {}]
closedA == mpc \notin {"create", "waiting", "woken", "scan"}

\* A step that moves neither the arrays nor a claim is invisible.
LEMMA Stutters ==
  ASSUME UNCHANGED <<states, old, primes>>,
         \A t \in Thread : Holding(t)' = Holding(t),
         closedA' = closedA
  PROVE  UNCHANGED <<stageA, takenA, closedA>>
<1>1. \A i : StageOf(i)' = StageOf(i)
  BY DEF StageOf
<1> QED BY <1>1 DEF stageA, takenA

LEMMA InitRefined == Init => Abstract!Init
<1> SUFFICES ASSUME Init PROVE Abstract!Init
  OBVIOUS
<1>1. \A i \in Prime : StageOf(i) = "wanted"
  BY DEF Init, StageOf
<1>2. stageA \in [Prime -> {"wanted", "unwanted"}]
  BY <1>1 DEF stageA
<1>3. takenA = [t \in Thread |-> {}]
  BY DEF Init, Holding, takenA
<1>4. closedA = FALSE
  BY DEF Init, closedA
<1> QED BY <1>2, <1>3, <1>4 DEF Abstract!Init, stageA, takenA, closedA

\* Claim takes, Publish delivers, Scan writes and Break closes.
LEMMA StepRefined == IInv /\ [Next]_vars => [Abstract!Next]_(Abstract!vars)
<1> SUFFICES ASSUME IInv, [Next]_vars
             PROVE  Abstract!Next \/ UNCHANGED <<stageA, takenA, closedA>>
  BY DEF Abstract!vars, stageA, takenA, closedA
<1> USE DEF shared, main, local, stack
<1>0. TypeOK
  BY DEF IInv
<1>1. CASE MainNext \/ SpuriousWakeup
  <2>1. CASE Scan /\ IsNew(cursor)
    <3>1. cursor \in Prime
      BY <1>0, <2>1, NAssumption DEF Scan, Prime, TypeOK
    <3>2. stageA[cursor] = "delivered"
      BY <2>1, <3>1 DEF IsNew, StageOf, stageA
    <3>3. \A i \in Prime : StageOf(i)' = IF i = cursor THEN "written" ELSE StageOf(i)
      <4>1. \A i \in Prime : old'[i] = IF i = cursor THEN "GENERATED" ELSE old[i]
        BY <1>0, <2>1, <3>1 DEF Scan, IsNew, TypeOK
      <4>2. states' = states
        BY <2>1 DEF Scan
      <4>3. ASSUME NEW i \in Prime, i # cursor PROVE StageOf(i)' = StageOf(i)
        <5>1. states'[i] = states[i] /\ old'[i] = old[i]
          BY <4>1, <4>2, <4>3
        <5> QED BY <5>1 DEF StageOf
      <4>4. ASSUME NEW i \in Prime, i = cursor PROVE StageOf(i)' = "written"
        BY <4>1, <4>4 DEF StageOf
      <4> QED BY <4>3, <4>4
    <3>4. stageA' = [stageA EXCEPT ![cursor] = "written"]
      BY <3>1, <3>3 DEF stageA
    <3>5. takenA' = takenA /\ closedA' = closedA
      BY <2>1 DEF Scan, takenA, Holding, closedA
    <3>6. Abstract!Write(cursor)
      BY <3>2, <3>4, <3>5 DEF Abstract!Write, stageA, takenA, closedA
    <3> QED BY <3>1, <3>6 DEF Abstract!Next
  <2>2. CASE Break
    <3>1. \A i \in Prime : stageA[i] = "written"
      <4>1. Generated = Prime
        BY <2>2, AllGenerated DEF Break, IInv
      <4>2. \A i \in Prime : ~IsNew(i)
        BY <2>2, NAssumption DEF Break, IInv, ScanInv, Prime
      <4> QED BY <4>1, <4>2 DEF Generated, IsNew, stageA, StageOf
    <3>2. ~closedA /\ closedA'
      BY <2>2 DEF Break, closedA
    <3>3. stageA' = stageA /\ takenA' = takenA
      BY <2>2 DEF Break, stageA, takenA, StageOf, Holding
    <3>4. Abstract!Close
      BY <3>1, <3>2, <3>3 DEF Abstract!Close, stageA, takenA, closedA
    <3> QED BY <3>4 DEF Abstract!Next
  <2>3. CASE ~(Scan /\ IsNew(cursor)) /\ ~Break
    <3>1. UNCHANGED <<states, old, primes, pc>> /\ closedA' = closedA
      BY <1>1, <2>3 DEF MainNext, SpuriousWakeup, Wait, Reacquire, Scan, Join,
                        Copy, FreeStacks, closedA
    <3> QED BY <3>1, Stutters DEF Holding
  <2> QED BY <2>1, <2>2, <2>3
<1>2. ASSUME NEW t \in Thread, Create(t) \/ ThreadNext(t)
      PROVE  Abstract!Next \/ UNCHANGED <<stageA, takenA, closedA>>
  <2>1. CASE Claim(t)
    <3> DEFINE free == {i \in order[t] : states[i] = "FREE"}
    <3>1. free \subseteq Prime
      BY <1>0 DEF TypeOK
    <3>2. ~Holding(t) /\ closedA' = closedA /\ old' = old
      BY <2>1 DEF Claim, Holding, closedA
    <3>3. /\ \A i \in Prime : states'[i] = IF i \in free THEN "GENERATING" ELSE states[i]
          /\ primes'[t] = free
          /\ Holding(t)' <=> free # {}
          /\ \A u \in Thread \ {t} : primes'[u] = primes[u] /\ Holding(u)' = Holding(u)
      BY <1>0, <2>1 DEF Claim, TypeOK, Holding
    <3>4. \A i \in free : states[i] = "FREE" /\ old[i] # "GENERATED"
      BY <3>1 DEF IInv, ScanInv
    <3> HIDE DEF free
    <3>5. takenA'[t] = free /\ \A u \in Thread \ {t} : takenA'[u] = takenA[u]
      BY <3>3 DEF takenA
    <3>6. takenA' = [takenA EXCEPT ![t] = free]
      BY <3>5 DEF takenA
    <3>7. \A i \in Prime : StageOf(i)' = IF i \in free THEN "taken" ELSE StageOf(i)
      <4>1. ASSUME NEW i \in Prime, i \in free PROVE StageOf(i)' = "taken"
        BY <3>2, <3>3, <3>4, <4>1 DEF StageOf
      <4>2. ASSUME NEW i \in Prime, i \notin free PROVE StageOf(i)' = StageOf(i)
        <5>1. states'[i] = states[i] /\ old'[i] = old[i]
          BY <3>2, <3>3, <3>4, <4>2
        <5> QED BY <5>1 DEF StageOf
      <4> QED BY <4>1, <4>2
    <3>8. stageA' = [i \in Prime |-> IF i \in free THEN "taken" ELSE stageA[i]]
      BY <3>7 DEF stageA
    <3>9. CASE free = {}
      <4>1. stageA' = stageA
        BY <3>8, <3>9 DEF stageA
      <4>2. takenA' = takenA
        BY <3>2, <3>6, <3>9 DEF takenA
      <4> QED BY <3>2, <4>1, <4>2
    <3>10. CASE free # {}
      <4>1. free \in SUBSET {i \in Prime : stageA[i] = "wanted"}
        BY <3>1, <3>4 DEF stageA, StageOf
      <4>2. takenA[t] = {}
        BY <3>2 DEF takenA
      <4>3. Abstract!Take(t)
        BY <3>2, <3>6, <3>8, <3>10, <4>1, <4>2
        DEF Abstract!Take, stageA, takenA, closedA
      <4> QED BY <4>3 DEF Abstract!Next
    <3> QED BY <3>9, <3>10
  <2>2. CASE Publish(t)
    <3>1. Holding(t) /\ ~Holding(t)' /\ primes[t] # {}
      BY <1>0, <2>2 DEF Publish, Holding, IInv, ClaimsInv, TypeOK
    <3>2. /\ old' = old /\ primes' = primes /\ closedA' = closedA
          /\ \A u \in Thread \ {t} : Holding(u)' = Holding(u)
          /\ \A i \in Prime :
               states'[i] = IF i \in primes[t] THEN "GENERATED" ELSE states[i]
      BY <1>0, <2>2 DEF Publish, Holding, closedA, TypeOK
    <3>3. \A i \in Prime : i \in primes[t] => old[i] # "GENERATED"
      BY <3>1 DEF IInv, ScanInv, ClaimsInv, ClaimsExclusive
    <3>4. \A i \in Prime :
            StageOf(i)' = IF i \in primes[t] THEN "delivered" ELSE StageOf(i)
      <4>1. ASSUME NEW i \in Prime, i \in primes[t] PROVE StageOf(i)' = "delivered"
        BY <3>2, <3>3, <4>1 DEF StageOf
      <4>2. ASSUME NEW i \in Prime, i \notin primes[t] PROVE StageOf(i)' = StageOf(i)
        <5>1. states'[i] = states[i] /\ old'[i] = old[i]
          BY <3>2, <3>3, <4>2
        <5> QED BY <5>1 DEF StageOf
      <4> QED BY <4>1, <4>2
    <3>5. takenA[t] = primes[t]
      BY <3>1 DEF takenA
    <3>6. takenA' = [takenA EXCEPT ![t] = {}]
      BY <3>1, <3>2 DEF takenA
    <3>7. stageA' = [i \in Prime |-> IF i \in takenA[t] THEN "delivered" ELSE stageA[i]]
      BY <3>4, <3>5 DEF stageA
    <3>8. Abstract!Deliver(t)
      BY <3>1, <3>2, <3>5, <3>6, <3>7
      DEF Abstract!Deliver, stageA, takenA, closedA
    <3> QED BY <3>8 DEF Abstract!Next
  <2>3. ASSUME NEW D \in SUBSET Prime, Draw(t, D)
        PROVE  UNCHANGED <<stageA, takenA, closedA>>
    <3>1. /\ UNCHANGED <<states, old>> /\ closedA' = closedA
          /\ ~Holding(t) /\ ~Holding(t)'
          /\ \A u \in Thread \ {t} : primes'[u] = primes[u] /\ Holding(u)' = Holding(u)
      BY <1>0, <2>3 DEF Draw, Holding, closedA, TypeOK
    <3>2. takenA' = takenA
      BY <3>1 DEF takenA
    <3>3. stageA' = stageA
      BY <3>1 DEF stageA, StageOf
    <3> QED BY <3>1, <3>2, <3>3
  <2>4. ASSUME NEW ok \in BOOLEAN, Gens(t, ok)
        PROVE  UNCHANGED <<stageA, takenA, closedA>>
    <3>1. /\ UNCHANGED <<states, old, primes>> /\ closedA' = closedA
          /\ \A u \in Thread : Holding(u)' = Holding(u)
      BY <1>0, <2>4 DEF Gens, Holding, closedA, TypeOK
    <3> QED BY <3>1, Stutters
  <2>5. CASE \/ Create(t) \/ Check(t) \/ LockClaim(t) \/ Points(t)
             \/ LockPublish(t) \/ Unroll(t)
    <3>1. /\ UNCHANGED <<states, old, primes>> /\ closedA' = closedA
          /\ \A u \in Thread : Holding(u)' = Holding(u)
      BY <1>0, <2>5 DEF Create, Check, LockClaim, Points, LockPublish, Lock,
                        Unroll, Holding, closedA, TypeOK
    <3> QED BY <3>1, Stutters
  <2> QED BY <1>2, <2>1, <2>2, <2>3, <2>4, <2>5 DEF ThreadNext
<1>3. CASE Returned \/ UNCHANGED vars
  <2>1. UNCHANGED <<states, old, primes, pc, mpc>>
    BY <1>3 DEF Returned, vars
  <2> QED BY <2>1, Stutters DEF Holding, closedA
<1> QED BY <1>1, <1>2, <1>3 DEF Next

\* Every behaviour of the threaded driver is one InvalidCurves allows: each
\* prime is taken over once, delivered once and written once, and the array is
\* closed with the curve of every prime in it.
THEOREM Refinement == SafeSpec => Abstract!SafeSpec
  BY Invariant, InitRefined, StepRefined, PTL DEF SafeSpec, Abstract!SafeSpec

------------------------------------------------------------------------------
(* What the driver writes: the output is a sequence that only the main thread *)
(* extends, from behind its cursor, while the threads go on publishing.       *)

\* Where the curve of the i-th prime stands in the output.
Places(i) == {k \in DOMAIN output : output[k] = i}

\* old_states says which curves are in the output, and none is there twice.
PlacesInv ==
  \A i \in Prime : IF old[i] = "GENERATED" THEN \E k \in Nat : Places(i) = {k}
                   ELSE Places(i) = {}

\* The scan is left with every curve written.
EndInv ==
  mpc \in {"join", "copy", "done"} => \A i \in Prime : old[i] = "GENERATED"

\* A separator follows a curve, and the last of them waits for another one: when
\* it was written the counter had not reached its end.
SeparatorInv ==
  /\ \A k \in DOMAIN output :
       output[k] = Separator => k > 1 /\ output[k - 1] # Separator
  /\ output # <<>> /\ output[Len(output)] = Separator
       => \E i \in Prime : old[i] # "GENERATED"

OutputInv == PlacesInv /\ EndInv /\ SeparatorInv

------------------------------------------------------------------------------

LEMMA PrimeNotSeparator == Separator \notin Prime
  BY NAssumption DEF Separator, Prime

\* Only Scan writes, and only Break leaves the scan.
LEMMA OthersWriteNothing ==
  ASSUME TypeOK, [Next]_vars, ~Scan
  PROVE  /\ output' = output /\ old' = old
         /\ ~Break /\ mpc' \in {"join", "copy", "done"}
              => mpc \in {"join", "copy", "done"}
<1> USE DEF shared, main, local, stack
<1>1. CASE MainNext \/ SpuriousWakeup
  BY <1>1 DEF MainNext, SpuriousWakeup, Wait, Reacquire, Scan, Break, Join, Copy,
              FreeStacks
<1>2. ASSUME NEW t \in Thread, Create(t) \/ ThreadNext(t)
      PROVE  /\ output' = output /\ old' = old
             /\ mpc' \in {"join", "copy", "done"} => mpc \in {"join", "copy", "done"}
  BY <1>2 DEF Create, ThreadNext, Check, Draw, Gens, LockClaim, Claim, Points,
              LockPublish, Lock, Publish, Unroll
<1>3. CASE Returned \/ UNCHANGED vars
  BY <1>3 DEF Returned, vars
<1> QED BY <1>1, <1>2, <1>3 DEF Next

\* What one round of the scan adds: the curve behind the cursor, that was not
\* written before, at the end, and a separator while there is more to come.
LEMMA Written ==
  ASSUME TypeOK, Scan, IsNew(cursor)
  PROVE  /\ cursor \in Prime
         /\ old[cursor] # "GENERATED"
         /\ old' = [old EXCEPT ![cursor] = "GENERATED"]
         /\ Len(output') \in {Len(output) + 1, Len(output) + 2}
         /\ \A k \in 1 .. Len(output) : output'[k] = output[k]
         /\ output'[Len(output) + 1] = cursor
         /\ Len(output') = Len(output) + 2 =>
              output'[Len(output) + 2] = Separator /\ generated # N
<1> USE DEF TypeOK
<1>1. cursor \in Prime
  BY NAssumption DEF Scan, Prime
<1>2. old[cursor] # "GENERATED" /\ old' = [old EXCEPT ![cursor] = "GENERATED"]
  BY DEF Scan, IsNew
<1>3. CASE generated # N
  <2>1. output' = output \o <<cursor, Separator>>
    BY <1>3 DEF Scan
  <2>2. <<cursor, Separator>> \in Seq(Prime \cup {Separator})
    BY <1>1
  <2> QED BY <1>1, <1>2, <1>3, <2>1, <2>2
<1>4. CASE generated = N
  <2>1. output' = output \o <<cursor>>
    BY <1>4 DEF Scan
  <2>2. <<cursor>> \in Seq(Prime \cup {Separator})
    BY <1>1
  <2> QED BY <1>1, <1>2, <1>4, <2>1, <2>2
<1> QED BY <1>3, <1>4

\* Where a value stands in a sequence that was extended by one or two others.
LEMMA PlacesOf ==
  ASSUME NEW s, NEW r, NEW n \in Nat, NEW l \in {n + 1, n + 2}, NEW i,
         DOMAIN s = 1 .. n, DOMAIN r = 1 .. l,
         \A k \in 1 .. n : r[k] = s[k],
         l = n + 2 => r[n + 2] # i
  PROVE  {m \in DOMAIN r : r[m] = i}
           = {m \in DOMAIN s : s[m] = i} \cup (IF r[n + 1] = i THEN {n + 1} ELSE {})
<1>1. ASSUME NEW m \in 1 .. l
      PROVE  r[m] = i <=> (m \in 1 .. n /\ s[m] = i) \/ (m = n + 1 /\ r[n + 1] = i)
  <2>1. m \in 1 .. n \/ m = n + 1 \/ (m = n + 2 /\ l = n + 2)
    OBVIOUS
  <2>2. m = n + 1 \/ m = n + 2 => m \notin 1 .. n
    OBVIOUS
  <2> QED BY <2>1, <2>2
<1>2. 1 .. n \subseteq 1 .. l /\ n + 1 \in 1 .. l
  OBVIOUS
<1> QED BY <1>1, <1>2

LEMMA TypeStep ==
  ASSUME TypeOK, Scan
  PROVE  output' \in Seq(Prime \cup {Separator})
<1>1. cursor \in Prime
  BY NAssumption DEF Scan, Prime, TypeOK
<1>2. <<cursor>> \in Seq(Prime \cup {Separator})
  BY <1>1
<1>3. <<cursor, Separator>> \in Seq(Prime \cup {Separator})
  BY <1>1
<1>4. output \in Seq(Prime \cup {Separator})
  BY DEF TypeOK
<1>5. CASE output' = output
  BY <1>4, <1>5
<1>6. CASE output' = output \o <<cursor>>
  BY <1>2, <1>4, <1>6
<1>7. CASE output' = output \o <<cursor, Separator>>
  BY <1>3, <1>4, <1>7
<1> QED BY <1>5, <1>6, <1>7 DEF Scan

LEMMA PlacesStep ==
  ASSUME TypeOK, PlacesInv, [Next]_vars
  PROVE  PlacesInv'
<1> USE DEF PlacesInv, Places
<1>1. CASE output' = output /\ old' = old
  BY <1>1
<1>2. CASE Scan /\ IsNew(cursor)
  <2> SUFFICES ASSUME NEW i \in Prime
               PROVE  IF old'[i] = "GENERATED"
                      THEN \E k \in Nat : {m \in DOMAIN output' : output'[m] = i} = {k}
                      ELSE {m \in DOMAIN output' : output'[m] = i} = {}
    OBVIOUS
  <2>s. output \in Seq(Prime \cup {Separator}) /\ output' \in Seq(Prime \cup {Separator})
    BY <1>2, TypeStep DEF TypeOK
  <2>n. PICK n \in Nat : n = Len(output)
    BY <2>s
  <2>l. PICK l \in Nat : l = Len(output')
    BY <2>s
  <2>0. l \in {n + 1, n + 2} /\ DOMAIN output = 1 .. n /\ DOMAIN output' = 1 .. l
    BY <1>2, <2>s, <2>n, <2>l, Written
  <2>1. \A k \in 1 .. n : output'[k] = output[k]
    BY <1>2, <2>n, Written
  <2>2. output'[n + 1] = cursor /\ (l = n + 2 => output'[n + 2] # i)
    BY <1>2, <2>n, <2>l, Written, PrimeNotSeparator
  <2>a. {m \in DOMAIN output' : output'[m] = i}
          = {m \in DOMAIN output : output[m] = i}
              \cup (IF output'[n + 1] = i THEN {n + 1} ELSE {})
    BY <2>0, <2>1, <2>2, PlacesOf
  <2>3. CASE i = cursor
    <3>1. {m \in DOMAIN output : output[m] = i} = {}
      BY <1>2, <2>3, Written
    <3>2. {m \in DOMAIN output' : output'[m] = i} = {n + 1} /\ n + 1 \in Nat
      BY <2>0, <2>a, <2>2, <2>3, <3>1
    <3>3. old'[i] = "GENERATED"
      BY <1>2, <2>3, Written DEF TypeOK
    <3> QED BY <3>2, <3>3
  <2>4. CASE i # cursor
    <3>1. {m \in DOMAIN output' : output'[m] = i} = {m \in DOMAIN output : output[m] = i}
      BY <2>a, <2>2, <2>4
    <3>2. old'[i] = old[i]
      BY <1>2, <2>4, Written DEF TypeOK
    <3> QED BY <3>1, <3>2
  <2> QED BY <2>3, <2>4
<1>3. CASE Scan /\ ~IsNew(cursor)
  BY <1>1, <1>3 DEF Scan
<1> QED BY <1>1, <1>2, <1>3, OthersWriteNothing

\* The scan ends where everything is published and nothing published is new.
LEMMA EndStep ==
  ASSUME IInv, EndInv, [Next]_vars
  PROVE  EndInv'
<1> USE DEF IInv, EndInv
<1>1. CASE Break
  <2>1. Generated = Prime
    BY <1>1, AllGenerated DEF Break
  <2>2. \A i \in Prime : ~IsNew(i)
    BY <1>1, NAssumption DEF Break, ScanInv, Prime
  <2> QED BY <1>1, <2>1, <2>2 DEF Break, Generated, IsNew
<1>2. CASE Scan
  BY <1>2 DEF Scan
<1>3. CASE ~Break /\ ~Scan
  BY <1>3, OthersWriteNothing
<1> QED BY <1>1, <1>2, <1>3

LEMMA SeparatorStep ==
  ASSUME IInv, SeparatorInv, [Next]_vars
  PROVE  SeparatorInv'
<1> USE DEF SeparatorInv
<1>0. TypeOK
  BY DEF IInv
<1>1. CASE output' = output /\ old' = old
  BY <1>1
<1>2. CASE Scan /\ IsNew(cursor)
  <2>s. output \in Seq(Prime \cup {Separator}) /\ output' \in Seq(Prime \cup {Separator})
    BY <1>0, <1>2, TypeStep DEF TypeOK
  <2>n. PICK n \in Nat : n = Len(output)
    BY <2>s
  <2>l. PICK l \in Nat : l = Len(output')
    BY <2>s
  <2>0. l \in {n + 1, n + 2} /\ DOMAIN output = 1 .. n /\ DOMAIN output' = 1 .. l
    BY <1>0, <1>2, <2>s, <2>n, <2>l, Written
  <2>1. \A k \in 1 .. n : output'[k] = output[k]
    BY <1>0, <1>2, <2>n, Written
  <2>2. /\ output'[n + 1] # Separator
        /\ l = n + 2 => generated # N
    BY <1>0, <1>2, <2>n, <2>l, Written, PrimeNotSeparator
  <2>3. ASSUME NEW k \in DOMAIN output', output'[k] = Separator
        PROVE  k > 1 /\ output'[k - 1] # Separator
    <3>1. k \in 1 .. n \/ k = n + 1 \/ (k = n + 2 /\ l = n + 2)
      BY <2>0
    <3>2. CASE k \in 1 .. n
      <4>1. output[k] = Separator
        BY <2>1, <2>3, <3>2
      <4>2. k > 1 /\ output[k - 1] # Separator
        BY <2>0, <3>2, <4>1
      <4>3. k - 1 \in 1 .. n
        BY <2>0, <3>2, <4>2
      <4> QED BY <2>1, <4>2, <4>3
    <3>3. CASE k = n + 2
      <4>1. k > 1 /\ k - 1 = n + 1
        BY <2>0, <3>3
      <4> QED BY <2>2, <4>1
    <3> QED BY <2>2, <2>3, <3>1, <3>2, <3>3
  <2>4. ASSUME output'[Len(output')] = Separator
        PROVE  \E i \in Prime : old'[i] # "GENERATED"
    <3>1. generated # N
      BY <2>0, <2>2, <2>4, <2>l
    <3>2. PICK i \in Prime : states[i] # "GENERATED"
      <4>1. Generated # Prime
        BY <3>1, PrimeFinite DEF IInv, CounterExact
      <4> QED BY <4>1 DEF Generated
    <3>3. old[i] # "GENERATED" /\ i # cursor
      BY <1>2, <3>2 DEF IInv, ScanInv, IsNew
    <3>4. old'[i] = old[i]
      BY <1>0, <1>2, <3>3, Written DEF TypeOK
    <3> QED BY <3>3, <3>4
  <2> QED BY <2>3, <2>4
<1>3. CASE Scan /\ ~IsNew(cursor)
  BY <1>1, <1>3 DEF Scan
<1> QED BY <1>0, <1>1, <1>2, <1>3, OthersWriteNothing

LEMMA OutputInvariant == SafeSpec => []OutputInv
<1>1. Init => OutputInv
  BY DEF Init, OutputInv, PlacesInv, Places, EndInv, SeparatorInv
<1>2. IInv /\ OutputInv /\ [Next]_vars => OutputInv'
  BY PlacesStep, EndStep, SeparatorStep DEF OutputInv, IInv
<1> QED BY Invariant, <1>1, <1>2, PTL DEF SafeSpec

------------------------------------------------------------------------------

\* Every curve is written once, and only when it has been published, however the
\* publications fall between the main thread's scans.
THEOREM CurvesWrittenOnce == SafeSpec => []WrittenOnce
<1>1. IInv /\ OutputInv => WrittenOnce
  <2> SUFFICES ASSUME IInv, OutputInv, NEW i \in Prime
               PROVE  Cardinality(Places(i)) = IF old[i] = "GENERATED" THEN 1 ELSE 0
    BY DEF WrittenOnce, Places, IInv, ScanInv
  <2>1. CASE old[i] = "GENERATED"
    <3>1. PICK k \in Nat : Places(i) = {k}
      BY <2>1 DEF OutputInv, PlacesInv
    <3> QED BY <2>1, <3>1, FS_Singleton
  <2>2. CASE old[i] # "GENERATED"
    BY <2>2, FS_EmptySet DEF OutputInv, PlacesInv
  <2> QED BY <2>1, <2>2
<1> QED BY Invariant, OutputInvariant, <1>1, PTL

\* The output begins with a curve, no separator follows another, and none is
\* left at the end.
THEOREM SeparatorsStandBetween == SafeSpec => []SeparatorsBetween
<1>1. IInv /\ OutputInv => SeparatorsBetween
  <2> SUFFICES ASSUME IInv, OutputInv, mpc = "done"
               PROVE  output[Len(output)] # Separator
    BY DEF SeparatorsBetween, OutputInv, SeparatorInv
  <2>1. \A i \in Prime : old[i] = "GENERATED"
    BY DEF OutputInv, EndInv
  <2>2. output # <<>>
    <3>1. 0 \in Prime
      BY NAssumption DEF Prime
    <3>2. PICK k \in Nat : Places(0) = {k}
      BY <2>1, <3>1 DEF OutputInv, PlacesInv
    <3> QED BY <3>2 DEF Places
  <2> QED BY <2>1, <2>2 DEF OutputInv, SeparatorInv
<1> QED BY Invariant, OutputInvariant, <1>1, PTL
===============================================================================
