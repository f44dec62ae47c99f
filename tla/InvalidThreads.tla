---------------------------- MODULE InvalidThreads ----------------------------
(***************************************************************************)
(* The threaded driver of the invalid-curve method:                        *)
(* invalid_curves_threaded, run by the main thread, and invalid_thread,    *)
(* run by each of the cfg->threads worker threads.  They share the array   *)
(* of prime states, the array of finished curves and the counter           *)
(* `generated` under one mutex; a condition variable tells the main thread *)
(* that curves were published, and it alone writes to the output.          *)
(*                                                                         *)
(* A curve is abstracted to the set of primes that divide its order, all   *)
(* the driver ever asks of it.  What is published is a copy that lives on  *)
(* the PARI stack of the thread that made it, so each thread's stack is    *)
(* modelled by its depth (avma), and `live` is the set of published copies *)
(* no assignment to avma has given back.                                   *)
(***************************************************************************)
EXTENDS Integers, FiniteSets, Sequences

CONSTANTS
  Thread,   \* the worker threads, cfg->threads of them
  N,        \* nprimes: how many prime orders the method looks for
  Main,     \* the main thread, as a holder of the mutex
  None      \* nobody

ASSUME ThreadAssumption == Main \notin Thread /\ None \notin Thread /\ Main # None
ASSUME NAssumption == N \in Nat \ {0}

Prime == 0 .. N - 1   \* indices of the array `primes`

VARIABLES
  \* shared, under mutex_state
  mutex,       \* state_mutex: who holds it
  states,      \* states[i] of the i-th prime
  curves,      \* local_curves[i]: the thread whose copy it points to
  generated,   \* *generated
  \* the main thread
  mpc,         \* where it is
  cursor,      \* index of the loop it is in
  old,         \* old_states
  output,      \* what output_o and output_o_separator wrote, in order
  \* the worker threads
  pc,          \* pc[t]: where thread t is
  order,       \* order[t]: the primes that divide invalid->order
  primes,      \* primes[t]: the primes it claimed, the local array `primes`
  avma,        \* avma[t]: depth of its PARI stack
  btop,        \* btop[t]: the depth at the top of its loop
  depth,       \* depth[i]: depth of the stack that holds the copy for prime i
  live         \* the copies whose memory has not been given back

shared == <<mutex, states, curves, generated>>
main == <<mpc, cursor, old, output>>
local == <<order, primes>>
stack == <<avma, btop, depth, live>>
vars == <<shared, main, pc, local, stack>>

State == {"FREE", "GENERATING", "GENERATED"}
Separator == -1   \* what output_o_separator writes, told apart from every index

------------------------------------------------------------------------------
(* The main thread.                                                          *)

\* The mutex is taken before the first thread exists.
Init ==
  /\ mutex = Main
  /\ states = [i \in Prime |-> "FREE"]
  /\ curves = [i \in Prime |-> None]
  /\ generated = 0
  /\ mpc = "create"
  /\ cursor = 0
  /\ old = [i \in Prime |-> "FREE"]
  /\ output = <<>>
  /\ pc = [t \in Thread |-> "unborn"]
  /\ order = [t \in Thread |-> {}]
  /\ primes = [t \in Thread |-> {}]
  /\ avma = [t \in Thread |-> 0]
  /\ btop = [t \in Thread |-> 0]
  /\ depth = [i \in Prime |-> 0]
  /\ live = {}

\* pthread_create
Create(t) ==
  /\ mpc = "create"
  /\ pc[t] = "unborn"
  /\ pc' = [pc EXCEPT ![t] = "check"]
  /\ UNCHANGED <<shared, main, local, stack>>

\* pthread_cond_wait: gives the mutex up and sleeps, in one step.
Wait ==
  /\ \/ mpc = "create" /\ \A t \in Thread : pc[t] # "unborn"
     \/ mpc = "scan" /\ cursor = N /\ generated # N
  /\ mpc' = "waiting"
  /\ mutex' = None
  /\ UNCHANGED <<states, curves, generated, cursor, old, output, pc, local, stack>>

\* POSIX lets pthread_cond_wait return without a signal.
SpuriousWakeup ==
  /\ mpc = "waiting"
  /\ mpc' = "woken"
  /\ UNCHANGED <<shared, cursor, old, output, pc, local, stack>>

\* pthread_cond_wait returns once it holds the mutex again.
Reacquire ==
  /\ mpc = "woken"
  /\ mutex = None
  /\ mutex' = Main
  /\ mpc' = "scan"
  /\ cursor' = 0
  /\ UNCHANGED <<states, curves, generated, old, output, pc, local, stack>>

\* Fault: the loop forgets what it has written.
IsThere(i) == states[i] = "GENERATED"

IsNew(i) == old[i] # states[i] /\ states[i] = "GENERATED"

\* Fault: a separator follows the last curve.
WritingAll(i) == <<i, Separator>>

\* What is written for the i-th prime.
Writing(i) == IF generated # N THEN <<i, Separator>> ELSE <<i>>

\* One round of the scanning loop.
Scan ==
  /\ mpc = "scan"
  /\ cursor < N
  /\ IF IsNew(cursor)
     THEN /\ output' = output \o Writing(cursor)
          /\ old' = [old EXCEPT ![cursor] = states[cursor]]
     ELSE UNCHANGED <<output, old>>
  /\ cursor' = cursor + 1
  /\ UNCHANGED <<shared, mpc, pc, local, stack>>

\* Leaves the loop and unlocks the mutex.
Break ==
  /\ mpc = "scan"
  /\ cursor = N
  /\ generated = N
  /\ mutex' = None
  /\ mpc' = "join"
  /\ UNCHANGED <<states, curves, generated, cursor, old, output, pc, local, stack>>

\* pthread_join of every thread.
Join ==
  /\ mpc = "join"
  /\ \A t \in Thread : pc[t] = "dead"
  /\ mpc' = "copy"
  /\ cursor' = 0
  /\ UNCHANGED <<shared, old, output, pc, local, stack>>

\* curve_new_copy of the thread's copy, then curve_free of it.
Copy ==
  /\ mpc = "copy"
  /\ cursor < N
  /\ cursor' = cursor + 1
  /\ UNCHANGED <<shared, mpc, old, output, pc, local, stack>>

\* pari_thread_free of every thread's stack, and the return.
FreeStacks ==
  /\ mpc = "copy"
  /\ cursor = N
  /\ live' = {}
  /\ mpc' = "done"
  /\ UNCHANGED <<shared, cursor, old, output, pc, local, avma, btop, depth>>

MainNext == Wait \/ Reacquire \/ Scan \/ Break \/ Join \/ Copy \/ FreeStacks

------------------------------------------------------------------------------
(* The worker threads.                                                       *)

\* invalid_get_generated locks, reads and unlocks; the loop goes on or ends.
Check(t) ==
  /\ pc[t] = "check"
  /\ mutex = None
  /\ pc' = [pc EXCEPT ![t] = IF generated < N THEN "draw" ELSE "dead"]
  /\ UNCHANGED <<shared, main, local, stack>>

\* exhaustive_gen(B .. GENERATORS): a curve with a random b and its order,
\* divisible by the primes D.
Draw(t, D) ==
  /\ pc[t] = "draw"
  /\ btop' = [btop EXCEPT ![t] = avma[t]]
  /\ avma' = [avma EXCEPT ![t] = @ + 1]
  /\ order' = [order EXCEPT ![t] = D]
  /\ primes' = [primes EXCEPT ![t] = {}]
  /\ pc' = [pc EXCEPT ![t] = IF D # {} THEN "gens" ELSE "unroll"]
  /\ UNCHANGED <<shared, main, depth, live>>

\* exhaustive_gen_retry(GENERATORS .. POINTS, 1) may fail, with gens_gen_one.
Gens(t, ok) ==
  /\ pc[t] = "gens"
  /\ pc' = [pc EXCEPT ![t] = IF ok THEN "claim" ELSE "unroll"]
  /\ UNCHANGED <<shared, main, local, stack>>

Lock(t, from, to) ==
  /\ pc[t] = from
  /\ mutex = None
  /\ mutex' = t
  /\ pc' = [pc EXCEPT ![t] = to]
  /\ UNCHANGED <<states, curves, generated, main, local, stack>>

LockClaim(t) == Lock(t, "claim", "claiming")

\* Fault: a prime another thread is generating is claimed as well.
Unfinished(t) == {i \in order[t] : states[i] # "GENERATED"}

\* The primes that divide the order and are still FREE.
Unclaimed(t) == {i \in order[t] : states[i] = "FREE"}

\* Claims them; unlocks.
Claim(t) ==
  LET free == Unclaimed(t) IN
  /\ pc[t] = "claiming"
  /\ states' = [i \in Prime |-> IF i \in free THEN "GENERATING" ELSE states[i]]
  /\ primes' = [primes EXCEPT ![t] = free]
  /\ mutex' = None
  /\ pc' = [pc EXCEPT ![t] = IF free # {} THEN "points" ELSE "unroll"]
  /\ UNCHANGED <<curves, generated, main, order, stack>>

\* exhaustive_gen(POINTS .. END), outside of the lock.
Points(t) ==
  /\ pc[t] = "points"
  /\ pc' = [pc EXCEPT ![t] = "publish"]
  /\ UNCHANGED <<shared, main, local, stack>>

LockPublish(t) == Lock(t, "publish", "publishing")

\* Fault: nobody is woken.
NoSignal == mpc

\* pthread_cond_signal: where the main thread is then.
Signal == IF mpc = "waiting" THEN "woken" ELSE mpc

\* Fault: one is added whatever the number of primes.
AddOne(t) == generated + 1

\* The counter after the primes of thread t.
Count(t) == generated + Cardinality(primes[t])

\* Publishes one copy of the curve per claimed prime, signals, unlocks.
Publish(t) ==
  /\ pc[t] = "publishing"
  /\ states' = [i \in Prime |-> IF i \in primes[t] THEN "GENERATED" ELSE states[i]]
  /\ curves' = [i \in Prime |-> IF i \in primes[t] THEN t ELSE curves[i]]
  /\ avma' = [avma EXCEPT ![t] = @ + 1]
  /\ depth' = [i \in Prime |-> IF i \in primes[t] THEN avma'[t] ELSE depth[i]]
  /\ live' = live \cup primes[t]
  /\ generated' = Count(t)
  /\ mpc' = Signal
  /\ mutex' = None
  /\ pc' = [pc EXCEPT ![t] = "unroll"]
  /\ UNCHANGED <<cursor, old, output, local, btop>>

\* Fault: the stack goes back whatever was published.
UnrollAll(t) ==
  /\ pc[t] = "unroll"
  /\ avma' = [avma EXCEPT ![t] = btop[t]]
  /\ live' = {i \in live : curves[i] = t => depth[i] <= btop[t]}
  /\ pc' = [pc EXCEPT ![t] = "check"]
  /\ UNCHANGED <<shared, main, local, btop, depth>>

\* Frees points, generators and curve; the PARI stack goes back to btop only
\* if the iteration published nothing.
Unroll(t) ==
  /\ pc[t] = "unroll"
  /\ IF primes[t] = {}
     THEN /\ avma' = [avma EXCEPT ![t] = btop[t]]
          /\ live' = {i \in live : curves[i] = t => depth[i] <= btop[t]}
     ELSE UNCHANGED <<avma, live>>
  /\ pc' = [pc EXCEPT ![t] = "check"]
  /\ UNCHANGED <<shared, main, local, btop, depth>>

ThreadNext(t) ==
  \/ Check(t)
  \/ \E D \in SUBSET Prime : Draw(t, D)
  \/ \E ok \in BOOLEAN : Gens(t, ok)
  \/ LockClaim(t)
  \/ Claim(t)
  \/ Points(t)
  \/ LockPublish(t)
  \/ Publish(t)
  \/ Unroll(t)

\* invalid_do goes on; nothing of the driver is left to run.
Returned == mpc = "done" /\ UNCHANGED vars

Next ==
  \/ MainNext
  \/ SpuriousWakeup
  \/ \E t \in Thread : Create(t) \/ ThreadNext(t)
  \/ Returned

\* The mutex handed to thread t, at one of the three places where it locks.
Acquire(t) == Check(t) \/ LockClaim(t) \/ LockPublish(t)

\* The scheduler runs every thread, and a contended mutex is not denied to one
\* thread for ever.  The random curves are not for ever curves whose order a
\* given prime fails to divide, nor, when it does, curves without generators.
Fairness ==
  /\ WF_vars(MainNext)
  /\ \A t \in Thread : WF_vars(Create(t) \/ ThreadNext(t)) /\ SF_vars(Acquire(t))
  /\ \A i \in Prime :
       /\ SF_vars(\E t \in Thread, D \in SUBSET Prime : i \in D /\ Draw(t, D))
       /\ SF_vars(\E t \in Thread : i \in order[t] /\ Gens(t, TRUE))

SafeSpec == Init /\ [][Next]_vars
Spec == SafeSpec /\ Fairness

------------------------------------------------------------------------------
(* Properties.                                                               *)

MainPC == {"create", "waiting", "woken", "scan", "join", "copy", "done"}
ThreadPC == {"unborn", "check", "draw", "gens", "claim", "claiming", "points",
             "publish", "publishing", "unroll", "dead"}

\* Every variable holds a value of its kind.
TypeOK ==
  /\ mutex \in Thread \cup {Main, None}
  /\ states \in [Prime -> State]
  /\ curves \in [Prime -> Thread \cup {None}]
  /\ generated \in Nat
  /\ mpc \in MainPC
  /\ cursor \in 0 .. N
  /\ old \in [Prime -> State]
  /\ output \in Seq(Prime \cup {Separator})
  /\ pc \in [Thread -> ThreadPC]
  /\ order \in [Thread -> SUBSET Prime]
  /\ primes \in [Thread -> SUBSET Prime]
  /\ avma \in [Thread -> Nat]
  /\ btop \in [Thread -> Nat]
  /\ depth \in [Prime -> Nat]
  /\ live \in SUBSET Prime

\* A thread holds claims from the moment it took them to their publication.
Holding(t) == pc[t] \in {"points", "publish", "publishing"}

\* The primes being generated are exactly those claimed by the threads between
\* their claim and their publication, and no prime has two claimants: what the
\* local array `primes` remembers after the unlock is still true when the
\* second lock is taken (invalid_thread).
ClaimsExclusive ==
  /\ \A i \in Prime : states[i] = "GENERATING"
                        <=> \E t \in Thread : Holding(t) /\ i \in primes[t]
  /\ \A t, u \in Thread :
       t # u /\ Holding(t) /\ Holding(u) => primes[t] \cap primes[u] = {}

Generated == {i \in Prime : states[i] = "GENERATED"}

\* The counter both sides test for the end is the number of GENERATED primes,
\* whatever the order in which the threads add to it.
CounterExact == generated = Cardinality(Generated)

\* A published copy is never given back before the main thread has copied it:
\* neither by the `avma = btop` of its thread nor by pari_thread_free.
PublishedLive == mpc # "done" => Generated \subseteq live

\* No publication is missed: while the main thread sleeps in
\* pthread_cond_wait, all that is published has been written, and not all is
\* published yet.
NoLostSignal ==
  mpc = "waiting" => /\ \A i \in Prime : ~IsNew(i)
                     /\ generated < N

\* Every curve is written once, and only after its publication: the number of
\* times it stands in the output is given by old_states.
WrittenOnce ==
  \A i \in Prime :
    /\ old[i] = "GENERATED" => states[i] = "GENERATED"
    /\ Cardinality({k \in DOMAIN output : output[k] = i})
         = IF old[i] = "GENERATED" THEN 1 ELSE 0

\* A published curve is never claimed again and its pointer never replaced.
PublishedStays ==
  [][\A i \in Generated : states'[i] = "GENERATED" /\ curves'[i] = curves[i]]_vars

\* Separators stand only between curves: the output starts with a curve, no
\* separator follows another, and none is left over when the method ends.
SeparatorsBetween ==
  /\ \A k \in DOMAIN output :
       output[k] = Separator => k > 1 /\ output[k - 1] # Separator
  /\ mpc = "done" => output[Len(output)] # Separator

\* docs/output.md, "The curve dictionaries are enclosed in an array": between
\* two curves of the finished output there is a separator.
CurvesSeparated ==
  mpc = "done" =>
    \A k \in 2 .. Len(output) :
      output[k] # Separator => output[k - 1] = Separator

\* The driver ends, with the curve of every prime written.
Terminates == <>(mpc = "done" /\ \A i \in Prime : old[i] = "GENERATED")

------------------------------------------------------------------------------
(* Refinement: the stages of InvalidCurves are read off the arrays.          *)

StageOf(i) ==
  IF old[i] = "GENERATED" THEN "written"
  ELSE CASE states[i] = "FREE" -> "wanted"
         [] states[i] = "GENERATING" -> "taken"
         [] states[i] = "GENERATED" -> "delivered"

Abstract == INSTANCE InvalidCurves WITH
  Worker <- Thread,
  stage <- [i \in Prime |-> StageOf(i)],
  taken <- [t \in Thread |-> IF Holding(t) THEN primes[t] ELSE {}],
  closed <- mpc \notin {"create", "waiting", "woken", "scan"}

\* Each step of the threads and of the main thread is a step of InvalidCurves
\* or none, and the method makes progress as that specification asks.
ImplementsInvalidCurves == Abstract!Spec
==============================================================================
