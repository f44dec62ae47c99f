--------------------------- MODULE Exhaustive_proofs ---------------------------
(***************************************************************************)
(* Proofs about the engine, for any calls whose tables fit together, of    *)
(* which the program's are instances.  Its safety properties follow from   *)
(* one inductive invariant, made of the named parts below.                 *)
(***************************************************************************)
EXTENDS Exhaustive, TLAPS

\* A difference goes back, to a stage the tables allow a retry from.
GoesBack == diff <= 0 /\ NewState \in Targets(job, state)

DiffInv ==
  /\ phase \in {"react", "unroll"} => GoesBack
  /\ phase = "unroll" => NewState <= i /\ i <= state
  /\ result = 1 => phase = "returned" /\ state = job.end

\* Who assigned a product of this pass: the caller, or a stage that assigns it
\* and has been reached.
ByInv ==
  /\ \A p \in Callers(job) : by[p] = p
  /\ \A p \in Current \ Callers(job) :
       /\ by[p] \in Span(job)
       /\ by[p] <= state
       /\ phase = "generate" => by[p] < state
       /\ p \in job.writes[by[p]]

\* The stages that will not be run again before the engine goes on.
Horizon ==
  IF phase = "check" THEN state + 1 ELSE IF phase = "unroll" THEN NewState ELSE state

\* Their products are there.
Passed == \A r \in job.start .. Horizon - 1 : job.writes[r] \subseteq Current

\* A product on the heap that the engine has assigned is of this pass, and in the
\* unroll loop of a stage that the loop has not come past.
HeapInv ==
  \A p \in (set \cap OnHeap) \ Leftover :
    p \in Current /\ (phase = "unroll" => by[p] <= i)

\* The stages of this pass so far.
Begun ==
  {r \in Span(job) : r < state \/ (r = state /\ phase \notin {"generate", "returned"})}

\* They lie on the stack one above the other.
StackInv ==
  /\ \A r \in Begun : tops[r] <= (r - job.start) * ROOM
  /\ \A r, t \in Begun : r < t => tops[r] + job.size[r] <= tops[t]
  /\ phase = "generate" =>
       /\ avma <= (state - job.start) * ROOM
       /\ \A r \in Begun : tops[r] + job.size[r] <= avma
  /\ phase = "check" => avma = tops[state] + job.size[state]

IInv ==
  /\ TypeOK
  /\ FitsTogether(job)
  /\ DiffInv
  /\ ByInv
  /\ Passed
  /\ HeapInv
  /\ LeaksOnlyAtStart
  /\ StackInv

USE DEF SEED, METADATA, END, Stage, ROOM, Top

------------------------------------------------------------------------------
(* What the tables of a call look like.                                      *)

LEMMA Tables ==
  ASSUME TypeOK, FitsTogether(job)
  PROVE  /\ job.start \in 0 .. 8 /\ job.end \in 1 .. 9 /\ job.start < job.end
         /\ Span(job) = job.start .. job.end - 1 /\ Span(job) \subseteq Stage
         /\ job.retry \in Nat /\ job.timeout \in BOOLEAN
         /\ \A s \in Stage :
              /\ job.size[s] \in 0 .. 1
              /\ job.writes[s] \subseteq Stage /\ job.unrolls[s] \subseteq Stage
              /\ job.refuses[s] \subseteq Int /\ job.checks[s] \subseteq Int
<1>1. /\ job.start \in 0 .. 8 /\ job.end \in 1 .. 9
      /\ job.retry \in Nat /\ job.timeout \in BOOLEAN
      /\ job.size \in [Stage -> 0 .. 1]
      /\ job.writes \in [Stage -> SUBSET Stage] /\ job.unrolls \in [Stage -> SUBSET Stage]
      /\ job.refuses \in [Stage -> SUBSET Int] /\ job.checks \in [Stage -> SUBSET Int]
  BY DEF TypeOK, Shape
<1>2. job.start < job.end
  BY DEF FitsTogether
<1>3. Span(job) = job.start .. job.end - 1 /\ Span(job) \subseteq Stage
  BY <1>1, <1>2 DEF Span
<1>4. ASSUME NEW s \in Stage
      PROVE  /\ job.size[s] \in 0 .. 1
             /\ job.writes[s] \subseteq Stage /\ job.unrolls[s] \subseteq Stage
             /\ job.refuses[s] \subseteq Int /\ job.checks[s] \subseteq Int
  BY <1>1, <1>4
<1> QED BY <1>1, <1>2, <1>3, <1>4

LEMMA TargetsBack ==
  ASSUME TypeOK, FitsTogether(job), state \in Span(job), NEW n \in Targets(job, state)
  PROVE  n \in job.start .. state
<1>1. \A d \in job.refuses[state] \cup job.checks[state] : d \in Int /\ d <= 0
  BY Tables DEF FitsTogether
<1>2. job.start \in Int /\ state \in Int /\ job.start <= state
  BY Tables
<1>3. n = job.start \/ \E d \in job.refuses[state] \cup job.checks[state] :
                         n = MaxOf(job.start, state + d)
  BY DEF Targets, Target
<1> QED BY <1>1, <1>2, <1>3 DEF MaxOf

\* The stage the engine goes back to, in the phases that use it.
LEMMA Back ==
  ASSUME TypeOK, FitsTogether(job), DiffInv, phase \in {"react", "unroll"}
  PROVE  /\ state \in Span(job) /\ diff \in Int
         /\ NewState \in job.start .. state
         /\ NewState \in Targets(job, state)
  BY TargetsBack DEF DiffInv, GoesBack, TypeOK

------------------------------------------------------------------------------
(* Initially.                                                                *)

LEMMA Initially == Init => IInv
<1> SUFFICES ASSUME Init PROVE IInv
  OBVIOUS
<1>1. job \in Shape /\ FitsTogether(job)
  BY JobsAssumption DEF Init
<1>2. /\ job.start \in 0 .. 8 /\ job.end \in 1 .. 9 /\ job.start < job.end
  BY <1>1 DEF Shape, FitsTogether
<1>3. TypeOK
  <2>1. set \in SUBSET Stage /\ state \in job.start .. job.end /\ state \in Span(job)
    BY <1>2 DEF Init, Callers, Span
  <2>2. by \in [Stage -> SEED .. END] /\ tops \in [Stage -> Nat] /\ tries \in [Stage -> Nat]
    BY <1>2 DEF Init
  <2>3. i \in Stage /\ diff \in Int /\ avma \in Nat /\ lost \in SUBSET Stage
    BY <1>2 DEF Init
  <2>4. /\ phase \in Phase /\ result \in {-1, 0, 1}
        /\ stale \in BOOLEAN /\ wrong \in BOOLEAN
    BY DEF Init, Phase
  <2> QED BY <1>1, <2>1, <2>2, <2>3, <2>4 DEF TypeOK
<1>4. DiffInv /\ Passed /\ LeaksOnlyAtStart
  BY <1>2 DEF Init, DiffInv, Passed, Horizon, LeaksOnlyAtStart
<1>5. Current = Callers(job)
  BY <1>2 DEF Init, Current, Callers
<1>6. ByInv
  BY <1>2, <1>5 DEF Init, ByInv, Callers
<1>7. HeapInv
  BY <1>2, <1>5 DEF Init, HeapInv
<1>8. Begun = {}
  BY <1>2 DEF Init, Begun, Span
<1>9. StackInv
  BY <1>2, <1>8 DEF Init, StackInv
<1> QED BY <1>1, <1>3, <1>4, <1>6, <1>7, <1>9 DEF IInv

------------------------------------------------------------------------------
(* A generator assigns products of its stage.                                *)

LEMMA AssignTypes ==
  ASSUME TypeOK, FitsTogether(job), state \in Span(job),
         NEW W \in SUBSET job.writes[state], Assign(W)
  PROVE  /\ set' \in SUBSET Stage /\ by' \in [Stage -> SEED .. END]
         /\ lost' \in SUBSET Stage /\ stale' \in BOOLEAN /\ wrong' \in BOOLEAN
<1>1. W \subseteq Stage /\ state \in Stage
  BY Tables
<1>2. set' \in SUBSET Stage
  BY <1>1 DEF Assign, TypeOK
<1>3. by' \in [Stage -> SEED .. END]
  BY <1>1 DEF Assign, TypeOK
<1>4. lost' \in SUBSET Stage
  BY <1>1 DEF Assign, TypeOK, OnHeap
<1>5. job.cached \in BOOLEAN /\ job.twist \in BOOLEAN
  BY DEF TypeOK, Shape
<1>6. stale' \in BOOLEAN
  BY <1>5 DEF Assign, TypeOK
<1>7. wrong' \in BOOLEAN
  BY <1>5 DEF Assign, TypeOK
<1> QED BY <1>2, <1>3, <1>4, <1>6, <1>7

\* Stages are numbers, in order.
LEMMA Numbers ==
  ASSUME TypeOK, FitsTogether(job)
  PROVE  /\ job.start \in Int /\ job.end \in Int /\ 0 <= job.start /\ job.end <= 9
         /\ state \in Int /\ i \in Int /\ avma \in Int
         /\ \A s : s \in Span(job) <=> s \in Int /\ job.start <= s /\ s < job.end
         /\ \A p : p \in Callers(job) <=> p \in Int /\ 0 <= p /\ p < job.start
         /\ \A s \in Span(job) : s \in Stage
         /\ \A p \in Callers(job) : p \in Stage
<1>1. /\ job.start \in 0 .. 8 /\ job.end \in 1 .. 9
      /\ Span(job) = job.start .. job.end - 1
  BY Tables
<1>2. job.start \in Int /\ job.end \in Int /\ 0 <= job.start /\ job.end <= 9
  BY <1>1
<1>3. state \in job.start .. job.end /\ i \in Stage /\ avma \in Nat
  BY DEF TypeOK
<1>4. state \in Int /\ i \in Int /\ avma \in Int
  BY <1>2, <1>3
<1>5. \A s : s \in Span(job) <=> s \in Int /\ job.start <= s /\ s < job.end
  BY <1>1, <1>2
<1>6. \A p : p \in Callers(job) <=> p \in Int /\ 0 <= p /\ p < job.start
  BY <1>2 DEF Callers
<1>7. ASSUME NEW s \in Span(job) PROVE s \in Stage
  <2>1. s \in Int /\ job.start <= s /\ s < job.end
    BY <1>5
  <2> QED BY <1>2, <2>1
<1>8. ASSUME NEW p \in Callers(job) PROVE p \in Stage
  <2>1. p \in Int /\ 0 <= p /\ p < job.start
    BY <1>6
  <2> QED BY <1>1, <2>1
<1> QED BY <1>2, <1>4, <1>5, <1>6, <1>7, <1>8

\* What the stage of a running call indexes.
LEMMA Indices ==
  ASSUME TypeOK, FitsTogether(job), phase # "returned"
  PROVE  /\ state \in Span(job) /\ state \in Stage /\ state + 1 \in job.start .. job.end
         /\ [tops EXCEPT ![state] = avma] \in [Stage -> Nat]
         /\ [tries EXCEPT ![state] = 0] \in [Stage -> Nat]
         /\ [tries EXCEPT ![state] = @ + 1] \in [Stage -> Nat]
         /\ avma + job.size[state] \in Nat
         /\ \A garbage \in 0 .. 1 : avma + garbage \in Nat
<1>0. state \in Span(job)
  BY DEF TypeOK
<1>1. state \in Span(job) /\ state \in Stage /\ state + 1 \in job.start .. job.end
  BY <1>0, Tables
<1>2. tops \in [Stage -> Nat] /\ tries \in [Stage -> Nat] /\ avma \in Nat
  BY DEF TypeOK
<1>3. tries[state] + 1 \in Nat
  BY <1>1, <1>2
<1>4. job.size[state] \in 0 .. 1
  BY <1>1, Tables
<1> QED BY <1>1, <1>2, <1>3, <1>4

LEMMA TypesStep == IInv /\ [Next]_vars => TypeOK'
<1> SUFFICES ASSUME IInv, [Next]_vars PROVE TypeOK'
  OBVIOUS
<1>0. TypeOK /\ FitsTogether(job) /\ DiffInv
  BY DEF IInv
<1>1. CASE Succeed
  <2>1. phase = "generate" /\ Assign(job.writes[state])
    BY <1>1 DEF Succeed, Generating
  <2>2. /\ set' \in SUBSET Stage /\ by' \in [Stage -> SEED .. END]
        /\ lost' \in SUBSET Stage /\ stale' \in BOOLEAN /\ wrong' \in BOOLEAN
    BY <1>0, <2>1, Indices, AssignTypes
  <2>3. tops' \in [Stage -> Nat] /\ avma' \in Nat
    BY <1>0, <1>1, <2>1, Indices DEF Succeed, Generating
  <2> QED BY <1>0, <1>1, <2>1, <2>2, <2>3 DEF Succeed, Generating, TypeOK, Phase
<1>2. CASE Refuse
  <2>1. phase = "generate" /\ UNCHANGED curve
    BY <1>2 DEF Refuse, Generating
  <2>2. PICK d \in job.refuses[state] : diff' = d
    BY <1>2 DEF Refuse
  <2>3. diff' \in Int
    BY <1>0, <2>1, <2>2, Indices, Tables
  <2>4. tops' \in [Stage -> Nat] /\ avma' \in Nat
    BY <1>0, <1>2, <2>1, Indices DEF Refuse, Generating
  <2> QED BY <1>0, <1>2, <2>1, <2>3, <2>4 DEF Refuse, Generating, curve, TypeOK, Phase
<1>3. CASE Expire
  <2>1. phase = "generate"
    BY <1>3 DEF Expire, Generating
  <2>2. PICK kept \in SUBSET job.writes[state] : Assign(kept)
    BY <1>3 DEF Expire
  <2>3. /\ set' \in SUBSET Stage /\ by' \in [Stage -> SEED .. END]
        /\ lost' \in SUBSET Stage /\ stale' \in BOOLEAN /\ wrong' \in BOOLEAN
    BY <1>0, <2>1, <2>2, Indices, AssignTypes
  <2>4. tops' \in [Stage -> Nat] /\ avma' \in Nat
    BY <1>0, <1>3, <2>1, Indices DEF Expire, Generating
  <2>5. diff' \in Int
    <3>1. job.start \in Int /\ state \in Int
      BY <1>0, Numbers
    <3>2. diff' = job.start - state
      BY <1>3 DEF Expire
    <3> QED BY <3>1, <3>2
  <2> QED BY <1>0, <1>3, <2>1, <2>3, <2>4, <2>5 DEF Expire, Generating, TypeOK, Phase
<1>4. CASE Accept
  <2>1. /\ phase = "check" /\ state' = state + 1 /\ job' = job
        /\ tries' \in [Stage -> Nat]
        /\ state' \in job.start .. job.end
    BY <1>0, <1>4, Indices DEF Accept
  <2>2. phase' \in Phase /\ result' \in {-1, 0, 1}
    BY <1>0, <1>4 DEF Accept, Advance, Phase, TypeOK
  <2>3. phase' # "returned" => state' # job.end
    BY <1>0, <1>4 DEF Accept, Advance
  <2>4. phase' # "returned" => state' \in Span(job)
    <3>1. job.start \in Int /\ job.end \in Int /\ Span(job) = job.start .. job.end - 1
      BY <1>0, Tables
    <3>2. state' \in job.start .. job.end
      BY <2>1
    <3> QED BY <2>3, <3>1, <3>2
  <2> QED BY <1>0, <1>4, <2>1, <2>2, <2>4 DEF Accept, curve, TypeOK
<1>5. CASE Reject
  <2>1. PICK d \in job.checks[state] : diff' = d
    BY <1>5 DEF Reject
  <2>2. diff' \in Int
    BY <1>0, <1>5, <2>1, Indices, Tables DEF Reject
  <2> QED BY <1>0, <1>5, <2>2 DEF Reject, curve, TypeOK, Phase
<1>6. CASE Fail
  BY <1>0, <1>6 DEF Fail, curve, TypeOK, Phase
<1>7. CASE GiveUp
  <2>1. tries' \in [Stage -> Nat]
    BY <1>0, <1>7, Indices DEF GiveUp
  <2> QED BY <1>0, <1>7, <2>1 DEF GiveUp, curve, TypeOK, Phase
<1>8. CASE Retry
  <2>1. tries' \in [Stage -> Nat] /\ i' \in Stage
    BY <1>0, <1>8, Indices DEF Retry, TypeOK
  <2> QED BY <1>0, <1>8, <2>1 DEF Retry, curve, TypeOK, Phase
<1>9. CASE UnrollStage
  <2>1. NewState \in job.start .. state /\ i \in Stage /\ NewState < i
    BY <1>0, <1>9, Back DEF UnrollStage, TypeOK
  <2>2. i' \in Stage
    BY <1>0, <1>9, <2>1, Tables DEF UnrollStage
  <2>3. by' \in [Stage -> SEED .. END]
    BY <1>0, <1>9 DEF UnrollStage, TypeOK
  <2> QED BY <1>0, <1>9, <2>2, <2>3 DEF UnrollStage, TypeOK, Phase
<1>10. CASE Rewind
  <2>1. NewState \in job.start .. state /\ state \in Span(job)
    BY <1>0, <1>10, Back DEF Rewind
  <2>2. /\ NewState \in Span(job) /\ NewState \in Stage
        /\ NewState \in job.start .. job.end
    BY <1>0, <2>1, Tables
  <2>3. avma' \in Nat
    BY <1>0, <1>10, <2>2 DEF Rewind, TypeOK
  <2>4. by' \in [Stage -> SEED .. END]
    BY <1>0, <1>10 DEF Rewind, TypeOK
  <2> QED BY <1>0, <1>10, <2>2, <2>3, <2>4 DEF Rewind, TypeOK, Phase
<1>11. CASE Return \/ UNCHANGED vars
  BY <1>0, <1>11 DEF Return, vars, curve, TypeOK
<1> QED BY <1>1, <1>2, <1>3, <1>4, <1>5, <1>6, <1>7, <1>8, <1>9, <1>10, <1>11 DEF Next
------------------------------------------------------------------------------
(* Differences.                                                              *)

LEMMA DiffStep == IInv /\ [Next]_vars => DiffInv'
<1> SUFFICES ASSUME IInv, [Next]_vars PROVE DiffInv'
  OBVIOUS
<1>0. TypeOK /\ FitsTogether(job) /\ DiffInv
  BY DEF IInv
<1>1. phase # "returned" => result # 1
  BY <1>0 DEF DiffInv
<1>2. ASSUME phase # "returned", job' = job, state' = state,
             NEW d \in job.refuses[state] \cup job.checks[state], diff' = d
      PROVE  GoesBack'
  <2>1. state \in Span(job)
    BY <1>0, <1>2, Indices
  <2>2. d <= 0
    BY <1>0, <1>2, <2>1 DEF FitsTogether
  <2>3. Target(job, state, d) \in Targets(job, state)
    BY <1>2 DEF Targets
  <2> QED BY <1>2, <2>2, <2>3 DEF GoesBack, NewState
<1>3. CASE Succeed
  BY <1>1, <1>3 DEF Succeed, Generating, DiffInv
<1>4. CASE Refuse
  <2>1. PICK d \in job.refuses[state] : diff' = d
    BY <1>4 DEF Refuse
  <2>2. GoesBack'
    BY <1>2, <1>4, <2>1 DEF Refuse, Generating
  <2> QED BY <1>1, <1>4, <2>2 DEF Refuse, Generating, DiffInv
<1>5. CASE Expire
  <2>1. /\ state \in Int /\ job.start \in Int /\ job.start <= state
        /\ phase = "generate" /\ job' = job /\ state' = state
        /\ diff' = job.start - state
    BY <1>0, <1>5, Indices, Numbers DEF Expire, Generating
  <2>2. Target(job, state, diff') = job.start
    BY <2>1 DEF Target, MaxOf
  <2>3. job.start \in Targets(job, state)
    BY DEF Targets
  <2>4. GoesBack'
    BY <2>1, <2>2, <2>3 DEF GoesBack, NewState
  <2> QED BY <1>1, <1>5, <2>4 DEF Expire, Generating, DiffInv
<1>6. CASE Accept
  BY <1>1, <1>6 DEF Accept, Advance, DiffInv
<1>7. CASE Reject
  <2>1. PICK d \in job.checks[state] : diff' = d
    BY <1>7 DEF Reject
  <2>2. GoesBack'
    BY <1>2, <1>7, <2>1 DEF Reject
  <2> QED BY <1>1, <1>7, <2>2 DEF Reject, DiffInv
<1>8. CASE Fail
  BY <1>8 DEF Fail, DiffInv
<1>9. CASE GiveUp
  BY <1>9 DEF GiveUp, DiffInv
<1>10. CASE Retry
  <2>1. NewState \in job.start .. state
    BY <1>0, <1>10, Back DEF Retry
  <2>2. GoesBack
    BY <1>0, <1>10 DEF DiffInv, Retry
  <2>3. GoesBack' /\ NewState' = NewState
    BY <1>10, <2>2 DEF Retry, GoesBack, NewState
  <2>4. NewState' <= i' /\ i' <= state'
    BY <1>0, <1>10, <2>1, <2>3, Indices, Tables DEF Retry
  <2> QED BY <1>1, <1>10, <2>3, <2>4 DEF Retry, DiffInv
<1>11. CASE UnrollStage
  <2>1. GoesBack /\ i <= state
    BY <1>0, <1>11 DEF DiffInv, UnrollStage
  <2>2. GoesBack' /\ NewState' = NewState
    BY <1>11, <2>1 DEF UnrollStage, GoesBack, NewState
  <2>3. NewState \in Int /\ i \in Int /\ state \in Int
    BY <1>0, <1>11, Back, Numbers DEF UnrollStage
  <2>4. NewState' <= i' /\ i' <= state'
    BY <1>11, <2>1, <2>2, <2>3 DEF UnrollStage
  <2> QED BY <1>1, <1>11, <2>2, <2>4 DEF UnrollStage, DiffInv
<1>12. CASE Rewind
  BY <1>1, <1>12 DEF Rewind, DiffInv
<1>13. CASE Return \/ UNCHANGED vars
  BY <1>0, <1>13 DEF Return, vars, DiffInv, GoesBack, NewState
<1> QED BY <1>3, <1>4, <1>5, <1>6, <1>7, <1>8, <1>9, <1>10, <1>11, <1>12, <1>13 DEF Next

------------------------------------------------------------------------------
(* Who assigned what.                                                        *)

\* An assignment touches nothing the stage found and does not assign.
LEMMA AssignKeeps ==
  ASSUME TypeOK, FitsTogether(job), state \in Span(job),
         NEW W \in SUBSET job.writes[state], Assign(W)
  PROVE  /\ \A p \in W : by'[p] = state
         /\ \A p \in Found(job, state) \ W : p \in Stage => by'[p] = by[p]
         /\ \A p \in Stage \ W : by'[p] \in {by[p], END}
         /\ W \cap Callers(job) = {}
<1>1. Frees(job, W) \subseteq Frees(job, job.writes[state])
  BY DEF Frees
<1>2. Frees(job, W) \cap Found(job, state) = {}
  BY <1>1 DEF FitsTogether
<1>3. W \subseteq Stage
  BY Tables
<1>4. by' = [p \in Stage |-> IF p \in W THEN state
                             ELSE IF p \in Frees(job, W) THEN END ELSE by[p]]
  BY DEF Assign
<1>5. W \subseteq job.start .. state
  BY DEF FitsTogether
<1>6. W \cap Callers(job) = {}
  BY <1>5, Tables DEF Callers
<1> QED BY <1>2, <1>3, <1>4, <1>6

LEMMA AssignBy ==
  ASSUME TypeOK, FitsTogether(job), ByInv, phase = "generate", Generating,
         NEW W \in SUBSET job.writes[state], Assign(W), phase' \in {"check", "react"}
  PROVE  ByInv'
<1>1. /\ state \in Span(job) /\ job' = job /\ state' = state
      /\ Callers(job) \subseteq Stage /\ Callers(job) \subseteq Found(job, state)
  BY Indices, Numbers DEF Generating, Found
<1>2. \A p \in Callers(job) : by'[p] = p
  BY <1>1, AssignKeeps DEF ByInv
<1>3. ASSUME NEW p \in Current' \ Callers(job)
      PROVE  by'[p] \in Span(job) /\ by'[p] <= state /\ p \in job.writes[by'[p]]
  <2>1. CASE p \in W
    BY <1>1, <2>1, AssignKeeps, Numbers
  <2>2. CASE p \notin W
    <3>1. p \in Stage /\ by'[p] = by[p] /\ by[p] # END
      BY <1>1, <1>3, <2>2, AssignKeeps DEF Current
    <3> QED BY <1>3, <3>1 DEF ByInv, Current
  <2> QED BY <2>1, <2>2
<1> QED BY <1>1, <1>2, <1>3 DEF ByInv

\* Going back to a stage, or past it in the unroll loop, leaves who assigned what
\* the stages before it have assigned.
LEMMA BeforeTarget ==
  ASSUME TypeOK, FitsTogether(job), DiffInv, ByInv, phase = "unroll",
         NEW r \in job.start .. NewState - 1, NEW p \in job.writes[r]
  PROVE  /\ p \in Stage /\ r \in Span(job)
         /\ p <= r
         /\ p \in Current => by[p] < NewState
<1>1. /\ state \in Span(job) /\ NewState \in job.start .. state
      /\ NewState \in Targets(job, state)
  BY Back
<1>2. r \in Span(job) /\ p \in Stage /\ p \in job.start .. r
  <2>1. r \in Span(job)
    BY <1>1, Tables
  <2> QED BY <2>1, Tables DEF FitsTogether
<1>3. ASSUME p \in Current PROVE by[p] < NewState
  <2>1. p \notin Callers(job)
    BY <1>2, Tables DEF Callers
  <2>2. by[p] \in Span(job) /\ by[p] <= state /\ p \in job.writes[by[p]]
    BY <1>3, <2>1 DEF ByInv
  <2>3. \A t \in NewState .. state : job.writes[r] \cap job.writes[t] = {}
    BY <1>1 DEF FitsTogether
  <2>4. by[p] \notin NewState .. state
    BY <2>2, <2>3
  <2> QED BY <1>1, <2>2, <2>4, Tables
<1> QED BY <1>2, <1>3, Tables
\* What the loop's step for stage i clears was not assigned before NewState.
LEMMA UnrollKeeps ==
  ASSUME TypeOK, FitsTogether(job), DiffInv, UnrollStage
  PROVE  /\ \A p \in Stage : by'[p] \in {by[p], END}
         /\ \A p \in Stage : p < i => by'[p] = by[p]
         /\ NewState < i /\ i \in Span(job) /\ NewState' = NewState
<1>1. /\ NewState \in job.start .. state /\ NewState < i /\ i <= state
      /\ state \in Span(job) /\ phase = "unroll"
  BY Back DEF UnrollStage, DiffInv
<1>2. i \in Span(job)
  BY <1>1, Numbers
<1>3. job.unrolls[i] \subseteq i .. METADATA
  BY <1>2 DEF FitsTogether
<1>4. by' = [p \in Stage |-> IF p \in job.unrolls[i] THEN END ELSE by[p]]
  BY DEF UnrollStage
<1>5. NewState' = NewState
  BY DEF UnrollStage, NewState
<1>6. \A p \in Stage : p < i => p \notin job.unrolls[i]
  BY <1>3, Numbers
<1> QED BY <1>1, <1>2, <1>4, <1>5, <1>6

\* The rewind keeps just what the stages before NewState, and the caller, have
\* assigned.
LEMMA RewindKeeps ==
  ASSUME TypeOK, FitsTogether(job), DiffInv, ByInv, StackInv, Rewind
  PROVE  /\ \A p \in Stage : by'[p] \in {by[p], END}
         /\ \A p \in Current : by[p] < NewState <=> p \in Current'
         /\ NewState \in Span(job)
<1>1. /\ NewState \in job.start .. state /\ state \in Span(job)
      /\ phase = "unroll" /\ avma' = tops[NewState] /\ NewState \in Targets(job, state)
  BY Back DEF Rewind
<1>2. NewState \in Span(job) /\ NewState \in Begun
  BY <1>1, Numbers DEF Begun
<1>3. by' = [p \in Stage |-> IF by[p] >= NewState \/ Popped(by[p], avma') THEN END
                             ELSE by[p]]
  BY DEF Rewind
<1>4. ASSUME NEW t \in Int, t < NewState PROVE ~Popped(t, avma')
  <2>1. CASE t \in Span(job)
    <3>1. t \in Begun
      BY <1>1, <1>4, <2>1, Numbers DEF Begun
    <3>2. tops[t] + job.size[t] <= tops[NewState]
      BY <1>2, <1>4, <3>1 DEF StackInv
    <3>3. t \in Stage /\ NewState \in Stage
      BY <1>2, <2>1, Numbers
    <3>4. tops[t] \in Int /\ tops[NewState] \in Int
      BY <3>3 DEF TypeOK
    <3>5. job.size[t] \in Int
      BY <3>3, Tables
    <3> QED BY <1>1, <3>2, <3>4, <3>5 DEF Popped
  <2>2. CASE t \notin Span(job)
    BY <2>2 DEF Popped
  <2> QED BY <2>1, <2>2
<1>5. \A p \in Stage : by[p] \in 0 .. 9
  BY DEF TypeOK
<1>6. NewState \in Int /\ NewState < 9
  BY <1>2, Numbers
<1>7. ASSUME NEW p \in Current PROVE by[p] < NewState <=> p \in Current'
  <2>1. p \in Stage /\ by[p] # END /\ by[p] \in Int
    BY <1>5 DEF Current
  <2>2. CASE by[p] < NewState
    BY <1>3, <1>4, <1>6, <2>1, <2>2 DEF Current
  <2>3. CASE ~(by[p] < NewState)
    BY <1>3, <1>6, <2>1, <2>3 DEF Current
  <2> QED BY <2>2, <2>3
<1> QED BY <1>2, <1>3, <1>7

\* A step that changes neither who assigned what nor the stages begun.
LEMMA BySame ==
  ASSUME ByInv, UNCHANGED <<job, state, by>>, phase' # "generate"
  PROVE  ByInv'
  BY DEF ByInv, Current

LEMMA ByStep == IInv /\ [Next]_vars => ByInv'
<1> SUFFICES ASSUME IInv, [Next]_vars PROVE ByInv'
  OBVIOUS
<1>0. TypeOK /\ FitsTogether(job) /\ DiffInv /\ ByInv /\ StackInv
  BY DEF IInv
<1>1. CASE Succeed
  BY <1>0, <1>1, AssignBy DEF Succeed, Generating
<1>2. CASE Expire
  <2>1. PICK kept \in SUBSET job.writes[state] : Assign(kept)
    BY <1>2 DEF Expire
  <2> QED BY <1>0, <1>2, <2>1, AssignBy DEF Expire, Generating
<1>3. CASE Accept
  <2>1. state \in Int /\ state' = state + 1 /\ UNCHANGED <<job, by>>
    BY <1>0, <1>3, Numbers DEF Accept, curve
  <2>2. \A p \in Current \ Callers(job) : by[p] \in Int /\ by[p] < state'
    BY <1>0, <2>1, Numbers DEF ByInv
  <2> QED BY <1>0, <2>1, <2>2, Numbers DEF ByInv, Current
<1>4. CASE Refuse \/ Reject \/ Fail \/ GiveUp \/ Retry
  <2>1. UNCHANGED <<job, state, by>> /\ phase' # "generate"
    BY <1>4 DEF Refuse, Generating, Reject, Fail, GiveUp, Retry, curve
  <2> QED BY <1>0, <2>1, BySame
<1>5. CASE UnrollStage
  <2>1. UNCHANGED <<job, state, phase>> /\ phase = "unroll" /\ i \in Span(job)
    BY <1>0, <1>5, UnrollKeeps DEF UnrollStage
  <2>2. \A p \in Callers(job) : p \in Stage /\ p < i
    BY <1>0, <2>1, Numbers
  <2>3. \A p \in Callers(job) : by'[p] = p
    BY <1>0, <1>5, <2>2, UnrollKeeps DEF ByInv
  <2>4. \A p \in Current' : p \in Current /\ by'[p] = by[p]
    BY <1>0, <1>5, UnrollKeeps DEF Current
  <2> QED BY <1>0, <2>1, <2>3, <2>4 DEF ByInv
<1>6. CASE Rewind
  <2>1. job' = job /\ state' = NewState /\ NewState \in Span(job)
    BY <1>0, <1>6, RewindKeeps DEF Rewind
  <2>2. \A p \in Current' : p \in Current /\ by'[p] = by[p]
    BY <1>0, <1>6, RewindKeeps DEF Current
  <2>3. \A p \in Callers(job) : p \in Current /\ by[p] < NewState
    BY <1>0, <2>1, Numbers DEF ByInv, Current
  <2>4. \A p \in Callers(job) : by'[p] = p
    BY <1>0, <1>6, <2>2, <2>3, RewindKeeps DEF ByInv
  <2>5. \A p \in Current' : by[p] < NewState
    BY <1>0, <1>6, <2>2, RewindKeeps
  <2>6. \A p \in Current' \ Callers(job) : by[p] <= NewState
    BY <1>0, <2>1, <2>2, <2>5, Numbers DEF ByInv
  <2> QED BY <1>0, <2>1, <2>2, <2>4, <2>5, <2>6 DEF ByInv
<1>7. CASE Return \/ UNCHANGED vars
  <2>1. UNCHANGED <<job, state, by, phase>>
    BY <1>7 DEF Return, vars, curve
  <2> QED BY <1>0, <2>1 DEF ByInv, Current
<1> QED BY <1>1, <1>2, <1>3, <1>4, <1>5, <1>6, <1>7 DEF Next

LEMMA PassedStep == IInv /\ [Next]_vars => Passed'
<1> SUFFICES ASSUME IInv, [Next]_vars PROVE Passed'
  OBVIOUS
<1>0. TypeOK /\ FitsTogether(job) /\ DiffInv /\ ByInv /\ Passed /\ StackInv
  BY DEF IInv
<1>1. ASSUME phase = "generate", Generating,
             NEW W \in SUBSET job.writes[state], Assign(W)
      PROVE  /\ \A r \in job.start .. state - 1 : job.writes[r] \subseteq Current'
             /\ W \subseteq Current'
  <2>1. state \in Span(job) /\ W \subseteq Stage
    BY <1>0, <1>1, Indices, Tables
  <2>2. W \subseteq Current'
    <3>1. state # END
      BY <1>0, <2>1, Numbers
    <3>2. \A p \in W : by'[p] = state
      BY <1>0, <1>1, <2>1, AssignKeeps
    <3> QED BY <2>1, <3>1, <3>2 DEF Current
  <2>3. ASSUME NEW r \in job.start .. state - 1, NEW p \in job.writes[r]
        PROVE  p \in Current'
    <3>1. p \in Current
      BY <1>0, <1>1, <2>3 DEF Passed, Horizon
    <3>2. p \in Found(job, state)
      BY <2>3 DEF Found
    <3> QED BY <1>0, <1>1, <2>1, <2>2, <3>1, <3>2, AssignKeeps DEF Current
  <2> QED BY <2>2, <2>3
<1>2. CASE Succeed
  <2>1. /\ \A r \in job.start .. state - 1 : job.writes[r] \subseteq Current'
        /\ job.writes[state] \subseteq Current'
    BY <1>1, <1>2 DEF Succeed, Generating
  <2>2. \A r \in job.start .. state : r = state \/ r \in job.start .. state - 1
    BY <1>0, Numbers
  <2>3. Horizon' - 1 = state /\ job' = job
    BY <1>0, <1>2, Numbers DEF Succeed, Generating, Horizon
  <2> QED BY <2>1, <2>2, <2>3 DEF Passed
<1>3. CASE Expire
  <2>1. PICK kept \in SUBSET job.writes[state] : Assign(kept)
    BY <1>3 DEF Expire
  <2>2. \A r \in job.start .. state - 1 : job.writes[r] \subseteq Current'
    BY <1>1, <1>3, <2>1 DEF Expire, Generating
  <2> QED BY <1>3, <2>2 DEF Expire, Generating, Passed, Horizon
<1>4. CASE Accept
  BY <1>0, <1>4 DEF Accept, Advance, curve, Passed, Horizon, Current
<1>5. CASE Reject
  <2>1. job' = job /\ Current' = Current /\ Horizon' = state /\ Horizon = state + 1
    BY <1>5 DEF Reject, curve, Current, Horizon
  <2> QED BY <1>0, <2>1, Numbers DEF Passed
<1>6. CASE Refuse \/ Fail \/ GiveUp
  <2>1. job' = job /\ Current' = Current /\ Horizon' = Horizon
    BY <1>6 DEF Refuse, Generating, Fail, GiveUp, curve, Current, Horizon
  <2> QED BY <1>0, <2>1 DEF Passed
<1>7. CASE Retry
  <2>1. NewState \in job.start .. state /\ NewState' = NewState
    BY <1>0, <1>7, Back DEF Retry, NewState
  <2>2. job' = job /\ Current' = Current /\ Horizon' = NewState /\ Horizon = state
    BY <1>7, <2>1 DEF Retry, curve, Current, Horizon
  <2> QED BY <1>0, <2>1, <2>2, Numbers DEF Passed
<1>8. CASE UnrollStage
  <2>1. /\ job' = job /\ phase = "unroll"
        /\ Horizon' = NewState /\ Horizon = NewState
    BY <1>0, <1>8, UnrollKeeps DEF UnrollStage, Horizon
  <2>2. ASSUME NEW r \in job.start .. NewState - 1, NEW p \in job.writes[r]
        PROVE  p \in Current'
    <3>1. p \in Current
      BY <1>0, <2>1, <2>2 DEF Passed
    <3>2. p \in Stage /\ p <= r /\ r \in Span(job)
      BY <1>0, <2>1, <2>2, BeforeTarget
    <3>3. NewState \in Int /\ NewState < i
      BY <1>0, <2>1, <1>8, UnrollKeeps, Back, Numbers
    <3>4. p < i
      BY <1>0, <2>2, <3>2, <3>3, Numbers
    <3> QED BY <1>0, <1>8, <3>1, <3>2, <3>4, UnrollKeeps DEF Current
  <2> QED BY <2>1, <2>2 DEF Passed
<1>9. CASE Rewind
  <2>1. /\ job' = job /\ phase = "unroll" /\ Horizon = NewState /\ Horizon' = NewState
    BY <1>9 DEF Rewind, Horizon
  <2>2. ASSUME NEW r \in job.start .. NewState - 1, NEW p \in job.writes[r]
        PROVE  p \in Current'
    <3>1. p \in Current
      BY <1>0, <2>1, <2>2 DEF Passed
    <3>2. by[p] < NewState
      BY <1>0, <2>1, <2>2, <3>1, BeforeTarget
    <3> QED BY <1>0, <1>9, <3>1, <3>2, RewindKeeps
  <2> QED BY <2>1, <2>2 DEF Passed
<1>10. CASE Return \/ UNCHANGED vars
  <2>1. job' = job /\ Current' = Current /\ Horizon' = Horizon
    BY <1>10 DEF Return, vars, curve, Current, Horizon, NewState
  <2> QED BY <1>0, <2>1 DEF Passed
<1> QED BY <1>2, <1>3, <1>4, <1>5, <1>6, <1>7, <1>8, <1>9, <1>10 DEF Next
------------------------------------------------------------------------------
(* The heap.                                                                 *)

LEMMA HeapStep == IInv /\ [Next]_vars => HeapInv'
<1> SUFFICES ASSUME IInv, [Next]_vars,
                    NEW p \in (set' \cap OnHeap) \ Leftover'
             PROVE  p \in Current' /\ (phase' = "unroll" => by'[p] <= i')
  BY DEF HeapInv
<1>0. TypeOK /\ FitsTogether(job) /\ DiffInv /\ ByInv /\ HeapInv /\ StackInv
  BY DEF IInv
<1>1. Leftover' = Leftover /\ job' = job
  BY DEF Next, vars, Succeed, Refuse, Expire, Generating, Accept, Reject, Fail, GiveUp,
         Retry, UnrollStage, Rewind, Return, Leftover
<1>2. p \in Stage
  BY DEF OnHeap, GENERATORS, POINTS, CURVE
<1>3. ASSUME phase = "generate", Generating,
             NEW W \in SUBSET job.writes[state], Assign(W)
      PROVE  p \in Current'
  <2>0. state \in Span(job) /\ W \subseteq Stage
    BY <1>0, <1>3, Indices, Tables
  <2>1. state \in Span(job) /\ state # END /\ W \subseteq Stage
    BY <1>0, <2>0, Numbers
  <2>2. CASE p \in W
    <3>1. by'[p] = state
      BY <1>0, <1>3, <2>1, <2>2, AssignKeeps
    <3> QED BY <1>2, <2>1, <3>1 DEF Current
  <2>3. CASE p \notin W
    <3>1. p \in set /\ p \notin Frees(job, W)
      BY <1>3, <2>3 DEF Assign
    <3>2. p \in Current
      BY <1>0, <1>1, <3>1 DEF HeapInv
    <3>3. by'[p] = by[p]
      BY <1>2, <1>3, <2>3, <3>1 DEF Assign
    <3> QED BY <3>2, <3>3 DEF Current
  <2> QED BY <2>2, <2>3
<1>4. CASE Succeed
  BY <1>3, <1>4 DEF Succeed, Generating
<1>5. CASE Expire
  <2>1. PICK kept \in SUBSET job.writes[state] : Assign(kept)
    BY <1>5 DEF Expire
  <2> QED BY <1>3, <1>5, <2>1 DEF Expire, Generating
<1>6. CASE Refuse \/ Accept \/ Reject \/ Fail \/ GiveUp
  <2>1. UNCHANGED <<set, by>> /\ phase' # "unroll"
    BY <1>6 DEF Refuse, Generating, Accept, Advance, Reject, Fail, GiveUp, curve
  <2> QED BY <1>0, <1>1, <2>1 DEF HeapInv, Current
<1>7. CASE Retry
  <2>1. UNCHANGED <<set, by>> /\ i' = state /\ phase = "react"
    BY <1>7 DEF Retry, curve
  <2>2. p \in Current
    BY <1>0, <1>1, <2>1 DEF HeapInv
  <2>3. by[p] <= state
    <3>1. CASE p \in Callers(job)
      BY <1>0, <2>1, <3>1, Indices, Numbers DEF ByInv
    <3>2. CASE p \notin Callers(job)
      BY <1>0, <2>2, <3>2 DEF ByInv
    <3> QED BY <3>1, <3>2
  <2> QED BY <2>1, <2>2, <2>3 DEF Current
<1>8. CASE UnrollStage
  <2>1. /\ NewState < i /\ i \in Span(job) /\ phase = "unroll" /\ i' = i - 1
        /\ NewState \in job.start .. state
    BY <1>0, <1>8, UnrollKeeps, Back DEF UnrollStage
  <2>2. p \in set /\ p \notin job.unrolls[i] /\ by'[p] = by[p]
    BY <1>2, <1>8 DEF UnrollStage
  <2>3. p \in Current /\ by[p] <= i
    BY <1>0, <1>1, <2>1, <2>2 DEF HeapInv
  <2>4. i # job.start
    BY <1>0, <2>1, Numbers
  <2>5. by[p] # i
    <3>1. CASE p \in Callers(job)
      BY <1>0, <2>1, <3>1, Numbers DEF ByInv
    <3>2. CASE p \notin Callers(job)
      <4>1. p \in job.writes[by[p]]
        BY <1>0, <2>3, <3>2 DEF ByInv
      <4>2. job.writes[i] \cap OnHeap \subseteq job.unrolls[i]
        BY <1>0, <2>1, <2>4 DEF FitsTogether
      <4> QED BY <2>2, <4>1, <4>2
    <3> QED BY <3>1, <3>2
  <2>6. by[p] \in Int /\ i \in Int
    BY <1>0, <1>2, <2>1, Numbers DEF TypeOK
  <2> QED BY <2>1, <2>2, <2>3, <2>5, <2>6 DEF Current
<1>9. CASE Rewind
  <2>1. /\ phase = "unroll" /\ phase' = "generate" /\ set' = set /\ i <= NewState
        /\ NewState \in Span(job) /\ NewState \in Targets(job, state) /\ state \in Span(job)
    BY <1>0, <1>9, RewindKeeps, Back DEF Rewind
  <2>2. p \in Current /\ by[p] <= i
    BY <1>0, <1>1, <2>1 DEF HeapInv
  <2>3. by[p] # NewState
    <3>1. CASE p \in Callers(job)
      BY <1>0, <2>1, <3>1, Numbers DEF ByInv
    <3>2. CASE p \notin Callers(job)
      <4>1. p \in job.writes[by[p]]
        BY <1>0, <2>2, <3>2 DEF ByInv
      <4>2. NewState # job.start => job.writes[NewState] \cap OnHeap = {}
        BY <1>0, <2>1 DEF FitsTogether
      <4> QED BY <1>1, <4>1, <4>2 DEF Leftover
    <3> QED BY <3>1, <3>2
  <2>4. by[p] < NewState
    BY <1>0, <1>2, <2>1, <2>2, <2>3, Numbers DEF TypeOK
  <2>5. p \in Current'
    BY <1>0, <1>9, <2>2, <2>4, RewindKeeps
  <2> QED BY <2>1, <2>5
<1>10. CASE Return \/ UNCHANGED vars
  <2>1. UNCHANGED <<set, by, phase, i>>
    BY <1>10 DEF Return, vars, curve
  <2> QED BY <1>0, <1>1, <2>1 DEF HeapInv, Current
<1> QED BY <1>4, <1>5, <1>6, <1>7, <1>8, <1>9, <1>10 DEF Next

LEMMA LeakStep == IInv /\ [Next]_vars => LeaksOnlyAtStart'
<1> SUFFICES ASSUME IInv, [Next]_vars PROVE LeaksOnlyAtStart'
  OBVIOUS
<1>0. /\ TypeOK /\ FitsTogether(job) /\ DiffInv /\ ByInv /\ HeapInv
      /\ LeaksOnlyAtStart
  BY DEF IInv
<1>1. ASSUME phase = "generate", job' = job,
             NEW W \in SUBSET job.writes[state], Assign(W)
      PROVE  LeaksOnlyAtStart'
  <2>1. state \in Span(job)
    BY <1>0, <1>1, Indices
  <2>2. Frees(job, W) \subseteq Frees(job, job.writes[state])
    BY DEF Frees
  <2>3. ASSUME NEW p \in lost', p \notin lost PROVE p \in Leftover
    <3>1. p \in set /\ p \in OnHeap /\ p \in W \cup Frees(job, W)
      BY <1>1, <2>3 DEF Assign
    <3>2. SUFFICES ASSUME p \notin Leftover PROVE FALSE
      OBVIOUS
    <3>3. p \in Current
      BY <1>0, <3>1, <3>2 DEF HeapInv
    <3>4. p \in Found(job, state)
      <4>1. CASE p \in Callers(job)
        BY <4>1 DEF Found
      <4>2. CASE p \notin Callers(job)
        <5>1. by[p] \in Span(job) /\ by[p] < state /\ p \in job.writes[by[p]]
          BY <1>0, <1>1, <3>3, <4>2 DEF ByInv
        <5>2. by[p] \in job.start .. state - 1
          BY <1>0, <5>1, Numbers
        <5> QED BY <5>1, <5>2 DEF Found
      <4> QED BY <4>1, <4>2
    <3>5. /\ job.writes[state] \cap Found(job, state) \cap OnHeap = {}
          /\ Frees(job, job.writes[state]) \cap Found(job, state) = {}
      BY <1>0, <2>1 DEF FitsTogether
    <3> QED BY <2>2, <3>1, <3>4, <3>5
  <2> QED BY <1>0, <1>1, <2>3 DEF LeaksOnlyAtStart, Leftover
<1>2. CASE Succeed
  BY <1>1, <1>2 DEF Succeed, Generating
<1>3. CASE Expire
  <2>1. PICK kept \in SUBSET job.writes[state] : Assign(kept)
    BY <1>3 DEF Expire
  <2> QED BY <1>1, <1>3, <2>1 DEF Expire, Generating
<1>4. CASE \/ Refuse \/ Accept \/ Reject \/ Fail \/ GiveUp \/ Retry
           \/ UnrollStage \/ Rewind \/ Return \/ UNCHANGED vars
  <2>1. UNCHANGED <<job, lost>>
    BY <1>4 DEF Refuse, Generating, Accept, Reject, Fail, GiveUp, Retry, UnrollStage,
                Rewind, Return, vars, curve
  <2> QED BY <1>0, <2>1 DEF LeaksOnlyAtStart, Leftover
<1> QED BY <1>2, <1>3, <1>4 DEF Next

------------------------------------------------------------------------------
(* The PARI stack.                                                           *)

LEMMA StackStep == IInv /\ [Next]_vars => StackInv'
<1> SUFFICES ASSUME IInv, [Next]_vars PROVE StackInv'
  OBVIOUS
<1>0. TypeOK /\ FitsTogether(job) /\ DiffInv /\ StackInv
  BY DEF IInv
<1>1. \A r \in Stage : tops[r] \in Int /\ job.size[r] \in Int /\ 0 <= job.size[r]
                         /\ job.size[r] <= 1
  <2>1. tops \in [Stage -> Nat]
    BY <1>0 DEF TypeOK
  <2>2. \A r \in Stage : job.size[r] \in 0 .. 1
    BY <1>0, Tables
  <2> QED BY <2>1, <2>2
<1>2. ASSUME job' = job, tops' = tops, Begun' \subseteq Begun,
             phase' \notin {"generate", "check"}
      PROVE  StackInv'
  BY <1>0, <1>2 DEF StackInv
<1>3. ASSUME Generating, phase' \in {"check", "react"},
             phase' = "check" => avma' = avma + job.size[state]
      PROVE  StackInv'
  <2>1. /\ phase = "generate" /\ job' = job /\ state' = state
        /\ tops' = [tops EXCEPT ![state] = avma]
    BY <1>3 DEF Generating
  <2>2. state \in Span(job) /\ state \in Stage /\ state \notin Begun
    BY <1>0, <2>1, Indices, Numbers DEF Begun
  <2>3. Begun' = Begun \cup {state}
    BY <1>0, <1>3, <2>1, <2>2, Numbers DEF Begun
  <2>4. /\ tops'[state] = avma
        /\ \A r \in Begun : tops'[r] = tops[r] /\ r \in Stage /\ r < state
    BY <1>0, <2>1, <2>2, Numbers DEF TypeOK, Begun
  <2>5. \A r \in Begun' : tops'[r] <= (r - job.start) * ROOM
    BY <1>0, <2>1, <2>3, <2>4 DEF StackInv
  <2>6. ASSUME NEW r \in Begun', NEW t \in Begun', r < t
        PROVE  tops'[r] + job.size[r] <= tops'[t]
    <3>1. r \in Begun
      BY <1>0, <2>2, <2>3, <2>4, <2>6, Numbers
    <3>2. CASE t = state
      BY <1>0, <2>1, <2>4, <3>1, <3>2 DEF StackInv
    <3>3. CASE t # state
      BY <1>0, <2>3, <2>4, <2>6, <3>1, <3>3 DEF StackInv
    <3> QED BY <3>2, <3>3
  <2> QED BY <1>3, <2>1, <2>4, <2>5, <2>6 DEF StackInv
<1>4. CASE Succeed
  BY <1>3, <1>4 DEF Succeed
<1>5. CASE Refuse \/ Expire
  BY <1>3, <1>5 DEF Refuse, Expire
<1>6. CASE Accept
  <2>1. /\ phase = "check" /\ state' = state + 1 /\ phase' \in {"generate", "returned"}
        /\ UNCHANGED <<job, tops, avma>>
    BY <1>6 DEF Accept, Advance
  <2>2. state \in Span(job) /\ state \in Begun /\ avma = tops[state] + job.size[state]
    BY <1>0, <2>1, Indices DEF Begun, StackInv
  <2>3. Begun' = Begun
    BY <1>0, <2>1, <2>2, Numbers DEF Begun
  <2>4. avma <= (state' - job.start) * ROOM
    BY <1>0, <1>1, <2>1, <2>2, Numbers DEF StackInv
  <2>5. ASSUME NEW r \in Begun PROVE tops[r] + job.size[r] <= avma
    <3>1. r \in Stage /\ state \in Stage /\ (r = state \/ r < state)
      BY <1>0, <2>1, <2>2, Numbers DEF Begun
    <3>2. r < state => tops[r] + job.size[r] <= tops[state]
      BY <1>0, <2>2 DEF StackInv
    <3> QED BY <1>1, <2>2, <3>1, <3>2
  <2> QED BY <1>0, <2>1, <2>3, <2>4, <2>5 DEF StackInv
<1>7. CASE Reject \/ Fail \/ GiveUp \/ Retry \/ UnrollStage
  <2>1. /\ UNCHANGED <<job, state, tops>> /\ phase \notin {"generate", "returned"}
        /\ phase' \notin {"generate", "check"}
    BY <1>7 DEF Reject, Fail, GiveUp, Retry, UnrollStage
  <2>2. Begun' \subseteq Begun
    BY <2>1 DEF Begun
  <2> QED BY <1>2, <2>1, <2>2
<1>8. CASE Rewind
  <2>1. /\ phase = "unroll" /\ phase' = "generate" /\ state' = NewState
        /\ avma' = tops[NewState] /\ UNCHANGED <<job, tops>>
    BY <1>8 DEF Rewind
  <2>2. NewState \in job.start .. state /\ state \in Span(job)
    BY <1>0, <2>1, Back
  <2>3. /\ NewState \in Begun /\ Begun' \subseteq Begun
        /\ \A r \in Begun' : r < NewState
    BY <1>0, <2>1, <2>2, Numbers DEF Begun
  <2> QED BY <1>0, <2>1, <2>3 DEF StackInv
<1>9. CASE Return \/ UNCHANGED vars
  <2>1. UNCHANGED <<job, state, tops, phase, avma>>
    BY <1>9 DEF Return, vars
  <2>2. Begun' = Begun
    BY <2>1 DEF Begun
  <2> QED BY <1>0, <2>1, <2>2 DEF StackInv
<1> QED BY <1>4, <1>5, <1>6, <1>7, <1>8, <1>9 DEF Next

------------------------------------------------------------------------------
(* What follows.                                                             *)

\* The invariant holds throughout a call, whatever its stages answer.
THEOREM Invariant == SafeSpec => []IInv
<1>1. IInv /\ [Next]_vars => IInv'
  <2>1. SUFFICES ASSUME IInv, [Next]_vars PROVE FitsTogether(job)'
    BY TypesStep, DiffStep, ByStep, PassedStep, HeapStep, LeakStep, StackStep DEF IInv
  <2>2. job' = job
    BY <2>1 DEF Next, vars, Succeed, Refuse, Expire, Generating, Accept, Reject, Fail,
                GiveUp, Retry, UnrollStage, Rewind, Return
  <2> QED BY <2>1, <2>2 DEF IInv
<1> QED BY <1>1, Initially, PTL DEF SafeSpec

\* The engine's indices, counters and stack stay in their ranges.
THEOREM TypeCorrect == SafeSpec => []TypeOK
<1>1. IInv => TypeOK
  BY DEF IInv
<1> QED BY <1>1, Invariant, PTL

\* A generator never looks at a product of an earlier, abandoned pass, nor at one
\* in memory the stack has given up.
THEOREM GeneratorsReadCurrent == SafeSpec => []ReadsCurrent
<1>1. IInv => ReadsCurrent
  <2>1. SUFFICES ASSUME IInv, phase = "generate", NEW p \in job.reads[state]
                 PROVE  p \in Current
    BY DEF ReadsCurrent
  <2>2. TypeOK /\ FitsTogether(job) /\ ByInv /\ Passed
    BY <2>1 DEF IInv
  <2>3. p \in Found(job, state)
    BY <2>1, <2>2, Indices DEF FitsTogether
  <2>4. CASE p \in Callers(job)
    BY <2>2, <2>4, Numbers DEF ByInv, Current
  <2>5. CASE \E r \in job.start .. state - 1 : p \in job.writes[r]
    BY <2>1, <2>2, <2>5 DEF Passed, Horizon
  <2> QED BY <2>3, <2>4, <2>5 DEF Found
<1> QED BY <1>1, Invariant, PTL

\* A call that returns 1 leaves a curve put together in one pass.
THEOREM SuccessIsComplete == SafeSpec => []Complete
<1>1. IInv => Complete
  <2>1. SUFFICES ASSUME IInv, result = 1, NEW s \in Span(job)
                 PROVE  job.writes[s] \subseteq Current
    BY DEF Complete
  <2>2. TypeOK /\ FitsTogether(job) /\ Passed /\ Horizon = job.end
    BY <2>1 DEF IInv, DiffInv, Horizon
  <2>3. s \in job.start .. job.end - 1
    BY <2>2, Numbers
  <2> QED BY <2>2, <2>3 DEF Passed
<1> QED BY <1>1, Invariant, PTL

\* However many retries a call takes, they do not add to the PARI stack.
THEOREM RetriesAddNothing == SafeSpec => []StackBounded
<1>1. IInv => StackBounded
  BY DEF IInv, StackInv, StackBounded
<1> QED BY <1>1, Invariant, PTL

\* What the unroll functions and curve_free are handed is intact.
THEOREM NothingDangles == SafeSpec => []NoDangling
<1>1. IInv => NoDangling
  BY DEF IInv, HeapInv, NoDangling
<1> QED BY <1>1, Invariant, PTL

\* Only a product of the call's first stage can be lost.
THEOREM LeaksAreConfined == SafeSpec => []LeaksOnlyAtStart
<1>1. IInv => LeaksOnlyAtStart
  BY DEF IInv
<1> QED BY <1>1, Invariant, PTL
==============================================================================
