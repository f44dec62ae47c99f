------------------------------ MODULE Exhaustive ------------------------------
(***************************************************************************)
(* One call of exhaustive_gen_retry: the stages from start to end are run  *)
(* in order on one curve_t; a stage that refuses, is rejected by its       *)
(* validators or times out sends the engine back some stages, over the     *)
(* unroll functions and the PARI stack.                                    *)
(*                                                                         *)
(* The engine is modelled as it is.  A generator is what it may answer,    *)
(* what it assigns and how much it leaves on the stack; a validator is the *)
(* difference it may reject with.  The tables that say so are a job's, so  *)
(* that what is shown holds for any tables that fit together.              *)
(***************************************************************************)
EXTENDS ExhaustiveCalls

CONSTANT Jobs   \* the calls: their arguments, and what the tables hold

ASSUME JobsAssumption == Jobs \subseteq {j \in Shape : FitsTogether(j)}

VARIABLES
  job,      \* the call
  phase,    \* where in the loop: generate, check, react, unroll or returned
  state,    \* the stage
  diff,     \* the difference the stage came up with
  tops,     \* stack_tops
  tries,    \* gen_tries
  avma,     \* height of the PARI stack over the call's first
  i,        \* the unroll loop's stage
  set,      \* products whose pointer in the curve_t is not NULL
  by,       \* the stage that assigned a product on this pass, or END
  lost,     \* heap products overwritten before they were freed
  stale,    \* the curve object caches the order of another curve
  wrong,    \* and the curve_t's order was taken from there
  result    \* the value returned, or -1

curve == <<set, by, lost, stale, wrong>>
vars == <<job, phase, state, diff, tops, tries, avma, i, curve, result>>

\* Products of this pass, in memory that is intact.
Current == {p \in Stage : by[p] # END}

Init ==
  /\ job \in Jobs
  /\ phase = "generate"
  /\ state = job.start
  /\ diff = 0
  /\ tops = [s \in Stage |-> 0]
  /\ tries = [s \in Stage |-> 0]
  /\ avma = 0
  /\ i = job.start
  /\ set = Callers(job)
  /\ by = [p \in Stage |-> IF p < job.start THEN p ELSE END]
  /\ lost = {}
  /\ stale = FALSE
  /\ wrong = FALSE
  /\ result = -1

------------------------------------------------------------------------------
(* A stage's generator runs.                                                 *)

\* The products W get new values.
Assign(W) ==
  LET dropped == Frees(job, W)
      freed == IF job.twist /\ CURVE \in W THEN dropped ELSE {}
      over == (set \ freed) \cap (W \cup dropped)   \* without being freed
  IN
  /\ set' = (set \ dropped) \cup W
  /\ by' = [p \in Stage |-> IF p \in W THEN state
                            ELSE IF p \in dropped THEN END ELSE by[p]]
  /\ lost' = lost \cup (over \cap OnHeap)
  /\ stale' = IF CURVE \in W THEN job.twist /\ ORDER \in set ELSE stale
  /\ wrong' = IF ORDER \in W THEN stale /\ job.cached ELSE wrong

Generating ==
  /\ phase = "generate"
  /\ tops' = [tops EXCEPT ![state] = avma]
  /\ UNCHANGED <<job, state, tries, i, result>>

Succeed ==
  /\ Generating
  /\ Assign(job.writes[state])
  /\ avma' = avma + job.size[state]
  /\ diff' = 1
  /\ phase' = "check"

\* Some generators leave garbage on the stack when they refuse.
Refuse ==
  /\ Generating
  /\ \E d \in job.refuses[state] : diff' = d
  /\ \E garbage \in 0 .. ROOM : avma' = avma + garbage
  /\ phase' = "react"
  /\ UNCHANGED curve

\* Fault: the stage counts as passed.
ExpirePassed ==
  /\ Generating
  /\ job.timeout
  /\ \E kept \in SUBSET job.writes[state] : Assign(kept)
  /\ avma' = avma
  /\ diff' = 1
  /\ phase' = "check"

\* The alarm interrupts a generator anywhere, some of its assignments made.
Expire ==
  /\ Generating
  /\ job.timeout
  /\ \E kept \in SUBSET job.writes[state] : Assign(kept)
  /\ \E garbage \in 0 .. ROOM : avma' = avma + garbage
  /\ diff' = job.start - state
  /\ phase' = "react"

------------------------------------------------------------------------------
(* The validators, and what becomes of the difference.                       *)

Advance ==
  IF state + 1 = job.end THEN phase' = "returned" /\ result' = 1
                         ELSE phase' = "generate" /\ UNCHANGED result

Accept ==
  /\ phase = "check"
  /\ tries' = [tries EXCEPT ![state] = 0]
  /\ state' = state + 1
  /\ Advance
  /\ UNCHANGED <<job, diff, tops, avma, i, curve>>

Reject ==
  /\ phase = "check"
  /\ \E d \in job.checks[state] : diff' = d
  /\ phase' = "react"
  /\ UNCHANGED <<job, state, tops, tries, avma, i, curve, result>>

NewState == Target(job, state, diff)

Hopeless == diff = INT_MIN \/ state + diff < 0

Fail ==
  /\ phase = "react"
  /\ Hopeless
  /\ phase' = "returned"
  /\ result' = 0
  /\ UNCHANGED <<job, state, diff, tops, tries, avma, i, curve>>

Exhausted == job.retry # 0 /\ tries[state] + 1 >= job.retry

GiveUp ==
  /\ phase = "react"
  /\ ~Hopeless
  /\ Exhausted
  /\ tries' = [tries EXCEPT ![state] = @ + 1]
  /\ phase' = "returned"
  /\ result' = 0
  /\ UNCHANGED <<job, state, diff, tops, avma, i, curve>>

\* Fault: the stage that failed is not unrolled.
RetryBelow ==
  /\ phase = "react"
  /\ ~Hopeless
  /\ ~Exhausted
  /\ tries' = IF job.retry = 0 THEN tries ELSE [tries EXCEPT ![state] = @ + 1]
  /\ i' = MaxOf(NewState, state - 1)
  /\ phase' = "unroll"
  /\ UNCHANGED <<job, state, diff, tops, avma, curve, result>>

Retry ==
  /\ phase = "react"
  /\ ~Hopeless
  /\ ~Exhausted
  /\ tries' = IF job.retry = 0 THEN tries ELSE [tries EXCEPT ![state] = @ + 1]
  /\ i' = state
  /\ phase' = "unroll"
  /\ UNCHANGED <<job, state, diff, tops, avma, curve, result>>

------------------------------------------------------------------------------
(* Back to NewState.                                                         *)

\* Fault: a stage with nothing to free is not stepped over.
UnrollStuck ==
  /\ phase = "unroll"
  /\ i > NewState
  /\ job.unrolls[i] # {}
  /\ set' = set \ job.unrolls[i]
  /\ by' = [p \in Stage |-> IF p \in job.unrolls[i] THEN END ELSE by[p]]
  /\ i' = i - 1
  /\ UNCHANGED <<job, phase, state, diff, tops, tries, avma, lost, stale, wrong, result>>

UnrollStage ==
  /\ phase = "unroll"
  /\ i > NewState
  /\ set' = set \ job.unrolls[i]
  /\ by' = [p \in Stage |-> IF p \in job.unrolls[i] THEN END ELSE by[p]]
  /\ i' = i - 1
  /\ UNCHANGED <<job, phase, state, diff, tops, tries, avma, lost, stale, wrong, result>>

\* Is what stage s put on the stack above top?
Popped(s, top) == s \in Span(job) /\ tops[s] + job.size[s] > top

\* Fault: the stack goes back to where the call began.
TopFirst == tops[job.start]

\* Fault: the stack stays where it is.
TopNow == avma

\* Where the stack goes back to.
Top == tops[NewState]

\* What was put on the stack since is gone; the pointers to it stay.
Rewind ==
  /\ phase = "unroll"
  /\ i <= NewState
  /\ avma' = Top
  /\ by' = [p \in Stage |-> IF by[p] >= NewState \/ Popped(by[p], avma') THEN END
                            ELSE by[p]]
  /\ state' = NewState
  /\ phase' = "generate"
  /\ UNCHANGED <<job, diff, tops, tries, i, set, lost, stale, wrong, result>>

Return == phase = "returned" /\ UNCHANGED vars

Next ==
  \/ Succeed \/ Refuse \/ Expire
  \/ Accept \/ Reject \/ Fail \/ GiveUp \/ Retry
  \/ UnrollStage \/ Rewind \/ Return

SafeSpec == Init /\ [][Next]_vars

\* The parameters are drawn anew on every pass: a stage that is reached again
\* and again is passed some time.
Spec ==
  /\ SafeSpec
  /\ WF_vars(Next)
  /\ \A s \in Stage : SF_vars(Succeed /\ state = s)
  /\ \A s \in CURVE .. POINTS : SF_vars(Accept /\ state = s)   \* the validated ones

------------------------------------------------------------------------------
(* Properties.                                                               *)

Phase == {"generate", "check", "react", "unroll", "returned"}

TypeOK ==
  /\ job \in Shape
  /\ phase \in Phase
  /\ state \in job.start .. job.end
  /\ phase # "returned" => state \in Span(job)
  /\ diff \in Int
  /\ tops \in [Stage -> Nat]
  /\ tries \in [Stage -> Nat]
  /\ avma \in Nat
  /\ i \in Stage
  /\ set \in SUBSET Stage
  /\ by \in [Stage -> SEED .. END]
  /\ lost \in SUBSET Stage
  /\ stale \in BOOLEAN /\ wrong \in BOOLEAN
  /\ result \in {-1, 0, 1}

\* However often and from wherever the engine was sent back, a generator finds
\* every product it looks at to be of this pass and in memory that is intact.
ReadsCurrent == phase = "generate" => job.reads[state] \subseteq Current

\* A call that reports success leaves a whole curve: every product of every
\* stage it was to run is of the same pass.
Complete ==
  result = 1 => UNION {job.writes[s] : s \in Span(job)} \subseteq Current

\* Retries, which may go on for days, do not add to the PARI stack: a stage
\* begins no higher than the stages before it left the stack on this pass.
StackBounded == phase = "generate" => avma <= (state - job.start) * ROOM

Leftover == job.writes[job.start]

\* What the unroll functions, and curve_free after the call, are handed: a
\* pointer that is not NULL never refers to memory the stack has given up, but
\* for the products of the stage the call begins with, which none of them
\* looks at before they are assigned again.
NoDangling == (set \cap OnHeap) \ Leftover \subseteq Current

\* Going back frees what is on the heap before it is overwritten, but for the
\* products of the stage the call begins with: the unroll loop stops above it.
LeaksOnlyAtStart == lost \subseteq Leftover

\* types.h, on the members of curve_t: "order a t_INT, curve order".
OrderIsCurveOrder == ~wrong

\* Every call comes to an end.
Finishes == <>(phase = "returned")

==============================================================================
