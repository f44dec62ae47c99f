# Specifications of ecgen

TLA+ specifications of ecgen, a generator of elliptic curve domain parameters,
with TLC runs and TLAPS proofs. Paths are those of the repository.

## 1. The system

`main` (src/ecgen.c) parses the command line, opens the streams, sets PARI and
the timeouts up and calls one method: `exhaustive_do`, `invalid_do`, or one of
the methods for anomalous, supersingular and complex multiplication curves.
All of them put a `curve_t` together with one engine, `exhaustive_gen_retry`.

| Component | State | Operations | Talks to | What makes it correct |
|---|---|---|---|---|
| Generation engine (exhaustive/exhaustive.c) | stage, `stack_tops`, `gen_tries`, the `curve_t`, the PARI stack | one stage: generate, validate, go on, go back, give up | generators, validators, unroll functions, timeout | reads nothing stale, leaves a whole curve, leaks and dangles nothing, does not grow, ends |
| Tables of the engine (exhaustive.c, arg.c, check.c, misc/config.c) | five tables, the used and the set options | ginit, cinit, ainit, uinit, report of unused options | command line, engine | every combination of options gives tables that fit together; warnings are right |
| Stage generators and validators (gen/, math/twists.c, the seeded methods and families under exhaustive/) | the `curve_t`, static caches | some forty functions | engine, PARI, input | what they read is there; caches belong to the curve at hand |
| Threaded invalid-curve driver (invalid/) | prime states, counter, published curves, mutex, condition; per thread a PARI stack | claim, publish, signal; wait, scan, join | engine, output | exclusive claims, exact counter, no lost signal, live copies, every curve once, termination |
| Single-threaded invalid-curve driver (invalid/invalid.c) | array of curves, the curve at work, counter | draw, generators, points, save, unroll | engine, output | ownership of the curve objects, complete array |
| Loop over `--count` and output (exhaustive.c, io/output.c) | output stream | begin, write, separator, end | engine | the array is well formed, a curve is written whole |
| Complex multiplication (cm/cm.c, cm_any.c, cm_prime.c, p1363.c) | cached discriminant and roots | next discriminant, next root | engine | the cache belongs to the order and curve at hand; every discriminant is found, once |
| Anomalous, supersingular curves, families (cm/, exhaustive/family.c) | tables of constants | constructions from a j-invariant or from polynomials | engine | the order entered is the order of the curve |
| Program start and end (ecgen.c) | streams, what is to be freed | init, quit | all | whatever was opened or cached is given back |
| Input (io/input.c) | input stream | read a number, prime, string | generators | bad input and its end are told apart |
| Timeouts (util/timeout.c, .h) | timer, jump buffer, flag, per thread | start, stop, signal handler | engine | a late signal does nothing |
| Command line (io/cli.c) | `cfg`, `cfg_set` | one per option, final checks | everything | contradictions are refused |
| Curve objects (obj/), memory, strings, bits, random numbers (util/), subgroups (math/) | none of their own | copies, frees, pure algorithms | everything | ownership; agreement with a reference definition |

The hard behaviour: threads that share state across two critical sections, a
condition variable that is waited on before the condition is looked at, two
kinds of memory (PARI's stack, given back by assignments to `avma`, and the
heap, given back by unroll functions) reached by pointers from the same object,
retries that leave by way of both, timeouts that leave a generator anywhere by
`siglongjmp`, and options whose combinations nobody wrote down.
PROJECT.json lists the hazards with their lines and the properties that watch them.

## 2. Modules

| Module | Models |
|---|---|
| `InvalidCurves` | what the invalid-curve method promises, whichever driver runs |
| `InvalidThreads`, `MCInvalidThreads` | `invalid_curves_threaded` and `invalid_thread` |
| `InvalidThreads_proofs` | proofs about them and what they write |
| `InvalidSingle` | `invalid_do` around `invalid_curves_single` |
| `InvalidSingle_proofs` | proofs about it |
| `Offsets` | the stages (`offset_e`) |
| `ExhaustiveStages` | generators, validators and unroll functions as the engine sees them |
| `ExhaustiveCalls` | a call of the engine, and what it asks of its tables |
| `ExhaustiveTables` | the tables as functions of the command line, and the calls made with them |
| `ExhaustiveSetup`, `MCExhaustiveSetup` | `exhaustive_do` and `cm_do` up to the generation |
| `ExhaustiveSetup_proofs` | proofs about it |
| `Exhaustive`, `MCExhaustive` | one call of `exhaustive_gen_retry` |
| `Exhaustive_proofs` | proofs about it |
| `Program`, `MCProgram` | `main`, `exhaustive_generate`, and the generators that keep something between calls |
| `CmSearch` | `cm_gen_curve_any` and `cm_gen_curve_unique` with their caches; composed into `Program` |
| `Input` | io/input.c and the generators that ask; composed into `Program` |
| `Program_proofs` | proofs about `Program`: its caches, its output and its memory; what is drawn |
| `MCHelpers` | the state machine of the pure algorithms: a string and the calls on it, or a number |
| `Helpers_proofs` | proofs about it, from those of the algorithms |
| `Bits` | util/bits.c, on memory |
| `Bits_proofs` | proofs about it |
| `Seeds` | the hashing of ANSI X9.62 and Brainpool seeds, on `Bits` |
| `Objects` | copies, clones and frees of obj/ |
| `Output` | a curve as it is written; fields and elements as numbers (gen/field.c) |
| `Objects_proofs` | proofs about both, for curve objects of every shape |
| `Subgroups` | math/subgroup.c and the points stage |
| `InvalidPrimes` | `invalid_primes` |
| `Forms` | forms, exponents and series of cm/p1363.c |
| `CmPrime` | the discriminants of cm/cm_prime.c |
| `SpecialCurves` | cm/anomalous.c, cm/supersingular.c |
| `Families` | the polynomials of exhaustive/family.c |
| `Tables` | the lookup in math/koblitz.c and math/poly.c, with rows of the tables |
| `Numbers` | functions of PARI on small numbers |

Definitions named "Fault" in their comment are not part of the models. Each is
a version of the definition below it with a plausible mistake in it, kept to
show that a property notices.

### 2.1 The invalid-curve drivers

A curve is the set of primes of the range that divide its order: the drivers
ask nothing else of it. `InvalidCurves` says: a worker takes over some wanted
primes, delivers one curve for all of them, each curve is written, and the
array is closed once all are written.

`InvalidThreads`. Variables carry the names of the code (`states`,
`generated`, `curves` for `local_curves`, `old` for `old_states`; `primes[t]`
is the thread's local array). `pc[t]` moves from lock to lock: what a thread
does between two lock operations is one action, except that what it does on
its own (`Draw`, `Gens`, `Points`, `Unroll`) is split where the engine is
called. `Check`, `Claim` and `Publish` are the three critical sections of a
thread, `Scan` one round of the main thread's loop under the mutex.
`pthread_cond_wait` is `Wait` (unlock and sleep in one step), a signal or
`SpuriousWakeup`, and `Reacquire`. Stacks: a published copy is `live` at a
`depth` of its thread's stack until an assignment to `avma` passes it.

The engine's calls inside the drivers are taken to end with their product
(`Draw`, `Points`) or, for the call with a retry limit of one, either way
(`Gens`). That is right without `--timeout`; the drivers with timeouts are
not modelled (section 6).

`InvalidSingle`. Curve objects are numbers; `heap` says which are allocated,
`live` whose parameters are intact. `nprimes` is any number up to `N`, zero
included. Stages of `InvalidCurves` are read off the array and the position of
the driver, with the driver as the only worker.

### 2.2 The engine and its tables

`ExhaustiveStages` has one record per generator: the non-positive differences
it may return, the products it assigns, those it reads, and whether it leaves
something on the PARI stack. The mathematics is left out, which difference is
returned is a choice. `ExhaustiveTables` translates `exhaustive_ginit`,
`cinit`, `ainit` and `uinit` to functions of the options, and gives the options
each of them reads (`GET`, `GET_BOOL`), short-circuits included; likewise `cm_ginit`, `cm_ainit` and `cm_cinit` for the
methods cm, anomalous and supersingular, and the tables `invalid_do` makes for
its three kinds of call. `InvalidCalls` and `GenerateCall` are the calls made with
them. In `ExhaustiveSetup` the tables are filled in their order and the unused
options reported.

The cases of a table do not overlap (`Forms`, `ExhaustiveTables`): a CASE with two true
guards may take either, which TLC does not show, since it takes the first.

`Exhaustive` is one call of the engine. `job` holds the arguments and the
tables; nothing in the module depends on what they are except through
`FitsTogether` of `ExhaustiveCalls`, the condition the proofs need: TLC evaluates it
for all the tables there are, and section 4 proves it of them. A round of the loop is cut into phases: `Succeed`, `Refuse`
or `Expire` (the generator), `Accept` or `Reject` (the validators), `Fail`,
`GiveUp` or `Retry` (what becomes of the difference), `UnrollStage` for each
stage of the unroll loop, `Rewind` (`avma = stack_tops[new_state]`).
A product is in `set` if its pointer is not NULL, and `by` says which stage of
this pass assigned it, or that it is gone or of an earlier pass. `Expire` keeps
any subset of the generator's assignments and any garbage on the stack.
`INT_MIN` is -100, below any difference; `ROOM` is what a stage may leave on
the stack, and its value is immaterial.

### 2.3 The program

`Program` runs from `main` to its exit. `pc` names where it is: `init` and
`method` around the opening of the streams, `loop` at the head of
`exhaustive_generate`, `decide` where the stages after the one that draws accept
the curve (`Write`) or send it back (`Reject`), `end`, `clear` and `quit` on the way
out, and `undefined` where C or PARI says nothing of what follows: a clone
given back twice, a clone read after it was given back. A `curve_t` is its
address; `curve_new` may put a later one at the same address or at another,
which is what the caches go by.

- Input (`AskField`, `AskA`, `AskB`, `AskSeed`): `in` is what is left to be read,
  as items with their text's length and whether the last is delimited. `input_i`
  answers with the number or a sentinel, and the generators turn the sentinels into
  differences, as the code does, not telling a sentinel from the number typed.
- `b` of nums.c and family.c (`FirstB`, `ReleaseB`, `CloneB`): gunclone and gclone
  are separate steps, since the timeout may fall between them.
- Discriminant and roots of cm_any.c (`ReuseRoots` to `WalkDown`): likewise, one
  step for each assignment to a static variable. `job.kind = "unique"` is
  `cm_gen_curve_unique`, which takes the next discriminant for every curve and walks
  it down if the group has two generators.
- `Expire` is a timeout, at any step of a stage. It loses the call, not the caches.

### 2.4 The algorithms

The modules from `Bits` on are operators, each with one property `...Exact` that
compares them with a definition that is not theirs: numbers against sets of
divisors, points counted one by one, polynomials multiplied out, text compared
with text. `MCHelpers` gives each of them every number up to a bound; `Bits` is
a state machine, since what a call on a string finds in the string's memory is
what earlier calls left there. Its properties are `CallsAgree`, what the calls do
to the bits, in five parts that are proved one by one; `HashesText`; and
`NumbersAgree`, the conversions from and to integers, which `SeedsRight` includes.

A byte has `BYTE` = 4 bits and `size_t` 8 in the run; SHA-1 is some function of the
bytes it is given. Curve objects (`Objects`) are sets of paths, a path for every
struct, array and number, so that a copy or a free is the set of what it
reaches. `Shapes` are the curve objects the stages make, whole or as a failure leaves
them: any of the fields; the metadata of a prime field, the three that a binary field
has, or none; no seed, or one with the parts that ANSI X9.62, Brainpool or a family
give it before and after each of their stages; what PARI has found out of the curve
and keeps on the heap (`cache`, given back by `obj_free`) or nothing; an array of any
number of generators or none, and on each an array of any number of points or none,
as `--points=none` leaves it. `seed_a` and `seed_b` of a Brainpool seed are freed but
never set. Orders, fields and points are not related to each other: of a prime field
with the metadata of a binary one the properties hold as well. `Shape(n)` counts
through some with up to two generators and points, for the run. Only whole objects,
with all fields, are written.
`Output` writes them: a key is a path, and an array has the entries that its object has.
`WrittenApart` says that two objects are written alike just when they differ in
nothing but what is kept back (`Kept`), `CopyWritten` that a copy is written as its
original; `FieldsExact`, on polynomials as numbers, belongs to `TablesRight`.

`p1363_group` (`Forms`) fills a vector of `Room(D)` entries without a look at its
length, and so does the model: what is written past the end is read back, and the
second entry too many makes the bound of the loop 0, as the PARI stack has it: the
bound, made before the vector, lies just behind it, and a pointer written over its
sign is read as 0. `FormsRight` says that what is found are forms, each once, and all
of them where no more than one is without room; section 5 says where there are more.
`points_gen_trial` (`Subgroups`) is handed one prime or two: `SubgroupsRight` says that
it makes a point of one of them and none that was not asked for, `TrialRight`, which
fails, that it makes one of each.

`Families` looks at the polynomials modulo a prime in which every `r` splits, so
that at each root of `r` the properties of a curve with a subgroup of that prime order
can be looked at as numbers. Orders of Koblitz curves are kept by their last three
hexadecimal digits and compared with those of the curve, from its trace.

## 3. Runs

| Run | Instance | Shows |
|---|---|---|
| `threads_safety` | 2 threads, 3 primes; threads symmetric; about 1.04 million states | claims are exclusive, the counter exact, published copies live, no signal lost, each curve written once, separators only between curves, published curves stay |
| `threads_live` | 2 threads, 2 primes | the driver ends; it implements `InvalidCurves` with its fairness |
| `threads_separators` | 2 threads, 2 primes | violated: section 5 |
| `single` | 0 to 3 primes | ownership, live parameters, no leak, complete array, end, implements the safety part of `InvalidCurves` |
| `setup` | all configurations, with the reductions of `MCExhaustiveSetup`; about 60,000 states | a curve gets its parts in order, arguments are there, tables fit together and heap products have an unroll function, warnings are true |
| `setup_warned` | the same | violated: section 5 |
| `engine` | all calls of `exhaustive_do`, `invalid_do` and `cm_do` with their tables, timeouts on; about 1.0 million states | reads are of this pass, success is complete, the stack is bounded, nothing dangles, leaks only at the first stage |
| `engine_live` | the four calls of the invalid-curve method over a random field, timeouts on | a call ends |
| `engine_twist` | the calls with a twist | violated: section 5 |
| `helpers` | strings of up to 8 bits and two calls, numbers up to 64, fields of up to 16 bits (11 for anomalous curves), discriminants up to 110; about 1,200 states | each algorithm agrees with its reference definition |
| `helpers_points` | orders up to 16 | violated: section 5 |
| `program` | up to 2 curves, 2 addresses, up to 6 items of input, all streams and failures; about 164,000 states | discriminants go with their roots, the output is an array, all is given back, caches advance, the end of the input ends the program |

Bounds. Two threads are enough for every pair of critical sections to
interleave, and the code treats threads alike; the proofs of section 4 do not
bound them. Three primes let one thread hold several, one prime be contended
for, and one be left. With two primes (liveness) a curve may serve none, one or
both. In the engine nothing is bounded but `retry`, which is what the program
passes (0 or 1), and `ROOM`. Timeouts are on in all jobs of `engine`: without
one a call does a part of what it may do with one. Configurations are reduced
where the tables are the same or the choice is independent; `MCExhaustiveSetup`
and `MCExhaustive` say how. In the program a second curve is the first that can meet
what an earlier one left in a cache, at its address or at another; five
values of `b`, five discriminants and two roots let every cache be continued more
than once. Six items are what a curve over a binary field needs.
Strings of eight bits are two bytes, and sizes up to 16 pass the length of a hash.
Discriminants up to 110 include those that overrun their vector, and the first, 101, of
which forms are lost.

Deadlock is checked in all runs but `program`: in the others `Returned`, `Return`,
`Generate` or the choice of a number let a finished model idle; the program ends
(`exited`, `undefined`), or runs out of discriminants, of which the
instance has finitely many.

Fairness. Of the threads: each is scheduled (weak), and gets a contended mutex
some time (strong on `Acquire`). Of the random draws, strong: curves divisible
by a given prime are drawn and have generators some time. Of the engine: it
goes on (weak); a stage reached again and again succeeds, and is accepted, some
time (strong): parameters are drawn anew on every pass. Fixed parameters
from the command line or the input may well fail for ever, and `Finishes` is
not claimed for them: `engine_live` uses a configuration whose field and b are
random. Of the program: it goes on (weak), and a prompt that is reached again and
again is answered some time before its timeout (strong on `Asking`). Nothing is
assumed of `Reject`: the input is what runs out.

`NothingLeaks` and `LeaksOnlyAtStart` are about the heap; the products of the
first stage of a call may be overwritten unfreed, since the unroll loop stops
above the stage it goes back to (the seed on a timeout, the generators in a
call that starts there).

## 4. Proofs

Proved with TLAPS, for every value of the constants.

`InvalidThreads_proofs`, from `ThreadAssumption` and `NAssumption` (`N` is
positive, the main thread is no worker). The inductive invariant `IInv` is
`TypeOK` and
- `LockInv`: the holder of the mutex is told by where its holder is; mutual
  exclusion follows;
- `ClaimsInv`: `ClaimsExclusive`, and a holder holds something;
- `CounterExact`, inductive only together with `ClaimsExclusive`: what is
  published was not published before;
- `ScanInv`: what the main thread has written is what is published, up to its
  cursor, and all of it while it sleeps. It is needed for `NoLostSignal`,
  as nothing in the state of the sleeping thread says why it slept;
- `StackInv`: copies of a thread lie within its stack, and within `btop` where
  the stack may still go back to it. `PublishedLive` alone is not inductive.

From it follow `ClaimsAreExclusive`, `CounterIsExact`, `PublishedCopiesLive`,
`NoSignalIsLost`, the action property `PublishedCurvesStay`, and `Refinement`:
every step maps to a step of `InvalidCurves` or a stutter.

The same module goes on from that invariant to the output, a sequence that only
the main thread extends, behind its cursor. `OutputInv` is
- `PlacesInv`: `old_states` tells of each curve whether it stands in the output, and
  none stands there twice;
- `EndInv`: the scan is left with every curve written. It rests on `ScanInv`: the
  counter alone says how many were published, not how many were seen;
- `SeparatorInv`: a separator follows a curve, and while one is the last thing written
  some curve is still to come. That is because the counter had not reached its end
  (`CounterExact`), and a curve not published then cannot have been written.

From it follow `CurvesWrittenOnce` and `SeparatorsStandBetween`.

`Exhaustive_proofs`, from `JobsAssumption` (the tables of every call fit
together). `IInv` is `TypeOK` and
- `DiffInv`: differences go back, and to stages the tables allow;
- `ByInv`: a product of this pass was assigned by a stage that was reached;
- `Passed`: the products of all stages behind the engine are there;
- `HeapInv`: what is on the heap is of this pass, and in the unroll loop of a
  stage still to be unrolled;
- `StackInv`: what the stages left lies one above the other, so that going back
  to `stack_tops[n]` loses the products of the stages from `n` on and no others.

From it follow `GeneratorsReadCurrent`, `SuccessIsComplete`,
`RetriesAddNothing`, `NothingDangles` and `LeaksAreConfined`.

`Program_proofs`, from the assumptions on `Jobs`, `Addresses` and the bounds: that
`RootsMatch` holds (`CachesAgree`). The two caches of cm_any.c and the curve object
they are for are three static variables, set one after the other, and a timeout may
leave any prefix of the assignments. `IInv` is
- `Structs`: the caches have the fields they have, so that a field is all that a
  step changes;
- `Reusable`: whenever there are roots that could be reused for the curve object
  at hand, they are the discriminant's, and on the heap. It holds since `min_curve` is
  assigned last on a fresh start, and since the roots of the same curve object are
  used up before the discriminant is replaced;
- `Underway`: what a call has done at each of its steps;
- `RootsMatch` itself.

The same module goes on to what the program leaves behind. `EndInv` is
- `PhaseInv`: there is a curve object exactly in the stages, and each stage is one the
  job can come to;
- `WrittenInv`: the output is a bracket and then curves and separators in turn, by how
  many curves there were, closed after the last stage only; that it is still open, and of
  which length, is what a step that writes needs;
- `MemoryInv`: only one of the caches is filled, by the method, and none once it was
  cleared;
- `DefinedInv`: without a timeout a cache that was given back is filled again before
  anything else happens, so that a clone freed twice is the fault of a timeout;
- `LeakInv`: roots are lost when new ones are made for a curve object that has some
  already. It counts them against the curves finished and the object at hand.

From it follow `OutputIsArray` (`ArrayWritten`) and `MemoryGivenBack`
(`EverythingFreed`).

Last, what is drawn: that `Advances` holds, `NothingDrawnTwice`. `CoefficientInv`
says that the cached coefficient is the last one drawn. `RootInv` is about an order of all
roots of all discriminants: what was drawn last is at or behind the root the cache points
to, and behind all roots of the discriminant where new ones are about to be made.
That the next discriminant is larger comes from `good_qdisc_minimal`, the least of a set
of naturals, which takes well-foundedness to prove.

`InvalidSingle_proofs`, from `NAssumption` and `NoneAssumption` (`NULL` is no curve). The
inductive invariant is `TypeOK` and
- `OwnInv`: every `curve_t` on the heap has one owner, the driver or one prime; while
  results are saved the first prime gets the original and the others copies, so that the
  driver and one prime share theirs in that loop and nowhere else;
- `DepthInv`: the parameters of a result lie below `avma`, and below `btop` where the
  stack may go back to it;
- `OrderInv`: a curve that was kept is wanted by a prime the cursor has yet to come to;
- `OutputInv`, `PhaseInv`: what was written, by the number of results; results are freed
  when there is one for every prime, and in order.

From it follow `NothingIsShared`, `ResultsStayLive`, `EverythingIsFreed`,
`ArrayIsComplete` and `SingleRefines`, the refinement of `InvalidCurves` (its safety
part: the specification without the fairness of the driver).

`ExhaustiveSetup_proofs`, from `ConfigsAssumption` (`Configs` is any set of
configurations there are; the reductions of `MCExhaustiveSetup` are not assumed). Its
invariant says that a table, once filled, is the function of the options that fills it,
whatever the order in which the two drivers fill theirs, that the options marked are
those that were read, and that the rest is reported. What is left is about the functions: a
curve's parts are generated in the order they need each other (`PartsInOrder`), a
generator or validator that wants an argument has one (`NoneWithoutArgument`), and
taking away an option that is warned of changes nothing (`NoFalseWarning`).
`TablesFitTogether`, for `exhaustive_do` and `cm_do`, and `InvalidCallsFit`, for
`invalid_do`, say that the tables are of the shape that `Exhaustive_proofs` assumes: with
them its theorems hold of every call the program makes, with and without a timeout. The
first also says that what goes on the heap has an unroll function that frees it.

`Bits_proofs`, from `BitsAssumption` (a byte has 2, 4 or 8 bits, a `size_t` at least as
many, at least three, and at most 64). The invariant is that the memory of a string is
of bits, reaches over its length, and is zero behind it (`Sound`): the calls that make a
string, grow it, shift it or cut it clear what they uncover. From it follow
- `HashIsOfBits`: `bits_sha1`, which reads whole bytes, sees the bits only;
- `CallsDoAsTheySay` (`CallsAgree`). Each call is first reduced to the text it leaves
  (`InvertText`, `ShiftText`, `ConcatText`, ...), position by position. There the
  cleared memory is needed: a string is lengthened, or combined with a longer one, by
  bits that were behind it.

`Objects_proofs` and `Helpers_proofs`. What a copy, a free and the writing reach is
traced path by path through the tree of a curve object, of any shape: its own parts,
whether it has a seed and which parts of one, and the numbers of points on its
generators, `Unset` where there is no array (`Tree`, `ObjectTrees`). `Fit` is what the
shapes have in common that the proofs need: where there are generators there is their
array, and PARI keeps something for a curve only. A path is told from
others by its length and its names, so that a number, a point and a generator
are never taken for each other. `GroupWritten` is about the keys of
one generator and its points, `TreeWritten` about all the keys of an object. From them follow
- `EveryObjectExact`: a free gives back the heap of an object, a copy or a clone, all of
  it and nothing else, with what PARI keeps for it by then (`UsedTree`: the copy with
  that is such a tree again);
- `EveryCopyWritten`: a copy of a whole object is written as its original;
- `EveryWrittenApart`. Four kinds of keys tell all there is to see of an object: the
  seed, one of the metadata, `x` of a generator and `x` of a point (`Telling`). The parts that
  are not kept back tell the same four things (`TellingParts`). So two objects agree in
  the one just when they agree in the other.

`ShapeOf` says that the run's shapes are among `Shapes`. With it `ObjectsStayRight` and
`CurvesStayWritten` state `ObjectsRight` and `WrittenRight` for a run with any bound on
the numbers (`HelpersAssumption`: it is a natural).

Only model-checked:
- what holds under fairness (`Terminates`, `Finishes`, `InputEnds`, the liveness half of
  `ImplementsInvalidCurves` for the threads), since the prover handles neither liveness
  under fairness nor ENABLED;
- `SeedsRight`, `SubgroupsRight`, `PrimesRight`, `FormsRight`, `DiscriminantsRight` and
  `TablesRight` of `MCHelpers`, on bounded inputs. They are about values computed by
  recursion or folds (the number of a string of bits, a product of factors, a count of
  points), and what such a definition computes for every input needs an induction over
  data the prover cannot do; the rows of `TablesRight` are data.

## 5. What the code does otherwise than documented

Shown by a run that finds the property violated:

- `CurvesSeparated` (invalid/invalid.c:285): curves that were published before
  the last scan are written without a separator between them, as the counter has
  already reached its end.
- `IgnoredIsWarned` (exhaustive/exhaustive.c:52): `--brainpool --cofactor=...`
  gives curves of prime order, and no warning.
- `OrderIsCurveOrder` (math/twists.c:16): with `--twist`, after a retry from
  beyond ORDER, the order of the abandoned curve is taken for that of the new one.
- `TrialRight` (gen/point.c:121): the vector that `vec_append` returns is dropped, so that
  of several primes given only the first gets a point on each generator. The curves of
  the invalid-curve method that serve several primes are written with one point.

Met while modelling; the models do as the code does, and where a property is
weaker than one would wish it says so:

- cm/p1363.c:12: the vector for the forms of D has 2 floor(sqrt(D / 3)) entries, and lines
  37 and 44 write past its end when there are more: 3 forms into room for 2 at D = 11, 6
  into room for 4 at D = 26, and so at 41, 59, 74 and 89. At 101 the loop loses its bound
  and two of the 14 forms are not found, so that the class polynomial is wrong, although
  p1363.h:32 has it "compute all the primitive reduced quadratic forms". (`FormsRight`
  is about all the forms only where there is room for all but one of them.)
- invalid/invalid.c:370: a range without primes leaves the array open, although
  docs/output.md:7 has the curves "enclosed in an array". (`ArrayComplete` says that
  nothing else does.)
- cm/cm_any.c:265: the discriminant is given back before the search reads it, and a
  timeout before the next one is kept leaves it freed: the next call frees it
  again. The same of `b` in nums.c and family.c. (`EverythingFreed` allows
  `undefined` after a timeout.)
- cm/cm_any.c:21: the search goes on from |D| + 1, where D may be four times the d
  it was found from; the d in between are never tried.
- cm/cm_any.c:402: when a discriminant that was walked down has no root left, a
  curve that is not there is copied.
- exhaustive/nums.c, family.c: with `--count`, a curve object at a new address starts
  `b` again, and the same curve may be written twice.
- exhaustive/exhaustive.c:472: if a curve after the first fails, the array ends with
  a separator.
- ecgen.c: if `cli_init` fails, `quit` closes an output that was not opened.
- io/input.c: a typed -1 or -2 is taken for a sentinel; the last byte of a string
  without a delimiter is cut off; at the end of the input the binary field and the
  seeds are asked for again, for ever (`InputEnds` is about prime fields).
- cm/cm_prime.c:33, 81: a prime is entered twice where two ranges meet and a round's
  primes are added again, so that discriminants such as -27 are tried, which are not
  fundamental; line 121: products that are positive are handed to `cornacchia2`.
- math/poly.c: `poly_exists` is true of degree 1060, for which there is no row.
- cm/anomalous.c:30: the j-invariant of 43 is that of -64 * 15, not of -64 * 16; line
  32: the row of 67 is overwritten by that of 163; line 101: alpha is that of row 0
  whichever row is used. Only row 3 is used (cm/cm.c:118). The bounds of the prime are
  cut to integers before the root is taken, so that a field may fall short of its
  size by one bit: 367 for ten bits.
- exhaustive/family.c:28: the trace of the BN family is 6 z + 1 where its field and
  order belong to 6 z^2 + 1. No trace is ever read.
- util/bits.c:409: a rotation by a negative amount is by another unless the length
  divides 2^64; `bits_shortenz` by more than the length wraps.
- obj/curve.c, gen/seed.c: a copy has no metadata, and the copy of a seed no type.
- invalid/invalid.c:71: `1-` without an end asks for primes for ever; `0-5` gives none.

## 6. Not modelled, and what could come next

Not modelled:

- The timer, the signal handler and the jump buffer (util/timeout.h:57): the window in
  which a signal jumps to an old buffer lies between two calls of the C library in
  one macro. The models let a timeout fall wherever a stage has begun.
- The drivers over an engine that times out (invalid/invalid_thread.c:85 drops the
  engine's result): a curve that lacks parameters is then read as if it had them.
- What gerepile does within a generator (gen/order.c:88).
- PARI's number theory, and the floating-point half of p1363.c and cm_any.c.
- The remaining rows of math/poly.c, which are data.
- The text of command line values, hexadecimal formats and CSV: layout.
- memory, strings and random numbers (util/): wrappers around the C library and PARI;
  random values are choices in the models.
- The `*_once` generators, `subgroups_2n_gens` and `subgroups_2n`, which nothing calls.
- The vendored JSON and SHA-1 libraries.

Next, in order of importance:

1. The drivers over an engine that may time out, on the side of the model.
2. `invalid_do` as a third driver of `ExhaustiveSetup`: the warnings of invalid.c:355.
