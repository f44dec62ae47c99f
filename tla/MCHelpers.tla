------------------------------- MODULE MCHelpers -------------------------------
(* The helpers of the generators: one bit string and every sequence of calls   *)
(* on it, or one number that the algorithms on numbers are called with.        *)
EXTENDS Seeds, Output

\* Bounds: the field sizes, the numbers handed to the algorithms, and the
\* discriminants; rounds and calls of the search for one; the bits of anomalous
\* curves.
CONSTANTS MaxSize, MaxNumber, MaxDiscriminant, Rounds, MaxCalls, MaxFieldBits

ASSUME HelpersAssumption == MaxNumber \in Nat

VARIABLE n   \* the number, or 0 while there is a string

Groups == INSTANCE Subgroups
Bounds == INSTANCE InvalidPrimes
ClassForms == INSTANCE Forms
PrimeOrder == INSTANCE CmPrime
Special == INSTANCE SpecialCurves
Pairing == INSTANCE Families

HelpersInit == Init /\ n = 0

CallOnBits == n = 0 /\ Next /\ UNCHANGED n

CallOnNumber ==
  /\ n' \in (1 .. MaxNumber) \cup Data!Degrees
  /\ bits' = bits_new(0)

HelpersSpec ==
  HelpersInit /\ [][CallOnBits \/ CallOnNumber]_<<bits, n>>

\* The integers of strings, and field sizes: Bits, Seeds.
SeedsRight == NumbersAgree /\ (n \in 1 .. MaxSize => SeedsExact(n))

\* Orders of a generator: Subgroups.
SubgroupsRight == n \in 2 .. MaxNumber => Groups!SubgroupsExact(n)

\* The same orders, tried for two primes at a time.
TrialRight == n \in 2 .. MaxNumber => Groups!TrialOfAll(n)

\* Orders of a curve, and ends of a range of primes: InvalidPrimes.
PrimesRight == n \in 2 .. MaxNumber => Bounds!PrimesExact(n)

\* Discriminants: Forms.
FormsRight == n \in 1 .. MaxDiscriminant => ClassForms!FormsExact(n)

\* Prime orders of a curve: CmPrime.
DiscriminantsRight == n \in 1 .. MaxNumber => PrimeOrder!DiscriminantsExact(n)

\* Shapes of a curve object: Objects.
ObjectsRight == n \in 1 .. MaxNumber => ObjectsExact(Shape(n))

\* Two shapes of a whole curve object: Output.
WrittenRight ==
  n \in 1 .. MaxNumber /\ Whole(Shape(n)) =>
    /\ \A m \in 1 .. MaxNumber :
         Whole(Shape(m)) => WrittenApart(Object(Shape(n)), Object(Shape(m)))
    /\ CopyWritten(Object(Shape(n)))

\* Degrees and how a field of one is written, rows of the table of Koblitz curves
\* and of that of families, and field sizes of curves that are anomalous and fields
\* of ones that are supersingular: Tables, Output, Families, SpecialCurves.
TablesRight ==
  /\ n # 0 => Data!TablesExact(n) /\ FieldsExact(n)
  /\ n \in DOMAIN Pairing!families => Pairing!FamilyExact(n)
  /\ n \in 5 .. MaxFieldBits => Special!AnomalousExact(n)
  /\ n \in 3 .. MaxNumber => Special!SupersingularExact(n)
================================================================================
