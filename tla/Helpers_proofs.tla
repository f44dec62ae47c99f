------------------------------ MODULE Helpers_proofs ----------------------------
(***************************************************************************)
(* What the helpers run checks, for every value of the constants.          *)
(***************************************************************************)
EXTENDS MCHelpers, Objects_proofs

\* The objects that the helpers run counts through are among them.
THEOREM ObjectsStayRight == HelpersSpec => []ObjectsRight
<1>1. ObjectsRight
  <2> SUFFICES ASSUME n \in 1 .. MaxNumber PROVE ObjectsExact(Shape(n))
    BY Zenon DEF ObjectsRight
  <2>1. n \in Nat
    BY HelpersAssumption DEF HelpersAssumption
  <2>2. Shape(n) \in Shapes
    BY <2>1, ShapeOf
  <2> QED BY <2>2, EveryObjectExact
<1> QED BY <1>1, PTL

\* And so are the whole ones that it writes and compares.
THEOREM CurvesStayWritten == HelpersSpec => []WrittenRight
<1>1. WrittenRight
  <2> SUFFICES ASSUME n \in 1 .. MaxNumber, Whole(Shape(n))
               PROVE  /\ \A m \in 1 .. MaxNumber :
                           Whole(Shape(m)) => WrittenApart(Object(Shape(n)), Object(Shape(m)))
                      /\ CopyWritten(Object(Shape(n)))
    BY Zenon DEF WrittenRight
  <2>1. n \in Nat /\ \A m \in 1 .. MaxNumber : m \in Nat
    BY HelpersAssumption DEF HelpersAssumption
  <2>2. Shape(n) \in Shapes /\ \A m \in 1 .. MaxNumber : Shape(m) \in Shapes
    BY <2>1, ShapeOf
  <2> QED BY <2>2, EveryWrittenApart, EveryCopyWritten
<1> QED BY <1>1, PTL

================================================================================
