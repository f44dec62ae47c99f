--------------------------- MODULE MCInvalidThreads ---------------------------
(* Model-checking instances of the threaded driver.                          *)
EXTENDS InvalidThreads, TLC

\* The threads are interchangeable: nothing orders or compares them.
ThreadSymmetry == Permutations(Thread)
===============================================================================
