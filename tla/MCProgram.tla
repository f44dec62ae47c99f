-------------------------------- MODULE MCProgram ------------------------------
EXTENDS Program

CONSTANTS MaxItems, MaxCount   \* bounds: items of the input, curves

Streams(items, n) ==
  {[items |-> s, delimited |-> d] :
     s \in UNION {[1 .. k -> items] : k \in 0 .. n}, d \in BOOLEAN}

Numbers(S) == {Item(v, 1) : v \in S}
Nothing == [items |-> <<>>, delimited |-> TRUE]

Job(kind, count, timeout, stream) ==
  [kind |-> kind, count |-> count, timeout |-> timeout, in |-> stream,
   cli |-> TRUE, fit |-> TRUE, infile |-> "file", outfile |-> "std"]

\* Numbers that are prime, too large, none, and the sentinels' text.
Asked ==
  {Job("input", c, FALSE, s) :
     c \in 1 .. 2, s \in Streams(Numbers({5, -2}) \cup {Item(0, 0)}, MaxItems)}
  \cup {Job("input", 1, t, s) :
     t \in BOOLEAN, s \in Streams(Numbers({5, 4, 9, -1}), MaxItems - 2)}
  \cup {Job("binary", 1, FALSE, s) :
     s \in Streams(Numbers({BITS, 1, 0}), MaxItems + 1)}
  \cup {Job("seed", 2, t, s) :
     t \in BOOLEAN, s \in Streams({Item(0, k) : k \in 0 .. 3}, MaxItems - 2)}

Drawn ==
  {Job(k, c, t, Nothing) :
     k \in {"nums", "family", "any", "unique"}, c \in 1 .. MaxCount, t \in BOOLEAN}

Ended ==
  {[Job("any", 1, FALSE, Nothing) EXCEPT !.cli = c, !.fit = f, !.infile = n, !.outfile = o] :
     c \in BOOLEAN, f \in BOOLEAN, n \in {"std", "file", "bad"}, o \in {"std", "file", "bad"}}

MCJobs == Asked \cup Drawn \cup Ended
================================================================================
