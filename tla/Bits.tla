---------------------------------- MODULE Bits ---------------------------------
(***************************************************************************)
(* Bit strings: a bits_t holds a number of bits in whole bytes of memory,  *)
(* with a sign for the integers among them.  The state is one string and   *)
(* the calls made on it, so that what a call finds is what earlier calls   *)
(* left behind, in the bytes the string no longer reaches into too.        *)
(*                                                                         *)
(* A byte has BYTE bits here, a hexadecimal digit half of them, and a      *)
(* size_t WORD bits.                                                       *)
(***************************************************************************)
EXTENDS Integers, Sequences
LOCAL INSTANCE SequencesExt

CONSTANTS BYTE, WORD, MaxLen   \* MaxLen: the longest string looked at

ASSUME BitsAssumption ==
  /\ BYTE \in {2, 4, 8}
  /\ WORD \in BYTE .. 64 /\ WORD >= 3   \* the numbers in Operands fit a word
  /\ MaxLen \in 0 .. 2^BYTE

VARIABLE bits

Bit == {0, 1}

Zeros(n) == [k \in 1 .. n |-> 0]

BYTE_LEN(n) == IF n % BYTE = 0 THEN n \div BYTE ELSE n \div BYTE + 1

\* Memory bits up to the end of the last byte in use, and the bits of the string.
Hashed(b) == SubSeq(b.mem, 1, BYTE_LEN(b.len) * BYTE)   \* what bits_sha1 reads
Text(b) == SubSeq(b.mem, 1, b.len)

bits_new(n) == [mem |-> Zeros(BYTE_LEN(n) * BYTE), len |-> n, sign |-> FALSE]

\* The bits w in new memory: those that are 1 are set.
bits_from_bin(w) ==
  [bits_new(Len(w)) EXCEPT !.mem = [k \in DOMAIN @ |->
     IF k <= Len(w) /\ w[k] = 1 THEN 1 ELSE 0]]

\* A last byte that is full stays zero.
bits_new_rand(n) ==
  LET drawn == IF n % BYTE = 0 /\ n > 0 THEN n - BYTE ELSE n
  IN  {bits_from_bin(w \o Zeros(n - drawn)) : w \in [1 .. drawn -> Bit]}

------------------------------------------------------------------------------
(* Integers and digits.                                                      *)

Abs(i) == IF i < 0 THEN -i ELSE i

Value(w) == FoldLeft(LAMBDA v, d : 2 * v + d, 0, w)

\* The n low digits of i, and as many as it has (binary_zv).
Low(i, n) == [k \in 1 .. n |-> (i \div 2^(n - k)) % 2]
Digits(i) == Low(i, CHOOSE n \in 0 .. WORD : 2^n > i /\ (n > 0 => 2^(n - 1) <= i))

bits_from_i(i) == [bits_from_bin(Digits(Abs(i))) EXCEPT !.sign = i < 0]

\* Of an integer that is too long the first n digits.
bits_from_i_len(i, n) ==
  LET w == Digits(Abs(i))
      offset == IF Len(w) < n THEN n - Len(w) ELSE 0
  IN  [bits_new(n) EXCEPT !.mem = [k \in DOMAIN @ |->
                                     IF k \in offset + 1 .. n THEN w[k - offset] ELSE 0],
                          !.sign = i < 0]

bits_to_i(b) == IF b.sign THEN -Value(Text(b)) ELSE Value(Text(b))

Byte(b, k) == Value(SubSeq(b.mem, k * BYTE + 1, k * BYTE + BYTE))

\* The bytes it prints: the bits are moved to the right end of them.
bits_to_hex(b) ==
  LET offset == b.len % BYTE IN
  [k \in 1 .. BYTE_LEN(b.len) |->
     IF offset = 0 THEN Byte(b, k - 1)
     ELSE (Byte(b, k - 1) \div 2^(BYTE - offset))
          + ((IF k = 1 THEN 0 ELSE Byte(b, k - 2) * 2^offset) % 2^BYTE)]

\* Of the digits h, half a byte each.
bits_from_hex(h) ==
  LET half == BYTE \div 2 IN
  bits_from_bin([k \in 1 .. Len(h) * half |->
                   Low(h[(k - 1) \div half + 1], half)[((k - 1) % half) + 1]])

\* What is printed, digit by digit.
HexDigits(bytes) ==
  LET base == 2^(BYTE \div 2) IN
  [k \in 1 .. 2 * Len(bytes) |->
     IF k % 2 = 1 THEN bytes[(k + 1) \div 2] \div base ELSE bytes[k \div 2] % base]

------------------------------------------------------------------------------
(* Calls that change a string; the ones without z change a copy.             *)

\* b with f of every position up to its end in memory that was cleared.
Redrawn(b, f(_)) ==
  [b EXCEPT !.mem = [k \in DOMAIN @ |-> IF k <= b.len THEN f(k - 1) ELSE 0]]

At(b, pos) == b.mem[pos + 1]

\* realloc, when there is not the memory for n bits; the new bytes are zero.
Grown(b, n) ==
  [b EXCEPT !.mem = IF BYTE_LEN(n) * BYTE > Len(@)
                    THEN @ \o Zeros(BYTE_LEN(n) * BYTE - Len(@)) ELSE @,
            !.len = n]

bits_cpy(b, src) == IF src.len = 0 THEN b ELSE src

bits_concatz(b, next) ==
  IF next.len = 0 THEN b
  ELSE [Grown(b, b.len + next.len) EXCEPT !.mem = [k \in DOMAIN @ |->
          IF k \in b.len + 1 .. b.len + next.len THEN At(next, k - b.len - 1) ELSE @[k]]]

\* The shorter one is read from the right; op is the table of or_func or and_func.
bits_bitwise(b, other, op) ==
  LET longer == IF b.len > other.len THEN b ELSE other
      shorter == IF b.len > other.len THEN other ELSE b
      Padded(pos) == IF pos < longer.len - shorter.len THEN 0
                     ELSE At(shorter, pos - (longer.len - shorter.len))
  IN  Redrawn(bits_new(longer.len), LAMBDA pos : op[At(longer, pos)][Padded(pos)])

\* Fault: whole bytes are turned over.
bits_not_bytes(b) ==
  [b EXCEPT !.mem = [k \in DOMAIN @ |->
                       IF k <= BYTE_LEN(b.len) * BYTE THEN 1 - @[k] ELSE @[k]]]

bits_notz(b) ==
  [b EXCEPT !.mem = [k \in DOMAIN @ |-> IF k <= b.len THEN 1 - @[k] ELSE @[k]]]

bits_rotz(b) == Redrawn(b, LAMBDA pos : At(b, b.len - pos - 1))

bits_shiftz(b, amount) ==
  IF amount = 0 THEN b
  ELSE Redrawn(b, LAMBDA pos :
         IF pos + amount \in 0 .. b.len - 1 THEN At(b, pos + amount) ELSE 0)

\* The remainder of a negative amount is one of a size_t.
bits_shiftrz(b, amount) ==
  IF amount = 0 THEN b
  ELSE Redrawn(b, LAMBDA pos :
         IF pos + amount \in 0 .. b.len - 1 THEN At(b, pos + amount)
         ELSE IF amount > 0 THEN At(b, (pos + amount) % b.len)
         ELSE At(b, (pos + ((2^WORD + amount) % b.len)) % b.len))

bits_lengthenz(b, amount) ==
  IF amount = 0 THEN b
  ELSE LET longer == Grown(b, b.len + Abs(amount))
       IN  IF amount > 0 THEN bits_shiftz(longer, -amount) ELSE longer

\* Fault: what is cut off stays in memory.
bits_shorten_left(b, amount) ==
  IF amount > 0 THEN [bits_shiftz(b, amount) EXCEPT !.len = @ - amount]
                ELSE [b EXCEPT !.len = @ + amount]

\* By no more than there is: the length would pass zero.
bits_shortenz(b, amount) ==
  IF amount > 0 THEN [bits_shiftz(b, amount) EXCEPT !.len = @ - amount]
  ELSE [b EXCEPT !.mem = [k \in DOMAIN @ |->
                            IF k \in b.len + amount + 1 .. b.len THEN 0 ELSE @[k]],
                 !.len = @ + amount]

bits_shiftiz(b, amount) ==
  IF amount > 0 THEN bits_lengthenz(b, -amount)
  ELSE IF amount < 0 THEN bits_shortenz(b, amount) ELSE b

bits_eq(b, other) ==
  b.sign = other.sign /\ b.len = other.len /\ Text(b) = Text(other)

------------------------------------------------------------------------------
(* The string and its calls.                                                 *)

\* Strings other calls made: short ones, one of them the end of a longer one.
Operands ==
  (UNION {bits_new_rand(n) : n \in 0 .. 2})
    \cup {bits_from_bin(w) : w \in [1 .. BYTE -> Bit]}
    \cup {bits_from_i(i) : i \in {-1, 5}}

Init == bits = bits_new(0) \/ \E n \in 1 .. BYTE : bits \in bits_new_rand(n)

Concat == \E next \in Operands :
  bits.len + next.len <= MaxLen /\ bits' = bits_concatz(bits, next)

Copy == \E src \in Operands : bits' = bits_cpy(bits, src)

Invert == bits' = bits_notz(bits) \/ bits' = bits_rotz(bits)

Shift == \E amount \in -bits.len - 1 .. bits.len + 1 :
  bits' = bits_shiftz(bits, amount) \/ bits' = bits_shiftrz(bits, amount)

Lengthen == \E amount \in 1 .. MaxLen - bits.len : \E side \in {-1, 1} :
  bits' = bits_lengthenz(bits, side * amount)

Shorten == \E amount \in 1 .. bits.len : \E side \in {-1, 1} :
  bits' = bits_shortenz(bits, side * amount)

Next == Concat \/ Copy \/ Invert \/ Shift \/ Lengthen \/ Shorten

Spec == Init /\ [][Next]_bits

------------------------------------------------------------------------------
(* Properties, over every string a sequence of calls can lead to.            *)

Or == [x \in Bit |-> [y \in Bit |-> IF x + y > 0 THEN 1 ELSE 0]]
And == [x \in Bit |-> [y \in Bit |-> x * y]]

\* w, and n zeros before it.
Padded(w, n) == Zeros(n) \o w

Wide(w, n) == Padded(w, IF Len(w) < n THEN n - Len(w) ELSE 0)

\* What the calls are to do, on bits that are not in any memory.
Moved(w, amount) == [k \in DOMAIN w |-> IF k + amount \in DOMAIN w THEN w[k + amount] ELSE 0]
Turned(w, amount) == [k \in DOMAIN w |-> w[((k - 1 + amount) % Len(w)) + 1]]

\* To an integer of the same length and back nothing is lost, and to hexadecimal
\* digits and back there are only more zeros on the left.
Conversions ==
  LET w == Text(bits)
      back == bits_from_i_len(bits_to_i(bits), bits.len)
      read == bits_from_hex(HexDigits(bits_to_hex(bits)))
  IN  /\ Value(w) # 0 => bits_eq(back, bits)
      /\ Hashed(back) = Hashed(bits)
      /\ Value(w) # 0 => bits_to_i(bits_from_i(bits_to_i(bits))) = bits_to_i(bits)
      /\ Text(read) = Wide(w, BYTE_LEN(Len(w)) * BYTE)

Backwards(w) == [k \in DOMAIN w |-> w[Len(w) - k + 1]]

\* The integer and the digits of a string, whatever calls were made on it: nothing
\* is lost, and beside another string the two are equal as the integers are.
NumbersAgree ==
  /\ Conversions
  /\ \A o \in Operands :
       bits_eq(bits, o) = (/\ bits_to_i(bits) = bits_to_i(o)
                           /\ Len(Text(bits)) = Len(Text(o)) /\ bits.sign = o.sign)

\* What each call makes of the bits.
Inverts ==
  LET w == Text(bits)
  IN  /\ Text(bits_notz(bits)) = [k \in DOMAIN w |-> 1 - w[k]]
      /\ Text(bits_rotz(bits)) = Backwards(w)

\* The sign stays that of the string that is added to.
Joins ==
  LET w == Text(bits) IN
  \A o \in Operands :
    /\ Text(bits_concatz(bits, o)) = w \o Text(o)
    /\ Text(bits_concatz(o, bits)) = Text(o) \o w
    /\ bits_eq(bits_concatz(bits, o), bits_concatz(bits_from_bin(w), o)) <=> ~bits.sign

Combines ==
  LET w == Text(bits) IN
  \A o \in Operands :
    LET v == Text(o)
        wide == Wide(w, Len(v))
        beside == Wide(v, Len(w))
    IN  /\ Text(bits_bitwise(bits, o, Or)) = [k \in DOMAIN wide |-> Or[wide[k]][beside[k]]]
        /\ Text(bits_bitwise(o, bits, And)) = [k \in DOMAIN wide |-> And[wide[k]][beside[k]]]

Shifts ==
  LET w == Text(bits) IN
  \A amount \in -MaxLen .. MaxLen :
    /\ Text(bits_shiftz(bits, amount)) = Moved(w, amount)
    /\ amount >= 0 \/ (w # <<>> /\ 2^WORD % Len(w) = 0) =>
         Text(bits_shiftrz(bits, amount)) = Turned(w, amount)

Stretches ==
  LET w == Text(bits) IN
  \A amount \in 0 .. MaxLen :
    /\ Text(bits_shiftiz(bits, amount)) = w \o Zeros(amount)
    /\ Text(bits_lengthenz(bits, amount)) = Padded(w, amount)
    /\ amount \in 1 .. Len(w) =>
         /\ Text(bits_shortenz(bits, amount)) = SubSeq(w, amount + 1, Len(w))
         /\ Text(bits_shiftiz(bits, -amount)) = SubSeq(w, 1, Len(w) - amount)

\* A call does to the bits what it says, whatever was done to the string before
\* it and however much memory that left it; negative rotations, for the lengths
\* that divide a word.
CallsAgree == Inverts /\ Joins /\ Combines /\ Shifts /\ Stretches

\* The hash of a string is one of its bits alone: a seed that was cut, copied,
\* joined or lengthened hashes as one that was read.
HashesText == Hashed(bits) = Hashed(bits_from_bin(Text(bits)))
================================================================================
