------------------------------- MODULE Bits_proofs -----------------------------
(***************************************************************************)
(* The memory of a bit string beyond its bits is zero, whatever calls were *)
(* made on it, so that the hash of its bytes is one of its bits, and each  *)
(* call does to the bits what it does to a sequence.                       *)
(***************************************************************************)
EXTENDS Bits, TLAPS

\* The bits of the bytes that hold n bits.
Room(n) == BYTE_LEN(n) * BYTE

LEMMA Bytes ==
  ASSUME NEW n \in Nat
  PROVE  /\ Room(n) \in Nat /\ n <= Room(n)
         /\ \A m \in 0 .. n : Room(m) <= Room(n)
<1>1. CASE BYTE = 2
  BY <1>1 DEF Room, BYTE_LEN
<1>2. CASE BYTE = 4
  BY <1>2 DEF Room, BYTE_LEN
<1>3. CASE BYTE = 8
  BY <1>3 DEF Room, BYTE_LEN
<1> QED BY <1>1, <1>2, <1>3, BitsAssumption

\* A string of the bits b.len in the memory b.mem, which is cleared behind them.
Sound(b) ==
  /\ b = [mem |-> b.mem, len |-> b.len, sign |-> b.sign]
  /\ b.len \in Nat
  /\ b.mem \in Seq(Bit)
  /\ Room(b.len) <= Len(b.mem)
  /\ \A k \in b.len + 1 .. Len(b.mem) : b.mem[k] = 0
  /\ b.sign \in BOOLEAN

LEMMA Hashing ==
  ASSUME NEW b, Sound(b)
  PROVE  Hashed(b) = Hashed(bits_from_bin(Text(b)))
<1> DEFINE N == Room(b.len)
           w == Text(b)
           m == [k \in 1 .. N |-> IF k <= b.len /\ w[k] = 1 THEN 1 ELSE 0]
<1>1. b.mem \in Seq(Bit)
  BY DEF Sound
<1>2. b.len \in Nat /\ N \in Nat /\ b.len <= N /\ N <= Len(b.mem)
  BY Bytes DEF Sound
<1>3. /\ w \in Seq(Bit) /\ Len(w) = b.len
      /\ \A k \in 1 .. b.len : w[k] = b.mem[k]
  BY <1>1, <1>2 DEF Text
<1>4. bits_from_bin(w).mem = m /\ bits_from_bin(w).len = b.len
  BY <1>2, <1>3 DEF bits_from_bin, bits_new, Zeros, Room
<1>5. m \in Seq(Bit) /\ Len(m) = N
  BY <1>2 DEF Bit
<1>6. Hashed(bits_from_bin(w)) = SubSeq(m, 1, N)
  BY <1>4 DEF Hashed, Room
<1>7. SubSeq(m, 1, N) = m
  BY <1>2, <1>5
<1>8. Hashed(b) = [k \in 1 .. N |-> b.mem[k]]
  BY <1>1, <1>2 DEF Hashed, Room
<1>9. ASSUME NEW k \in 1 .. N PROVE m[k] = b.mem[k]
  <2>1. CASE k <= b.len
    BY <1>2, <1>3, <2>1 DEF Bit
  <2>2. CASE k > b.len
    BY <1>2, <2>2 DEF Sound
  <2> QED BY <1>2, <2>1, <2>2
<1> QED BY <1>6, <1>7, <1>8, <1>9

LEMMA MemoryOf ==
  ASSUME NEW b, Sound(b)
  PROVE  /\ Len(b.mem) \in Nat /\ DOMAIN b.mem = 1 .. Len(b.mem)
         /\ b.mem = [k \in 1 .. Len(b.mem) |-> b.mem[k]]
         /\ \A k \in 1 .. Len(b.mem) : b.mem[k] \in Bit
<1>1. b.mem \in Seq(Bit)
  BY DEF Sound
<1> QED BY <1>1

\* v is a sequence of n elements, m a memory of n bits.
Filled(v, n) == v = [k \in 1 .. n |-> v[k]]
Memory(m, n) == Filled(m, n) /\ \A k \in 1 .. n : m[k] \in Bit

LEMMA SoundOf ==
  ASSUME NEW N \in Nat, NEW m, Memory(m, N),
         NEW n \in Nat, Room(n) <= N, NEW s \in BOOLEAN,
         \A k \in n + 1 .. N : m[k] = 0
  PROVE  Sound([mem |-> m, len |-> n, sign |-> s])
<1>1. m \in [1 .. N -> Bit]
  BY DEF Filled, Memory
<1>2. m \in Seq(Bit) /\ Len(m) = N
  BY <1>1
<1> QED BY <1>2 DEF Sound

LEMMA TextIs ==
  ASSUME NEW b, Sound(b)
  PROVE  /\ b.len \in Nat /\ Len(b.mem) \in Nat /\ b.len <= Len(b.mem)
         /\ DOMAIN b.mem = 1 .. Len(b.mem)
         /\ Text(b) = [k \in 1 .. b.len |-> b.mem[k]]
         /\ Len(Text(b)) = b.len /\ DOMAIN Text(b) = 1 .. b.len
         /\ Text(b) \in Seq(Bit) /\ \E S : Text(b) \in Seq(S)
         /\ \A k \in 0 .. b.len - 1 : At(b, k) \in Bit
<1>1. b.mem \in Seq(Bit)
  BY DEF Sound
<1>2. b.len \in Nat /\ b.len <= Len(b.mem) /\ Len(b.mem) \in Nat
  <2>1. b.len \in Nat /\ Room(b.len) <= Len(b.mem) /\ Len(b.mem) \in Nat
    BY MemoryOf DEF Sound
  <2>2. Room(b.len) \in Nat /\ b.len <= Room(b.len)
    BY <2>1, Bytes
  <2> QED BY <2>1, <2>2
<1>3. Text(b) \in Seq(Bit) /\ Len(Text(b)) = b.len
  BY <1>1, <1>2 DEF Text
<1>4. Text(b) = [k \in 1 .. b.len |-> b.mem[k]]
  BY <1>1, <1>2 DEF Text
<1>5. \A k \in 0 .. b.len - 1 : At(b, k) \in Bit
  BY <1>1, <1>2 DEF At
<1>6. DOMAIN Text(b) = 1 .. b.len /\ DOMAIN b.mem = 1 .. Len(b.mem)
  BY <1>1, <1>2, <1>4
<1>7. \E S : Text(b) \in Seq(S)
  BY <1>3
<1> QED BY <1>1, <1>2, <1>3, <1>4, <1>5, <1>6, <1>7

------------------------------------------------------------------------------
(* Strings that are made.                                                    *)

LEMMA SoundNew ==
  ASSUME NEW n \in Nat
  PROVE  Sound(bits_new(n))
<1> DEFINE N == Room(n)
<1>1. N \in Nat /\ Memory(Zeros(N), N)
  BY Bytes DEF Zeros, Filled, Memory, Bit
<1>2. \A k \in n + 1 .. N : Zeros(N)[k] = 0
  BY <1>1 DEF Zeros
<1>3. \A s \in BOOLEAN : Sound([mem |-> Zeros(N), len |-> n, sign |-> s])
  BY <1>1, <1>2, SoundOf
<1> QED BY <1>3, Zenon DEF bits_new, Room

LEMMA SoundRead ==
  ASSUME NEW S, NEW w \in Seq(S)
  PROVE  Sound(bits_from_bin(w))
<1> DEFINE N == Room(Len(w))
           m == [k \in 1 .. N |-> IF k <= Len(w) /\ w[k] = 1 THEN 1 ELSE 0]
<1>1. Len(w) \in Nat /\ N \in Nat
  BY Bytes
<1>2. bits_from_bin(w) = [mem |-> m, len |-> Len(w), sign |-> FALSE]
  <2>1. bits_new(Len(w)) = [mem |-> Zeros(N), len |-> Len(w), sign |-> FALSE]
    BY DEF bits_new, Room
  <2>2. DOMAIN bits_new(Len(w)).mem = 1 .. N
    BY <2>1 DEF Zeros
  <2>3. bits_from_bin(w) = [bits_new(Len(w)) EXCEPT !.mem = m]
    BY <2>2 DEF bits_from_bin
  <2> HIDE DEF N, m
  <2>4. \A s : [[mem |-> Zeros(N), len |-> Len(w), sign |-> s] EXCEPT !.mem = m]
                 = [mem |-> m, len |-> Len(w), sign |-> s]
    OBVIOUS
  <2> QED BY <2>1, <2>3, <2>4
<1>3. Memory(m, N) /\ \A k \in Len(w) + 1 .. N : m[k] = 0
  BY <1>1 DEF Filled, Memory, Bit
<1>4. Room(Len(w)) <= N
  BY <1>1
<1> HIDE DEF m, N
<1> QED BY <1>1, <1>2, <1>3, <1>4, SoundOf

LEMMA SoundDrawn ==
  ASSUME NEW n \in Nat, NEW b \in bits_new_rand(n)
  PROVE  Sound(b)
<1> DEFINE drawn == IF n % BYTE = 0 /\ n > 0 THEN n - BYTE ELSE n
<1>1. drawn \in Nat /\ n - drawn \in Nat
  <2>1. CASE BYTE = 2
    BY <2>1
  <2>2. CASE BYTE = 4
    BY <2>2
  <2>3. CASE BYTE = 8
    BY <2>3
  <2> QED BY <2>1, <2>2, <2>3, BitsAssumption
<1>2. PICK w \in [1 .. drawn -> Bit] : b = bits_from_bin(w \o Zeros(n - drawn))
  BY DEF bits_new_rand
<1> HIDE DEF drawn
<1>3. w \in Seq(Bit) /\ Zeros(n - drawn) \in Seq(Bit)
  BY <1>1, <1>2 DEF Zeros, Bit
<1>4. w \o Zeros(n - drawn) \in Seq(Bit)
  BY <1>3
<1> QED BY <1>2, <1>4, SoundRead

LEMMA Absolute ==
  \A i \in Int : Abs(i) = IF i < 0 THEN 0 - i ELSE i
BY DEF Abs

LEMMA SoundNumber ==
  ASSUME NEW i \in {-1, 5}
  PROVE  Sound(bits_from_i(i))
<1> DEFINE Fits(n) == 2^n > Abs(i) /\ (n > 0 => 2^(n - 1) <= Abs(i))
           n == CHOOSE n \in 0 .. WORD : Fits(n)
<1>1. \E k \in 0 .. WORD : Fits(k)
  <2>1. CASE i = 5
    <3>1. 2^3 = 8 /\ 2^2 = 4 /\ Abs(i) = 5
      BY <2>1 DEF Abs
    <3>2. 3 \in 0 .. WORD /\ 3 - 1 = 2
      BY BitsAssumption
    <3>3. Fits(3)
      BY <3>1, <3>2
    <3> QED BY <3>2, <3>3
  <2>2. CASE i = -1
    <3>1. Abs(i) = 1
      BY <2>2, Absolute
    <3>3. 2^1 = 2
      OBVIOUS
    <3>4. 2^0 = 1
      OBVIOUS
    <3>2. 1 \in 0 .. WORD /\ 1 - 1 = 0
      BY BitsAssumption
    <3>5. Fits(1)
      BY <3>1, <3>2, <3>3, <3>4
    <3> QED BY <3>2, <3>5
  <2> QED BY <2>1, <2>2
<1>2. n \in 0 .. WORD
  BY <1>1
<1>3. n \in Nat
  BY <1>2, BitsAssumption
<1>4. Digits(Abs(i)) = Low(Abs(i), n)
  BY DEF Digits
<1> DEFINE w == Digits(Abs(i))
           S == {w[k] : k \in 1 .. n}
<1>5. w \in Seq(S)
  <2> HIDE DEF n
  <2>1. w = [k \in 1 .. n |-> w[k]]
    BY <1>4 DEF Low
  <2>2. w \in [1 .. n -> S]
    BY <2>1
  <2> HIDE DEF w, S
  <2> QED BY <1>3, <2>2
<1>6. Sound(bits_from_bin(w))
  <2> HIDE DEF w, S
  <2> QED BY <1>5, SoundRead
<1>7. Sound([bits_from_bin(w) EXCEPT !.sign = i < 0])
  <2> HIDE DEF w
  <2> QED BY <1>6 DEF Sound
<1> QED BY <1>7 DEF bits_from_i

LEMMA SoundOperand ==
  ASSUME NEW b \in Operands
  PROVE  Sound(b)
<1>1. CASE \E n \in 0 .. 2 : b \in bits_new_rand(n)
  BY <1>1, SoundDrawn
<1>2. CASE \E w \in [1 .. BYTE -> Bit] : b = bits_from_bin(w)
  <2>1. PICK w \in [1 .. BYTE -> Bit] : b = bits_from_bin(w)
    BY <1>2
  <2>2. w \in Seq(Bit)
    BY BitsAssumption
  <2> QED BY <2>1, <2>2, SoundRead
<1>3. CASE \E i \in {-1, 5} : b = bits_from_i(i)
  BY <1>3, SoundNumber
<1>4. \/ b \in UNION {bits_new_rand(n) : n \in 0 .. 2}
      \/ b \in {bits_from_bin(w) : w \in [1 .. BYTE -> Bit]}
      \/ b \in {bits_from_i(i) : i \in {-1, 5}}
  BY DEF Operands
<1>5. b \in UNION {bits_new_rand(n) : n \in 0 .. 2} => \E n \in 0 .. 2 : b \in bits_new_rand(n)
  OBVIOUS
<1>6. b \in {bits_from_bin(w) : w \in [1 .. BYTE -> Bit]}
        => \E w \in [1 .. BYTE -> Bit] : b = bits_from_bin(w)
  OBVIOUS
<1>7. b \in {bits_from_i(i) : i \in {-1, 5}} => \E i \in {-1, 5} : b = bits_from_i(i)
  OBVIOUS
<1> QED BY <1>1, <1>2, <1>3, <1>4, <1>5, <1>6, <1>7

------------------------------------------------------------------------------
(* Remainders.                                                               *)

LEMMA Divide ==
  \A m \in Nat \ {0} : \A x \in Int :
    x \div m \in Int /\ x % m \in 0 .. m - 1 /\ x = m * (x \div m) + (x % m)
OBVIOUS

LEMMA Remain ==
  \A m \in Nat \ {0} : \A x, q \in Int : \A r \in 0 .. m - 1 : x = m * q + r => x % m = r
OBVIOUS

LEMMA Within == \A m \in Nat \ {0} : \A x \in 0 .. m - 1 : x % m = x
OBVIOUS

LEMMA SumRemain ==
  ASSUME NEW m \in Nat \ {0}, NEW x \in Int, NEW y \in Int
  PROVE  (x + (y % m)) % m = (x + y) % m
<1> DEFINE q == y \div m
           p == (x + (y % m)) \div m
           r == (x + (y % m)) % m
<1>1. q \in Int /\ y % m \in Int /\ y = m * q + (y % m)
  BY Divide
<1>2. p \in Int /\ r \in 0 .. m - 1 /\ x + (y % m) = m * p + r
  BY <1>1, Divide
<1> HIDE DEF q, p, r
<1>3. x + y = m * q + m * p + r
  BY <1>1, <1>2
<1>4. m * q + m * p = m * (q + p)
  BY <1>1, <1>2
<1>5. x + y \in Int /\ q + p \in Int /\ x + y = m * (q + p) + r
  BY <1>1, <1>2, <1>3, <1>4
<1> QED BY <1>2, <1>5, Remain DEF r

LEMMA WordRemain ==
  \A m \in Nat \ {0} : \A W, x, y \in Int :
    W % m = 0 => (x + ((W + y) % m)) % m = (x + y) % m
<1> SUFFICES ASSUME NEW m \in Nat \ {0}, NEW W \in Int, W % m = 0, NEW x \in Int, NEW y \in Int
             PROVE  (x + ((W + y) % m)) % m = (x + y) % m
  OBVIOUS
<1> DEFINE z == W + y
           s == x + y
<1>1. z \in Int /\ s \in Int /\ x + z = s + W /\ s + 0 = s
  OBVIOUS
<1> HIDE DEF z, s
<1>2. (x + (z % m)) % m = (x + z) % m
  BY <1>1, SumRemain
<1>3. (s + (W % m)) % m = (s + W) % m
  BY <1>1, SumRemain
<1> QED BY <1>1, <1>2, <1>3 DEF z, s

------------------------------------------------------------------------------
(* The calls that change a string.                                           *)

With(b, m) == [b EXCEPT !.mem = m]
Resize(b, m, n) == [b EXCEPT !.mem = m, !.len = n]

LEMMA Resizing ==
  ASSUME NEW b, Sound(b), NEW m, NEW n
  PROVE  Resize(b, m, n) = [mem |-> m, len |-> n, sign |-> b.sign]
<1>1. \A x, y, s : [[mem |-> x, len |-> y, sign |-> s] EXCEPT !.mem = m]
                      = [mem |-> m, len |-> y, sign |-> s]
  OBVIOUS
<1>2. \A x, y, s : [[mem |-> x, len |-> y, sign |-> s] EXCEPT !.len = n]
                      = [mem |-> x, len |-> n, sign |-> s]
  OBVIOUS
<1>3. Resize(b, m, n) = [[b EXCEPT !.mem = m] EXCEPT !.len = n]
  BY DEF Resize
<1>4. b = [mem |-> b.mem, len |-> b.len, sign |-> b.sign]
  BY DEF Sound
<1> QED BY <1>1, <1>4, <1>2, <1>3

LEMMA Resized ==
  ASSUME NEW b, Sound(b), NEW N \in Nat, NEW m, Memory(m, N),
         NEW n \in Nat, Room(n) <= N,
         \A k \in n + 1 .. N : m[k] = 0
  PROVE  Sound(Resize(b, m, n))
<1>1. b.sign \in BOOLEAN
  BY DEF Sound
<1> QED BY <1>1, Resizing, SoundOf

LEMMA Rewritten ==
  ASSUME NEW b, Sound(b), NEW m, Memory(m, Len(b.mem)),
         \A k \in 1 .. Len(b.mem) : k > b.len => m[k] = 0
  PROVE  Sound(With(b, m))
<1>1. \A x, y, s : [[mem |-> x, len |-> y, sign |-> s] EXCEPT !.mem = m]
                      = [mem |-> m, len |-> y, sign |-> s]
  OBVIOUS
<1>2. b = [mem |-> b.mem, len |-> b.len, sign |-> b.sign]
  BY DEF Sound
<1>3. With(b, m) = [mem |-> m, len |-> b.len, sign |-> b.sign]
  BY <1>1, <1>2 DEF With
<1>4. /\ Len(b.mem) \in Nat /\ b.len \in Nat /\ Room(b.len) <= Len(b.mem)
  BY MemoryOf DEF Sound
<1>5. \A k \in b.len + 1 .. Len(b.mem) : m[k] = 0
  BY <1>4
<1>6. b.sign \in BOOLEAN
  BY DEF Sound
<1> QED BY <1>3, <1>4, <1>5, <1>6, SoundOf

LEMMA SoundCopy ==
  ASSUME NEW b, Sound(b), NEW src, Sound(src)
  PROVE  Sound(bits_cpy(b, src))
BY DEF bits_cpy

LEMMA SoundInvert ==
  ASSUME NEW b, Sound(b)
  PROVE  Sound(bits_notz(b)) /\ Sound(bits_rotz(b))
<1>1. /\ b.len \in Nat /\ DOMAIN b.mem = 1 .. Len(b.mem) /\ Len(b.mem) \in Nat
      /\ \A k \in DOMAIN b.mem : k > b.len => b.mem[k] = 0
  BY MemoryOf DEF Sound
<1>4. /\ b.len <= Len(b.mem) /\ \A k \in 0 .. b.len - 1 : At(b, k) \in Bit
      /\ \A k \in DOMAIN b.mem : b.mem[k] \in Bit
  BY MemoryOf, TextIs
<1>2. Sound(bits_notz(b))
  <2> DEFINE m == [k \in DOMAIN b.mem |-> IF k <= b.len THEN 1 - b.mem[k] ELSE b.mem[k]]
  <2>1. bits_notz(b) = With(b, m)
    BY DEF bits_notz, With
  <2>2. Memory(m, Len(b.mem)) /\ \A k \in 1 .. Len(b.mem) : k > b.len => m[k] = 0
    BY <1>1, <1>4 DEF Filled, Memory, Bit
  <2> HIDE DEF m
  <2> QED BY <2>1, <2>2, Rewritten
<1>3. Sound(bits_rotz(b))
  <2> DEFINE m == [k \in DOMAIN b.mem |-> IF k <= b.len THEN At(b, b.len - (k - 1) - 1) ELSE 0]
  <2>1. bits_rotz(b) = With(b, m)
    BY DEF bits_rotz, Redrawn, With
  <2>2. Memory(m, Len(b.mem)) /\ \A k \in 1 .. Len(b.mem) : k > b.len => m[k] = 0
    <3>1. \A k \in 1 .. b.len : b.len - (k - 1) - 1 \in 0 .. b.len - 1
      BY <1>1
    <3>2. \A k \in DOMAIN b.mem : k <= b.len => k \in 1 .. b.len
      BY <1>1
    <3>3. \A k \in DOMAIN b.mem : m[k] \in Bit
      BY <1>4, <3>1, <3>2 DEF Bit
    <3>4. Filled(m, Len(b.mem))
      BY <1>1 DEF Filled
    <3>5. \A k \in 1 .. Len(b.mem) : k > b.len => m[k] = 0
      BY <1>1
    <3> HIDE DEF m
    <3> QED BY <1>1, <3>3, <3>4, <3>5 DEF Memory
  <2> HIDE DEF m
  <2> QED BY <2>1, <2>2, Rewritten
<1> QED BY <1>2, <1>3

LEMMA SoundShift ==
  ASSUME NEW b, Sound(b), NEW amount \in Int
  PROVE  Sound(bits_shiftz(b, amount)) /\ Sound(bits_shiftrz(b, amount))
<1>1. /\ b.len \in Nat /\ DOMAIN b.mem = 1 .. Len(b.mem) /\ Len(b.mem) \in Nat
      /\ \A k \in DOMAIN b.mem : k > b.len => b.mem[k] = 0
  BY MemoryOf DEF Sound
<1>4. \A k \in 0 .. b.len - 1 : At(b, k) \in Bit
  BY TextIs
<1>5. 2^WORD \in Int
  BY BitsAssumption
<1>2. CASE amount = 0
  BY <1>2 DEF bits_shiftz, bits_shiftrz
<1>3. CASE amount # 0
  <2> DEFINE f(pos) == IF pos + amount \in 0 .. b.len - 1 THEN At(b, pos + amount) ELSE 0
             g(pos) == IF pos + amount \in 0 .. b.len - 1 THEN At(b, pos + amount)
                       ELSE IF amount > 0 THEN At(b, (pos + amount) % b.len)
                       ELSE At(b, (pos + ((2^WORD + amount) % b.len)) % b.len)
             mf == [k \in DOMAIN b.mem |-> IF k <= b.len THEN f(k - 1) ELSE 0]
             mg == [k \in DOMAIN b.mem |-> IF k <= b.len THEN g(k - 1) ELSE 0]
  <2>1. bits_shiftz(b, amount) = With(b, mf)
    BY <1>3 DEF bits_shiftz, Redrawn, With
  <2>2. bits_shiftrz(b, amount) = With(b, mg)
    BY <1>3 DEF bits_shiftrz, Redrawn, With
  <2>5. \A k \in 1 .. b.len : f(k - 1) \in Bit
    BY <1>4 DEF Bit
  <2>6. ASSUME NEW k \in 1 .. b.len PROVE g(k - 1) \in Bit
    <3> DEFINE x == k - 1 + amount
               y == k - 1 + ((2^WORD + amount) % b.len)
    <3>1. b.len \in Nat \ {0} /\ x \in Int /\ 2^WORD + amount \in Int /\ k - 1 \in Int
      BY <1>1, <1>5
    <3>2. (2^WORD + amount) % b.len \in Int
      <4> DEFINE W == 2^WORD + amount
      <4>1. W \in Int /\ b.len \in Nat \ {0}
        BY <3>1
      <4> HIDE DEF W
      <4>2. W % b.len \in 0 .. b.len - 1
        BY <4>1, Divide
      <4> QED BY <4>1, <4>2 DEF W
    <3>3. y \in Int
      BY <3>1, <3>2
    <3> DEFINE l == b.len
    <3>5. l \in Nat \ {0}
      BY <3>1
    <3> HIDE DEF x, y, l
    <3>6. x % l \in 0 .. l - 1 /\ y % l \in 0 .. l - 1
      BY <3>1, <3>3, <3>5, Divide
    <3>4. x % b.len \in 0 .. b.len - 1 /\ y % b.len \in 0 .. b.len - 1
      BY <3>6 DEF l
    <3> QED BY <1>4, <3>4 DEF x, y
  <2>7. \A k \in DOMAIN b.mem : k <= b.len => k \in 1 .. b.len
    BY <1>1
  <2> HIDE DEF f, g
  <2>3. Memory(mf, Len(b.mem)) /\ \A k \in 1 .. Len(b.mem) : k > b.len => mf[k] = 0
    BY <1>1, <2>5, <2>6, <2>7 DEF Filled, Memory, Bit
  <2>4. Memory(mg, Len(b.mem)) /\ \A k \in 1 .. Len(b.mem) : k > b.len => mg[k] = 0
    BY <1>1, <2>5, <2>6, <2>7 DEF Filled, Memory, Bit
  <2> HIDE DEF mf, mg
  <2> QED BY <2>1, <2>2, <2>3, <2>4, Rewritten
<1> QED BY <1>2, <1>3

LEMMA Appended ==
  ASSUME NEW S, NEW T, NEW v \in Seq(S), NEW z \in Seq(T)
  PROVE  /\ v \o z \in Seq(S \cup T)
         /\ Len(v \o z) = Len(v) + Len(z)
         /\ \A k \in 1 .. Len(v) + Len(z) :
              (v \o z)[k] = IF k <= Len(v) THEN v[k] ELSE z[k - Len(v)]
<1>1. v \in Seq(S \cup T) /\ z \in Seq(S \cup T)
  OBVIOUS
<1>2. v \o z \in Seq(S \cup T)
  BY <1>1
<1>3. Len(v \o z) = Len(v) + Len(z)
  OBVIOUS
<1>4. \A k \in 1 .. Len(v) + Len(z) :
        (v \o z)[k] = IF k <= Len(v) THEN v[k] ELSE z[k - Len(v)]
  OBVIOUS
<1> QED BY <1>2, <1>3, <1>4

\* A string that grows keeps its bits, and its new memory is zero.
LEMMA Growing ==
  ASSUME NEW b, Sound(b), NEW n \in Nat, n >= b.len
  PROVE  /\ Sound(Grown(b, n)) /\ Grown(b, n).len = n
         /\ DOMAIN Grown(b, n).mem = 1 .. Len(Grown(b, n).mem)
         /\ \A k \in DOMAIN Grown(b, n).mem : k > b.len => Grown(b, n).mem[k] = 0
         /\ \A k \in 1 .. b.len : Grown(b, n).mem[k] = b.mem[k]
         /\ Grown(b, n).sign = b.sign
<1> DEFINE N == Room(n)
           m == IF N > Len(b.mem) THEN b.mem \o Zeros(N - Len(b.mem)) ELSE b.mem
<1>1. N \in Nat
  BY Bytes
<1> HIDE DEF N
<1>2. b.mem \in Seq(Bit)
  BY DEF Sound
<1>3. b.len \in Nat /\ \A k \in b.len + 1 .. Len(b.mem) : b.mem[k] = 0
  BY DEF Sound
<1>4. /\ Memory(m, Len(m)) /\ Len(m) \in Nat /\ N <= Len(m)
      /\ \A k \in b.len + 1 .. Len(m) : m[k] = 0
      /\ \A k \in 1 .. Len(b.mem) : m[k] = b.mem[k]
  <2>1. CASE N > Len(b.mem)
    <3> DEFINE z == Zeros(N - Len(b.mem))
    <3>1. N - Len(b.mem) \in Nat
      BY <1>1, <1>2, <2>1
    <3>2. z \in Seq({0}) /\ Len(z) = N - Len(b.mem) /\ \A k \in 1 .. Len(z) : z[k] = 0
      BY <3>1 DEF Zeros
    <3>3. m = b.mem \o z
      BY <2>1
    <3> HIDE DEF m, z
    <3>8. z \in Seq(Bit)
      BY <3>2 DEF Bit
    <3>4. /\ Len(m) = N
          /\ \A k \in 1 .. Len(m) : m[k] = IF k <= Len(b.mem) THEN b.mem[k] ELSE z[k - Len(b.mem)]
      <4>1. Len(m) = Len(b.mem) + Len(z)
        BY <1>2, <3>3, <3>8
      <4>2. \A k \in 1 .. Len(b.mem) + Len(z) :
              m[k] = IF k <= Len(b.mem) THEN b.mem[k] ELSE z[k - Len(b.mem)]
        BY <1>2, <3>3, <3>8
      <4> QED BY <1>1, <1>2, <3>2, <4>1, <4>2
    <3>5. m \in Seq(Bit)
      <4>1. z \in Seq(Bit)
        BY <3>2 DEF Bit
      <4> QED BY <1>2, <3>3, <4>1
    <3>6. Memory(m, Len(m))
      BY <3>5 DEF Filled, Memory, Bit
    <3>7. \A k \in b.len + 1 .. Len(m) : m[k] = 0
      <4> SUFFICES ASSUME NEW k \in b.len + 1 .. Len(m) PROVE m[k] = 0
        OBVIOUS
      <4>1. CASE k <= Len(b.mem)
        BY <1>1, <1>2, <1>3, <3>4, <4>1
      <4>2. CASE k > Len(b.mem)
        <5>1. k - Len(b.mem) \in 1 .. Len(z) /\ k \in 1 .. Len(m)
          BY <1>1, <1>2, <1>3, <3>2, <3>4, <4>2
        <5> QED BY <1>2, <3>2, <3>4, <4>2, <5>1
      <4> QED BY <1>1, <1>2, <1>3, <3>4, <4>1, <4>2
    <3> QED BY <1>1, <1>2, <1>3, <2>1, <3>4, <3>6, <3>7
  <2>2. CASE ~(N > Len(b.mem))
    <3>1. m = b.mem
      BY <2>2
    <3> HIDE DEF m
    <3> QED BY <1>1, <1>2, <1>3, <2>2, <3>1 DEF Filled, Memory
  <2> QED BY <2>1, <2>2
<1>5. Grown(b, n) = Resize(b, m, n)
  BY DEF Grown, N, Room, Resize
<1> HIDE DEF m
<1>6. Grown(b, n).mem = m /\ Grown(b, n).len = n /\ Grown(b, n).sign = b.sign
  BY <1>5, Resizing
<1>7. \A k \in n + 1 .. Len(m) : m[k] = 0
  BY <1>3, <1>4
<1>8. Sound(Grown(b, n))
  BY <1>4, <1>5, <1>7, Resized DEF N
<1>9. b.len <= Len(b.mem)
  <2>1. Room(b.len) <= Len(b.mem) /\ Room(b.len) \in Nat /\ b.len <= Room(b.len)
    BY <1>3, Bytes DEF Sound
  <2> QED BY <1>2, <1>3, <2>1
<1> QED BY <1>2, <1>3, <1>4, <1>6, <1>8, <1>9

LEMMA SoundConcat ==
  ASSUME NEW b, Sound(b), NEW next, Sound(next)
  PROVE  Sound(bits_concatz(b, next))
<1>1. CASE next.len = 0
  BY <1>1 DEF bits_concatz
<1>2. CASE next.len # 0
  <2> DEFINE n == b.len + next.len
             g == Grown(b, n)
             m == [k \in DOMAIN g.mem |->
                     IF k \in b.len + 1 .. n THEN At(next, k - b.len - 1) ELSE g.mem[k]]
  <2>1. b.len \in Nat /\ next.len \in Nat /\ n \in Nat /\ n >= b.len
    BY DEF Sound
  <2>2. /\ Sound(g) /\ g.len = n
        /\ DOMAIN g.mem = 1 .. Len(g.mem)
        /\ \A k \in DOMAIN g.mem : k > b.len => g.mem[k] = 0
    <3> HIDE DEF n
    <3> QED BY <2>1, Growing
  <2>3. bits_concatz(b, next) = With(g, m)
    BY <1>2 DEF bits_concatz, With
  <2> HIDE DEF g
  <2>4. Memory(m, Len(g.mem)) /\ \A k \in 1 .. Len(g.mem) : k > g.len => m[k] = 0
    <3>1. /\ \A k \in 1 .. Len(g.mem) : g.mem[k] \in Bit
          /\ \A k \in 0 .. next.len - 1 : At(next, k) \in Bit /\ Len(g.mem) \in Nat
      BY <2>2, MemoryOf, TextIs
    <3>2. \A k \in b.len + 1 .. n : k - b.len - 1 \in 0 .. next.len - 1
      BY <2>1
    <3>3. \A k \in 1 .. Len(g.mem) : m[k] \in Bit
      BY <2>2, <3>1, <3>2
    <3>4. Len(g.mem) \in Nat
      BY <2>2, MemoryOf
    <3>5. Filled(m, Len(g.mem))
      BY <2>2 DEF Filled
    <3>6. ASSUME NEW k \in 1 .. Len(g.mem), k > g.len PROVE m[k] = 0
      <4>1. k > n /\ k > b.len /\ k \notin b.len + 1 .. n
        BY <2>1, <2>2, <3>4, <3>6
      <4> QED BY <2>2, <4>1
    <3> HIDE DEF m
    <3> QED BY <3>3, <3>5, <3>6 DEF Memory
  <2> HIDE DEF m
  <2> QED BY <2>2, <2>3, <2>4, Rewritten
<1> QED BY <1>1, <1>2

LEMMA SoundLengthen ==
  ASSUME NEW b, Sound(b), NEW amount \in Int
  PROVE  Sound(bits_lengthenz(b, amount))
<1>1. Abs(amount) \in Nat /\ b.len \in Nat
  BY DEF Abs, Sound
<1>2. Sound(Grown(b, b.len + Abs(amount)))
  BY <1>1, Growing
<1>3. -amount \in Int
  OBVIOUS
<1> QED BY <1>2, <1>3, SoundShift DEF bits_lengthenz

LEMMA SoundShorten ==
  ASSUME NEW b, Sound(b), NEW amount \in Int, Abs(amount) \in 1 .. b.len
  PROVE  Sound(bits_shortenz(b, amount))
<1> DEFINE l == b.len
<1>1. /\ l \in Nat /\ DOMAIN b.mem = 1 .. Len(b.mem) /\ Len(b.mem) \in Nat
      /\ Room(l) <= Len(b.mem)
      /\ \A k \in l + 1 .. Len(b.mem) : b.mem[k] = 0
  BY MemoryOf DEF Sound
<1>5. /\ \A k \in 0 .. l - 1 : At(b, k) \in Bit
      /\ \A k \in 1 .. Len(b.mem) : b.mem[k] \in Bit
  BY MemoryOf, TextIs
<1>4. \A k \in 0 .. l : Room(k) \in Nat
  BY <1>1, Bytes
<1>2. CASE amount > 0
  <2> DEFINE m == [k \in 1 .. Len(b.mem) |->
                     IF k <= l
                     THEN IF k - 1 + amount \in 0 .. l - 1 THEN At(b, k - 1 + amount) ELSE 0
                     ELSE 0]
  <2>1. amount \in 1 .. l
    BY <1>2 DEF Abs
  <2>2. bits_shiftz(b, amount) = With(b, m)
    BY <1>1, <1>2 DEF bits_shiftz, Redrawn, With
  <2>3. Memory(m, Len(b.mem)) /\ \A k \in l - amount + 1 .. Len(b.mem) : m[k] = 0
    BY <1>1, <1>5, <2>1 DEF Filled, Memory, Bit
  <2>4. l - amount \in Nat /\ Room(l - amount) <= Len(b.mem)
    <3>1. l - amount \in 0 .. l
      BY <1>1, <2>1
    <3>2. Room(l - amount) <= Room(l)
      BY <1>1, <3>1, Bytes
    <3>3. Room(l) \in Nat /\ Room(l - amount) \in Nat
      BY <1>1, <3>1, <1>4
    <3> QED BY <1>1, <3>1, <3>2, <3>3
  <2>5. bits_shortenz(b, amount) = Resize(b, m, l - amount)
    <3> HIDE DEF m
    <3> QED BY <1>2, <2>2 DEF bits_shortenz, Sound, With, Resize
  <2> HIDE DEF m
  <2> QED BY <1>1, <2>3, <2>4, <2>5, Resized
<1>3. CASE amount < 0
  <2> DEFINE m == [k \in 1 .. Len(b.mem) |->
                     IF k \in l + amount + 1 .. l THEN 0 ELSE b.mem[k]]
  <2>1. l + amount \in 0 .. l
    BY <1>1, <1>3 DEF Abs
  <2>5. \A k \in 1 .. Len(b.mem) : m[k] \in Bit
    BY <1>5 DEF Bit
  <2>6. Memory(m, Len(b.mem))
    <3>1. DOMAIN m = 1 .. Len(b.mem) /\ m = [k \in 1 .. Len(b.mem) |-> m[k]]
      OBVIOUS
    <3> HIDE DEF m
    <3> QED BY <2>5, <3>1 DEF Filled, Memory, Bit
  <2>7. ASSUME NEW k \in l + amount + 1 .. Len(b.mem) PROVE m[k] = 0
    <3>1. k \in Int /\ k \in 1 .. Len(b.mem)
      BY <1>1, <2>1
    <3>2. CASE k <= l
      BY <1>1, <2>1, <3>1, <3>2
    <3>3. CASE k > l
      <4>1. k \in l + 1 .. Len(b.mem) /\ k \notin l + amount + 1 .. l
        BY <1>1, <3>1, <3>3
      <4>2. b.mem[k] = 0
        BY <1>1, <4>1
      <4> QED BY <3>1, <4>1, <4>2
    <3> QED BY <1>1, <3>1, <3>2, <3>3
  <2>2. Memory(m, Len(b.mem)) /\ \A k \in l + amount + 1 .. Len(b.mem) : m[k] = 0
    <3> HIDE DEF m
    <3> QED BY <2>6, <2>7
  <2>3. l + amount \in Nat /\ Room(l + amount) <= Len(b.mem)
    <3>1. Room(l + amount) <= Room(l)
      BY <1>1, <2>1, Bytes
    <3>2. Room(l) \in Nat /\ Room(l + amount) \in Nat
      BY <1>1, <2>1, <1>4
    <3> QED BY <1>1, <2>1, <3>1, <3>2
  <2>4. bits_shortenz(b, amount) = Resize(b, m, l + amount)
    BY <1>1, <1>3 DEF bits_shortenz, Resize
  <2> HIDE DEF m
  <2> QED BY <1>1, <2>2, <2>3, <2>4, Resized
<1> QED BY <1>2, <1>3 DEF Abs

------------------------------------------------------------------------------
(* What the calls make of the bits.                                          *)

\* Bits in memory and the same bits out of it.
LEMMA SameText ==
  ASSUME NEW b, Sound(b), NEW v, Filled(v, b.len), \A k \in 1 .. b.len : b.mem[k] = v[k]
  PROVE  Text(b) = v
<1>1. Text(b) = [k \in 1 .. b.len |-> b.mem[k]]
  BY TextIs
<1>2. v = [k \in 1 .. b.len |-> v[k]]
  BY DEF Filled
<1> QED BY <1>1, <1>2

LEMMA Having ==
  ASSUME NEW b, Sound(b), NEW m
  PROVE  With(b, m).mem = m /\ With(b, m).len = b.len /\ With(b, m).sign = b.sign
<1>1. \A x, y, s : [[mem |-> x, len |-> y, sign |-> s] EXCEPT !.mem = m]
                      = [mem |-> m, len |-> y, sign |-> s]
  OBVIOUS
<1>2. b = [mem |-> b.mem, len |-> b.len, sign |-> b.sign]
  BY DEF Sound
<1>3. With(b, m) = [mem |-> m, len |-> b.len, sign |-> b.sign]
  BY <1>1, <1>2 DEF With
<1> QED BY <1>3

\* Turned over and turned round.
LEMMA InvertText ==
  ASSUME NEW b, Sound(b)
  PROVE  /\ Text(bits_notz(b)) = [k \in DOMAIN Text(b) |-> 1 - Text(b)[k]]
         /\ Text(bits_rotz(b)) = Backwards(Text(b))
<1> DEFINE w == Text(b)
           n == b.len
<1>1. /\ n \in Nat /\ n <= Len(b.mem) /\ DOMAIN b.mem = 1 .. Len(b.mem) /\ Len(b.mem) \in Nat
      /\ w = [k \in 1 .. n |-> b.mem[k]] /\ DOMAIN w = 1 .. n /\ Len(w) = n
  BY TextIs
<1>2. Sound(bits_notz(b)) /\ Sound(bits_rotz(b))
  BY SoundInvert
<1> HIDE DEF w
<1>3. Text(bits_notz(b)) = [k \in DOMAIN w |-> 1 - w[k]]
  <2> DEFINE m == [k \in DOMAIN b.mem |-> IF k <= b.len THEN 1 - b.mem[k] ELSE b.mem[k]]
             v == [k \in DOMAIN w |-> 1 - w[k]]
  <2>1. bits_notz(b) = With(b, m)
    BY DEF bits_notz, With
  <2>2. Filled(v, n) /\ \A k \in 1 .. n : m[k] = v[k]
    BY <1>1 DEF Filled
  <2> HIDE DEF m, v
  <2>3. Text(bits_notz(b)) = v
    BY <1>2, <2>1, <2>2, Having, SameText
  <2> QED BY <2>3 DEF v
<1>4. Text(bits_rotz(b)) = Backwards(w)
  <2> DEFINE m == [k \in DOMAIN b.mem |-> IF k <= b.len THEN At(b, b.len - (k - 1) - 1) ELSE 0]
             v == [k \in DOMAIN w |-> w[Len(w) - k + 1]]
  <2>1. bits_rotz(b) = With(b, m)
    BY DEF bits_rotz, Redrawn, With
  <2>2. Filled(v, n)
    BY <1>1 DEF Filled
  <2>3. ASSUME NEW k \in 1 .. n PROVE m[k] = v[k]
    <3>1. n - k + 1 \in 1 .. n /\ n - (k - 1) - 1 + 1 = n - k + 1
      BY <1>1
    <3>2. m[k] = b.mem[n - (k - 1) - 1 + 1]
      BY <1>1 DEF At
    <3>3. v[k] = b.mem[n - k + 1]
      BY <1>1, <3>1
    <3> QED BY <3>1, <3>2, <3>3
  <2> HIDE DEF m, v
  <2>4. Text(bits_rotz(b)) = v
    BY <1>2, <2>1, <2>2, <2>3, Having, SameText
  <2> QED BY <2>4 DEF v, Backwards
<1> QED BY <1>3, <1>4 DEF w

LEMMA ShiftText ==
  ASSUME NEW b, Sound(b), NEW amount \in Int
  PROVE  Text(bits_shiftz(b, amount)) = Moved(Text(b), amount)
<1> DEFINE w == Text(b)
           n == b.len
           v == Moved(w, amount)
<1>1. /\ n \in Nat /\ n <= Len(b.mem) /\ DOMAIN b.mem = 1 .. Len(b.mem) /\ Len(b.mem) \in Nat
      /\ w = [k \in 1 .. n |-> b.mem[k]] /\ DOMAIN w = 1 .. n /\ Len(w) = n
  BY TextIs
<1>2. Sound(bits_shiftz(b, amount))
  BY SoundShift
<1> HIDE DEF w
<1>3. Filled(v, n) /\ \A k \in 1 .. n : v[k] = IF k + amount \in 1 .. n THEN w[k + amount] ELSE 0
  BY <1>1 DEF Filled, Moved
<1>4. CASE amount = 0
  <2>1. bits_shiftz(b, amount) = b
    BY <1>4 DEF bits_shiftz
  <2>2. \A k \in 1 .. n : b.mem[k] = v[k]
    BY <1>1, <1>3, <1>4
  <2> HIDE DEF v
  <2>3. Text(b) = v
    BY <1>3, <2>2, SameText
  <2> QED BY <2>1, <2>3 DEF v, w
<1>5. CASE amount # 0
  <2> DEFINE f(pos) == IF pos + amount \in 0 .. b.len - 1 THEN At(b, pos + amount) ELSE 0
             m == [k \in DOMAIN b.mem |-> IF k <= b.len THEN f(k - 1) ELSE 0]
  <2>1. bits_shiftz(b, amount) = With(b, m)
    BY <1>5 DEF bits_shiftz, Redrawn, With
  <2>2. ASSUME NEW k \in 1 .. n PROVE m[k] = v[k]
    <3>1. m[k] = IF k - 1 + amount \in 0 .. n - 1 THEN b.mem[k - 1 + amount + 1] ELSE 0
      BY <1>1 DEF At
    <3>2. k - 1 + amount \in 0 .. n - 1 <=> k + amount \in 1 .. n
      BY <1>1
    <3>3. k - 1 + amount + 1 = k + amount
      BY <1>1
    <3> QED BY <1>1, <1>3, <3>1, <3>2, <3>3
  <2> HIDE DEF m, v
  <2>4. Text(bits_shiftz(b, amount)) = v
    BY <1>2, <1>3, <2>1, <2>2, Having, SameText
  <2> QED BY <2>4 DEF v, w
<1> QED BY <1>4, <1>5

\* The remainder of a size_t is that of the number it wrapped around, when the
\* length divides a word.
LEMMA RotateText ==
  ASSUME NEW b, Sound(b), NEW amount \in Int,
         amount >= 0 \/ (b.len # 0 /\ 2^WORD % b.len = 0)
  PROVE  Text(bits_shiftrz(b, amount)) = Turned(Text(b), amount)
<1> DEFINE w == Text(b)
           n == b.len
           v == Turned(w, amount)
<1>1. /\ n \in Nat /\ n <= Len(b.mem) /\ DOMAIN b.mem = 1 .. Len(b.mem) /\ Len(b.mem) \in Nat
      /\ w = [k \in 1 .. n |-> b.mem[k]] /\ DOMAIN w = 1 .. n /\ Len(w) = n
  BY TextIs
<1>2. Sound(bits_shiftrz(b, amount))
  BY SoundShift
<1> HIDE DEF w
<1>3. Filled(v, n) /\ \A k \in 1 .. n : v[k] = w[((k - 1 + amount) % n) + 1]
  <2>1. v = [k \in 1 .. n |-> w[((k - 1 + amount) % n) + 1]]
    BY <1>1 DEF Turned
  <2> HIDE DEF v, n
  <2> QED BY <2>1 DEF Filled
<1>4. CASE amount = 0
  <2>1. bits_shiftrz(b, amount) = b
    BY <1>4 DEF bits_shiftrz
  <2>2. ASSUME NEW k \in 1 .. n PROVE b.mem[k] = v[k]
    <3>1. n \in Nat \ {0} /\ k - 1 + amount \in 0 .. n - 1 /\ k - 1 + amount + 1 = k
      BY <1>1, <1>4
    <3>2. (k - 1 + amount) % n = k - 1 + amount
      BY <3>1, Within
    <3> QED BY <1>1, <1>3, <3>1, <3>2
  <2> HIDE DEF v
  <2>3. Text(b) = v
    BY <1>3, <2>2, SameText
  <2> QED BY <2>1, <2>3 DEF v, w
<1>5. CASE amount # 0
  <2> DEFINE g(pos) == IF pos + amount \in 0 .. b.len - 1 THEN At(b, pos + amount)
                       ELSE IF amount > 0 THEN At(b, (pos + amount) % b.len)
                       ELSE At(b, (pos + ((2^WORD + amount) % b.len)) % b.len)
             m == [k \in DOMAIN b.mem |-> IF k <= b.len THEN g(k - 1) ELSE 0]
  <2>1. bits_shiftrz(b, amount) = With(b, m)
    BY <1>5 DEF bits_shiftrz, Redrawn, With
  <2>2. ASSUME NEW k \in 1 .. n PROVE m[k] = v[k]
    <3> DEFINE pos == k - 1
               to == (pos + amount) % n
    <3>1. n \in Nat \ {0} /\ pos \in 0 .. n - 1 /\ pos + amount \in Int
      BY <1>1
    <3>2. to \in 0 .. n - 1
      BY <3>1, Divide
    <3>3. m[k] = g(pos)
      BY <1>1
    <3>4. v[k] = At(b, to)
      <4>1. v[k] = w[to + 1]
        BY <1>3
      <4> HIDE DEF to, v
      <4>2. to + 1 \in 1 .. n
        BY <1>1, <3>2
      <4> QED BY <1>1, <4>1, <4>2 DEF At
    <3> HIDE DEF m, v
    <3>5. CASE pos + amount \in 0 .. n - 1
      BY <3>1, <3>3, <3>4, <3>5, Within
    <3>6. CASE pos + amount \notin 0 .. n - 1 /\ amount > 0
      BY <3>3, <3>4, <3>6
    <3>7. CASE pos + amount \notin 0 .. n - 1 /\ amount < 0
      <4>1. 2^WORD \in Int
        BY BitsAssumption
      <4>2. (pos + ((2^WORD + amount) % n)) % n = to
        <5> DEFINE W == 2^WORD
        <5>1. W \in Int /\ W % n = 0 /\ pos \in Int
          BY <3>1, <3>7, <4>1
        <5> HIDE DEF W, pos
        <5>2. n \in Nat \ {0}
          BY <3>1
        <5> HIDE DEF n
        <5>3. (pos + ((W + amount) % n)) % n = (pos + amount) % n
          BY <5>1, <5>2, WordRemain, Zenon
        <5> QED BY <5>3 DEF W
      <4> QED BY <3>3, <3>4, <3>7, <4>2
    <3> QED BY <1>5, <3>5, <3>6, <3>7
  <2> HIDE DEF m, v
  <2>4. Text(bits_shiftrz(b, amount)) = v
    BY <1>2, <1>3, <2>1, <2>2, Having, SameText
  <2> QED BY <2>4 DEF v, w
<1> QED BY <1>4, <1>5

\* Joined to another: the memory of the first takes the bits of the second.
LEMMA ConcatText ==
  ASSUME NEW b, Sound(b), NEW next, Sound(next)
  PROVE  LET c == bits_concatz(b, next) IN
         /\ Text(c) = Text(b) \o Text(next)
         /\ c.len = b.len + next.len /\ c.sign = b.sign
<1> DEFINE w == Text(b)
           u == Text(next)
           v == w \o u
           n == b.len + next.len
           c == bits_concatz(b, next)
<1>1. /\ b.len \in Nat /\ b.len <= Len(b.mem)
      /\ w = [k \in 1 .. b.len |-> b.mem[k]] /\ Len(w) = b.len
  BY TextIs
<1>2. /\ next.len \in Nat /\ u = [k \in 1 .. next.len |-> next.mem[k]] /\ Len(u) = next.len
  BY TextIs
<1>3. Sound(c)
  BY SoundConcat
<1>4. (\E S : w \in Seq(S)) /\ (\E S : u \in Seq(S))
  BY TextIs
<1> HIDE DEF w, u
<1>5. /\ n \in Nat /\ Filled(v, n)
      /\ \A k \in 1 .. n : v[k] = IF k <= b.len THEN w[k] ELSE u[k - b.len]
  <2>1. PICK S : w \in Seq(S)
    BY <1>4
  <2>2. PICK T : u \in Seq(T)
    BY <1>4
  <2>3. v \in Seq(S \cup T) /\ Len(v) = n
    BY <1>1, <1>2, <2>1, <2>2, Appended
  <2>4. \A k \in 1 .. n : v[k] = IF k <= b.len THEN w[k] ELSE u[k - b.len]
    BY <1>1, <1>2, <2>1, <2>2, Appended
  <2>5. n \in Nat
    BY <1>1, <1>2
  <2> HIDE DEF v, n
  <2>6. Filled(v, n)
    BY <2>3 DEF Filled
  <2> QED BY <2>4, <2>5, <2>6
<1> HIDE DEF v
<1>6. CASE next.len = 0
  <2>1. c = b
    BY <1>6 DEF bits_concatz
  <2>2. n = b.len /\ \A k \in 1 .. b.len : b.mem[k] = v[k]
    BY <1>1, <1>5, <1>6
  <2>3. Text(b) = v
    BY <1>5, <2>2, SameText
  <2> QED BY <1>1, <1>6, <2>1, <2>3 DEF v, w, u
<1>7. CASE next.len # 0
  <2> DEFINE g == Grown(b, n)
             m == [k \in DOMAIN g.mem |->
                     IF k \in b.len + 1 .. n THEN At(next, k - b.len - 1) ELSE g.mem[k]]
  <2>1. c = With(g, m)
    BY <1>7 DEF bits_concatz, With
  <2>2. /\ Sound(g) /\ g.len = n /\ g.sign = b.sign
        /\ \A k \in 1 .. b.len : g.mem[k] = b.mem[k]
    <3>1. n \in Nat /\ n >= b.len
      BY <1>1, <1>2
    <3> HIDE DEF n
    <3> QED BY <3>1, Growing
  <2> HIDE DEF g
  <2>3. DOMAIN g.mem = 1 .. Len(g.mem) /\ Len(g.mem) \in Nat /\ n <= Len(g.mem)
    BY <2>2, TextIs
  <2>4. ASSUME NEW k \in 1 .. n PROVE m[k] = v[k]
    <3>3. k \in DOMAIN g.mem
      BY <1>5, <2>3
    <3>4. v[k] = IF k <= b.len THEN w[k] ELSE u[k - b.len]
      BY <1>5
    <3>1. CASE k <= b.len
      <4>1. k \in 1 .. b.len /\ k \notin b.len + 1 .. n
        BY <1>1, <1>5, <3>1
      <4>2. m[k] = g.mem[k]
        BY <3>3, <4>1
      <4> QED BY <1>1, <2>2, <3>1, <3>4, <4>1, <4>2
    <3>2. CASE k > b.len
      <4>1. k - b.len - 1 + 1 = k - b.len /\ k - b.len \in 1 .. next.len
        BY <1>1, <1>2, <3>2
      <4>2. k \in b.len + 1 .. n
        BY <1>1, <1>5, <3>2
      <4>3. m[k] = next.mem[k - b.len - 1 + 1]
        BY <3>3, <4>2 DEF At
      <4>4. v[k] = u[k - b.len]
        BY <1>1, <3>2, <3>4
      <4> QED BY <1>2, <4>1, <4>3, <4>4
    <3> QED BY <1>1, <3>1, <3>2
  <2> HIDE DEF m
  <2>5. c.mem = m /\ c.len = n /\ c.sign = b.sign
    BY <2>1, <2>2, Having
  <2> HIDE DEF c
  <2>6. Text(c) = v
    BY <1>3, <1>5, <2>4, <2>5, SameText
  <2> QED BY <2>5, <2>6 DEF c, v, w, u
<1> QED BY <1>6, <1>7

LEMMA ZerosIs ==
  ASSUME NEW k \in Nat
  PROVE  Zeros(k) \in Seq({0}) /\ Len(Zeros(k)) = k /\ \A j \in 1 .. k : Zeros(k)[j] = 0
BY DEF Zeros

LEMMA ZerosAppended ==
  ASSUME NEW S, NEW w \in Seq(S), NEW n \in Nat
  PROVE  LET right == w \o Zeros(n)
             left == Zeros(n) \o w
         IN  /\ right \in Seq(S \cup {0}) /\ Len(right) = Len(w) + n
             /\ \A k \in 1 .. Len(w) + n :
                  right[k] = IF k <= Len(w) THEN w[k] ELSE Zeros(n)[k - Len(w)]
             /\ left \in Seq({0} \cup S) /\ Len(left) = n + Len(w)
             /\ \A k \in 1 .. n + Len(w) :
                  left[k] = IF k <= n THEN Zeros(n)[k] ELSE w[k - n]
<1> DEFINE T == {0}
           z == Zeros(n)
<1>1. z \in Seq(T) /\ Len(z) = n
  BY ZerosIs
<1> HIDE DEF T, z
<1>6. /\ w \in Seq(S \cup T) /\ z \in Seq(S \cup T)
      /\ w \in Seq(T \cup S) /\ z \in Seq(T \cup S)
  BY <1>1
<1>2. w \o z \in Seq(S \cup T) /\ Len(w \o z) = Len(w) + Len(z)
  BY <1>6
<1>3. z \o w \in Seq(T \cup S) /\ Len(z \o w) = Len(z) + Len(w)
  BY <1>6
<1>4. \A k \in 1 .. Len(w) + Len(z) :
        (w \o z)[k] = IF k <= Len(w) THEN w[k] ELSE z[k - Len(w)]
  BY <1>1
<1>5. \A k \in 1 .. Len(z) + Len(w) :
        (z \o w)[k] = IF k <= Len(z) THEN z[k] ELSE w[k - Len(z)]
  BY <1>1
<1> QED BY <1>1, <1>2, <1>3, <1>4, <1>5 DEF T, z

LEMMA GrownText ==
  ASSUME NEW b, Sound(b), NEW amount \in Nat
  PROVE  LET g == Grown(b, b.len + amount) IN
         /\ Sound(g) /\ g.len = b.len + amount
         /\ Text(g) = Text(b) \o Zeros(amount)
<1> DEFINE w == Text(b)
           n == b.len + amount
           g == Grown(b, n)
           v == w \o Zeros(amount)
<1>1. /\ b.len \in Nat /\ w = [k \in 1 .. b.len |-> b.mem[k]] /\ Len(w) = b.len
  BY TextIs
<1>2. PICK S : w \in Seq(S)
  BY TextIs
<1>3. Zeros(amount) \in Seq({0}) /\ Len(Zeros(amount)) = amount
      /\ \A j \in 1 .. amount : Zeros(amount)[j] = 0
  BY ZerosIs
<1>4. n \in Nat /\ n >= b.len
  BY <1>1
<1> HIDE DEF w, n
<1>5. /\ Sound(g) /\ g.len = n /\ DOMAIN g.mem = 1 .. Len(g.mem)
      /\ \A k \in DOMAIN g.mem : k > b.len => g.mem[k] = 0
      /\ \A k \in 1 .. b.len : g.mem[k] = b.mem[k]
  BY <1>4, Growing
<1> HIDE DEF g
<1>6. n <= Len(g.mem) /\ Len(g.mem) \in Nat
  BY <1>5, TextIs
<1>7. /\ v \in Seq(S \cup {0}) /\ Len(v) = n
      /\ \A k \in 1 .. n : v[k] = IF k <= b.len THEN w[k] ELSE Zeros(amount)[k - b.len]
  BY <1>1, <1>2, <1>3, Appended DEF n
<1> HIDE DEF v
<1>8. Filled(v, n)
  BY <1>7 DEF Filled
<1>9. ASSUME NEW k \in 1 .. n PROVE g.mem[k] = v[k]
  <2>1. CASE k <= b.len
    BY <1>1, <1>4, <1>5, <1>7, <2>1
  <2>2. CASE k > b.len
    <3>1. k - b.len \in 1 .. amount
      BY <1>1, <2>2 DEF n
    <3>2. v[k] = 0
      BY <1>1, <1>3, <1>7, <2>2, <3>1
    <3>3. g.mem[k] = 0
      BY <1>4, <1>5, <1>6, <2>2
    <3> QED BY <3>2, <3>3
  <2> QED BY <1>1, <1>4, <2>1, <2>2
<1>10. Text(g) = v
  BY <1>5, <1>8, <1>9, SameText
<1> QED BY <1>5, <1>10 DEF g, n, v, w

LEMMA SameSequence ==
  ASSUME NEW S, NEW T, NEW u \in Seq(S), NEW v \in Seq(T), Len(u) = Len(v),
         \A k \in 1 .. Len(u) : u[k] = v[k]
  PROVE  u = v
<1>1. u = [k \in 1 .. Len(u) |-> u[k]] /\ v = [k \in 1 .. Len(v) |-> v[k]]
  OBVIOUS
<1> QED BY <1>1

\* Made longer, on the right and on the left.
LEMMA LengthenText ==
  ASSUME NEW b, Sound(b), NEW amount \in Nat
  PROVE  /\ Text(bits_shiftiz(b, amount)) = Text(b) \o Zeros(amount)
         /\ Text(bits_lengthenz(b, amount)) = Padded(Text(b), amount)
<1> DEFINE w == Text(b)
           z == Zeros(amount)
           g == Grown(b, b.len + amount)
<1>1. Sound(g) /\ Text(g) = w \o z
  BY GrownText
<1>2. PICK S : w \in Seq(S)
  BY TextIs
<1>3. z \in Seq({0}) /\ Len(z) = amount /\ \A j \in 1 .. amount : z[j] = 0
  BY ZerosIs
<1>4. Len(w) \in Nat
  BY <1>2
<1> HIDE DEF w, z
<1>5. /\ w \o z \in Seq(S \cup {0}) /\ Len(w \o z) = Len(w) + amount
      /\ \A k \in 1 .. Len(w) + amount : (w \o z)[k] = IF k <= Len(w) THEN w[k] ELSE z[k - Len(w)]
  BY <1>2, ZerosAppended DEF z
<1>6. /\ z \o w \in Seq({0} \cup S) /\ Len(z \o w) = amount + Len(w)
      /\ \A k \in 1 .. amount + Len(w) : (z \o w)[k] = IF k <= amount THEN z[k] ELSE w[k - amount]
  BY <1>2, ZerosAppended DEF z
<1>7. CASE amount = 0
  <2>1. bits_shiftiz(b, amount) = b /\ bits_lengthenz(b, amount) = b
    BY <1>7 DEF bits_shiftiz, bits_lengthenz
  <2> DEFINE right == w \o z
             left == z \o w
  <2>2. /\ right \in Seq(S \cup {0}) /\ Len(right) = Len(w)
        /\ left \in Seq({0} \cup S) /\ Len(left) = Len(w)
        /\ \A k \in 1 .. Len(w) : right[k] = w[k] /\ left[k] = w[k]
    BY <1>4, <1>5, <1>6, <1>7
  <2> HIDE DEF left, right
  <2>3. right = w /\ left = w
    BY <1>2, <2>2, SameSequence
  <2> QED BY <2>1, <2>3 DEF left, right, Padded, w, z
<1>8. CASE amount # 0
  <2>1. Abs(amount) = amount /\ Abs(-amount) = amount /\ -amount # 0 /\ ~(-amount > 0) /\ amount > 0
    BY <1>8 DEF Abs
  <2>2. bits_shiftiz(b, amount) = g
    BY <2>1 DEF bits_shiftiz, bits_lengthenz
  <2>3. bits_lengthenz(b, amount) = bits_shiftz(g, -amount)
    BY <2>1 DEF bits_lengthenz
  <2>4. Text(bits_shiftz(g, -amount)) = Moved(w \o z, -amount)
    <3>1. -amount \in Int
      OBVIOUS
    <3> QED BY <1>1, <3>1, ShiftText
  <2>5. Moved(w \o z, -amount) = z \o w
    <3> DEFINE right == w \o z
               left == z \o w
               N == Len(w) + amount
    <3>1. /\ right \in Seq(S \cup {0}) /\ Len(right) = N /\ left \in Seq({0} \cup S) /\ Len(left) = N
          /\ N \in Nat
      BY <1>4, <1>5, <1>6
    <3>2. \A k \in 1 .. N : /\ right[k] = IF k <= Len(w) THEN w[k] ELSE z[k - Len(w)]
                            /\ left[k] = IF k <= amount THEN z[k] ELSE w[k - amount]
      BY <1>4, <1>5, <1>6
    <3> HIDE DEF left, right
    <3>3. DOMAIN right = 1 .. N
      BY <3>1
    <3>4. ASSUME NEW k \in 1 .. N
          PROVE  left[k] = IF k + (-amount) \in 1 .. N THEN right[k + (-amount)] ELSE 0
      <4>1. CASE k <= amount
        <5>1. k + (-amount) \notin 1 .. N
          BY <1>4, <4>1
        <5>2. left[k] = z[k] /\ k \in 1 .. amount
          BY <3>2, <4>1
        <5> QED BY <1>3, <5>1, <5>2
      <4>2. CASE k > amount
        <5>1. k + (-amount) \in 1 .. N /\ k + (-amount) <= Len(w) /\ k + (-amount) = k - amount
          BY <1>4, <4>2
        <5>2. right[k + (-amount)] = w[k - amount]
          BY <3>2, <5>1
        <5>3. left[k] = w[k - amount]
          BY <3>2, <4>2
        <5> QED BY <5>1, <5>2, <5>3
      <4> QED BY <4>1, <4>2
    <3>5. Moved(right, -amount) = left
      <4>1. left = [k \in 1 .. N |-> left[k]]
        BY <3>1
      <4>2. Moved(right, -amount)
              = [k \in 1 .. N |-> IF k + (-amount) \in 1 .. N THEN right[k + (-amount)] ELSE 0]
        BY <3>3 DEF Moved
      <4> QED BY <3>4, <4>1, <4>2
    <3> QED BY <3>5 DEF left, right
  <2> QED BY <1>1, <2>2, <2>3, <2>4, <2>5 DEF Padded, w, z
<1> QED BY <1>7, <1>8

\* Cut off on the left and on the right.
LEMMA ShortenText ==
  ASSUME NEW b, Sound(b), NEW amount \in 1 .. b.len
  PROVE  /\ Text(bits_shortenz(b, amount)) = SubSeq(Text(b), amount + 1, Len(Text(b)))
         /\ Text(bits_shiftiz(b, -amount)) = SubSeq(Text(b), 1, Len(Text(b)) - amount)
<1> DEFINE w == Text(b)
           l == b.len
<1>1. /\ l \in Nat /\ l <= Len(b.mem) /\ DOMAIN b.mem = 1 .. Len(b.mem) /\ Len(b.mem) \in Nat
      /\ w = [k \in 1 .. l |-> b.mem[k]] /\ Len(w) = l
  BY TextIs
<1>2. PICK S : w \in Seq(S)
  BY TextIs
<1> HIDE DEF w
<1>3. /\ amount \in Int /\ -amount \in Int /\ amount > 0 /\ -amount < 0
      /\ ~(-amount > 0) /\ l - amount \in Nat /\ l + (-amount) = l - amount
      /\ Abs(amount) \in 1 .. l /\ Abs(-amount) \in 1 .. l
  BY <1>1 DEF Abs
<1>4. Sound(bits_shortenz(b, amount)) /\ Sound(bits_shortenz(b, -amount))
  BY <1>3, SoundShorten
<1>5. Text(bits_shortenz(b, amount)) = SubSeq(w, amount + 1, Len(w))
  <2> DEFINE m == [k \in 1 .. Len(b.mem) |->
                     IF k <= l
                     THEN IF k - 1 + amount \in 0 .. l - 1 THEN At(b, k - 1 + amount) ELSE 0
                     ELSE 0]
             v == SubSeq(w, amount + 1, Len(w))
  <2>1. bits_shiftz(b, amount) = With(b, m)
    BY <1>1, <1>3 DEF bits_shiftz, Redrawn, With
  <2>2. /\ v \in Seq(S) /\ Len(v) = l - amount
        /\ \A k \in 1 .. l - amount : v[k] = w[k + amount]
    BY <1>1, <1>2, <1>3
  <2>3. ASSUME NEW k \in 1 .. l - amount PROVE m[k] = v[k]
    <3>1. /\ k \in 1 .. Len(b.mem) /\ k <= l /\ k - 1 + amount \in 0 .. l - 1
          /\ k - 1 + amount + 1 = k + amount /\ k + amount \in 1 .. l
      BY <1>1, <1>3
    <3> QED BY <1>1, <2>2, <3>1 DEF At
  <2> HIDE DEF m, v
  <2>4. bits_shortenz(b, amount) = Resize(b, m, l - amount)
    BY <1>3, <2>1 DEF bits_shortenz, Sound, With, Resize
  <2>5. Filled(v, l - amount)
    BY <2>2 DEF Filled
  <2>6. /\ bits_shortenz(b, amount).mem = m
        /\ bits_shortenz(b, amount).len = l - amount
    BY <2>4, Resizing
  <2>7. Text(bits_shortenz(b, amount)) = v
    BY <1>4, <2>3, <2>5, <2>6, SameText
  <2> QED BY <2>7 DEF v
<1>6. Text(bits_shortenz(b, -amount)) = SubSeq(w, 1, Len(w) - amount)
  <2> DEFINE m == [k \in 1 .. Len(b.mem) |->
                     IF k \in l + (-amount) + 1 .. l THEN 0 ELSE b.mem[k]]
             v == SubSeq(w, 1, Len(w) - amount)
  <2>1. bits_shortenz(b, -amount) = Resize(b, m, l + (-amount))
    BY <1>1, <1>3 DEF bits_shortenz, Resize
  <2>2. /\ v \in Seq(S) /\ Len(v) = l - amount /\ \A k \in 1 .. l - amount : v[k] = w[k]
    BY <1>1, <1>2, <1>3
  <2>3. ASSUME NEW k \in 1 .. l - amount PROVE m[k] = v[k]
    <3>1. k \in 1 .. Len(b.mem) /\ k \in 1 .. l /\ k \notin l + (-amount) + 1 .. l
      BY <1>1, <1>3
    <3> QED BY <1>1, <2>2, <3>1
  <2> HIDE DEF m, v
  <2>5. Filled(v, l - amount)
    BY <2>2 DEF Filled
  <2>6. /\ bits_shortenz(b, -amount).mem = m
        /\ bits_shortenz(b, -amount).len = l - amount
    BY <1>3, <2>1, Resizing
  <2>7. Text(bits_shortenz(b, -amount)) = v
    BY <1>4, <2>3, <2>5, <2>6, SameText
  <2> QED BY <2>7 DEF v
<1>7. bits_shiftiz(b, -amount) = bits_shortenz(b, -amount)
  BY <1>3 DEF bits_shiftiz
<1> QED BY <1>5, <1>6, <1>7 DEF w

\* Zeros on the left, up to n bits.
LEMMA WideIs ==
  ASSUME NEW w \in Seq(Bit), NEW n \in Nat
  PROVE  LET wide == Wide(w, n)
             more == IF Len(w) < n THEN n - Len(w) ELSE 0
         IN  /\ more \in Nat /\ Len(wide) = more + Len(w) /\ DOMAIN wide = 1 .. more + Len(w)
             /\ \A k \in 1 .. more + Len(w) : wide[k] = IF k <= more THEN 0 ELSE w[k - more]
             /\ \A k \in 1 .. more + Len(w) : wide[k] \in Bit
             /\ Len(w) >= n => wide = w
<1> DEFINE more == IF Len(w) < n THEN n - Len(w) ELSE 0
           z == Zeros(more)
           wide == z \o w
<1>1. more \in Nat /\ Len(w) \in Nat
  OBVIOUS
<1> HIDE DEF more
<1>2. z \in Seq({0}) /\ Len(z) = more /\ \A k \in 1 .. more : z[k] = 0
  BY <1>1, ZerosIs
<1> HIDE DEF z
<1>3. z \in Seq(Bit)
  BY <1>2 DEF Bit
<1>4. wide \in Seq(Bit) /\ Len(wide) = more + Len(w)
  BY <1>2, <1>3
<1>5. \A k \in 1 .. more + Len(w) : wide[k] = IF k <= more THEN z[k] ELSE w[k - more]
  BY <1>2, <1>3
<1>6. \A k \in 1 .. more + Len(w) : wide[k] = IF k <= more THEN 0 ELSE w[k - more]
  BY <1>1, <1>2, <1>5
<1> HIDE DEF wide
<1>7. DOMAIN wide = 1 .. more + Len(w) /\ \A k \in 1 .. more + Len(w) : wide[k] \in Bit
  BY <1>4
<1>8. ASSUME Len(w) >= n PROVE wide = w
  <2>1. more = 0
    BY <1>1, <1>8 DEF more
  <2>2. Len(wide) = Len(w) /\ \A k \in 1 .. Len(wide) : wide[k] = w[k]
    BY <1>1, <1>4, <1>6, <2>1
  <2> QED BY <1>4, <2>2, SameSequence
<1>9. Wide(w, n) = wide
  BY DEF Wide, Padded, wide, z, more
<1> QED BY <1>1, <1>4, <1>6, <1>7, <1>8, <1>9 DEF more

\* The bits v drawn into new memory.
LEMMA DrawnText ==
  ASSUME NEW n \in Nat, NEW v \in Seq(Bit), Len(v) = n
  PROVE  Text([bits_new(n) EXCEPT !.mem =
                 [k \in DOMAIN bits_new(n).mem |-> IF k <= n THEN v[k] ELSE 0]]) = v
<1> DEFINE c == bits_new(n)
           m == [k \in DOMAIN c.mem |-> IF k <= n THEN v[k] ELSE 0]
<1>1. Sound(c) /\ c.len = n
  BY SoundNew DEF bits_new
<1> HIDE DEF c
<1>2. DOMAIN c.mem = 1 .. Len(c.mem) /\ Len(c.mem) \in Nat /\ n <= Len(c.mem)
  BY <1>1, TextIs
<1>3. Filled(m, Len(c.mem)) /\ \A k \in 1 .. Len(c.mem) : k > c.len => m[k] = 0
  BY <1>1, <1>2 DEF Filled
<1>4. \A k \in 1 .. Len(c.mem) : m[k] \in Bit
  BY <1>2 DEF Bit
<1>5. \A k \in 1 .. n : m[k] = v[k]
  BY <1>2
<1>6. Filled(v, n)
  BY DEF Filled
<1> HIDE DEF m
<1>7. Sound(With(c, m))
  BY <1>1, <1>3, <1>4, Rewritten DEF Memory
<1>8. Text(With(c, m)) = v
  BY <1>1, <1>5, <1>6, <1>7, Having, SameText
<1> QED BY <1>8 DEF With, c, m

\* What is made of two bits.
Table(op) == \A x, y \in Bit : op[x][y] \in Bit /\ op[x][y] = op[y][x]

\* Of the first n bits of two sequences one.
Both(w, u, n, op) == [k \in 1 .. n |-> op[w[k]][u[k]]]

\* The longer string and the shorter one beside it, read from the right.
Longer(b, other, op) ==
  LET less == b.len - other.len
  IN  Redrawn(bits_new(b.len), LAMBDA pos :
        op[At(b, pos)][IF pos < less THEN 0 ELSE At(other, pos - less)])

LEMMA LongerText ==
  ASSUME NEW b, Sound(b), NEW other, Sound(other), other.len <= b.len, NEW op, Table(op)
  PROVE  Text(Longer(b, other, op)) = Both(Text(b), Wide(Text(other), b.len), b.len, op)
<1> DEFINE n == b.len
           l == other.len
           less == n - l
           w == Text(b)
           u == Text(other)
           beside == Wide(u, n)
           v == [k \in 1 .. n |-> op[w[k]][beside[k]]]
           f(pos) == op[At(b, pos)][IF pos < less THEN 0 ELSE At(other, pos - less)]
           c == bits_new(n)
           m == [k \in DOMAIN c.mem |-> IF k <= c.len THEN f(k - 1) ELSE 0]
           d == [k \in DOMAIN c.mem |-> IF k <= n THEN v[k] ELSE 0]
<1>1. n \in Nat /\ w = [k \in 1 .. n |-> b.mem[k]] /\ w \in Seq(Bit)
  BY TextIs
<1>2. l \in Nat /\ u = [k \in 1 .. l |-> other.mem[k]] /\ u \in Seq(Bit) /\ Len(u) = l
  BY TextIs
<1>3. \A k \in 0 .. n - 1 : At(b, k) \in Bit
  BY TextIs
<1>4. less \in Nat /\ l <= n
  BY <1>1, <1>2
<1> HIDE DEF w, u, n, l
<1>5. /\ \A k \in 1 .. n : beside[k] = IF k <= less THEN 0 ELSE u[k - less]
      /\ \A k \in 1 .. n : beside[k] \in Bit
  <2>1. (IF Len(u) < n THEN n - Len(u) ELSE 0) = less /\ less + Len(u) = n
    BY <1>1, <1>2, <1>4
  <2> DEFINE more == IF Len(u) < n THEN n - Len(u) ELSE 0
  <2>2. /\ \A k \in 1 .. more + Len(u) : beside[k] = IF k <= more THEN 0 ELSE u[k - more]
        /\ \A k \in 1 .. more + Len(u) : beside[k] \in Bit
    BY <1>1, <1>2, WideIs
  <2>3. more = less /\ more + Len(u) = n
    BY <2>1
  <2> HIDE DEF more, less, beside
  <2> QED BY <2>2, <2>3
<1> HIDE DEF beside
<1>6. ASSUME NEW k \in 1 .. n PROVE f(k - 1) = v[k] /\ v[k] \in Bit
  <2>1. At(b, k - 1) = w[k] /\ w[k] \in Bit
    <3>1. k - 1 + 1 = k /\ k - 1 \in 0 .. n - 1
      BY <1>1
    <3>2. At(b, k - 1) = w[k]
      BY <1>1, <3>1 DEF At
    <3> QED BY <1>3, <3>1, <3>2
  <2>2. (IF k - 1 < less THEN 0 ELSE At(other, k - 1 - less)) = beside[k]
    <3>1. CASE k <= less
      BY <1>1, <1>4, <1>5, <3>1
    <3>2. CASE k > less
      <4>1. k - 1 - less + 1 = k - less /\ k - less \in 1 .. l /\ ~(k - 1 < less) /\ ~(k <= less)
        BY <1>1, <1>2, <1>4, <3>2
      <4> HIDE DEF less
      <4>2. At(other, k - 1 - less) = u[k - less]
        BY <1>2, <4>1 DEF At
      <4> QED BY <1>5, <4>1, <4>2
    <3> QED BY <1>1, <1>4, <3>1, <3>2
  <2>3. f(k - 1) = op[w[k]][beside[k]]
    BY <2>1, <2>2
  <2>4. v[k] = op[w[k]][beside[k]]
    OBVIOUS
  <2> HIDE DEF f, v
  <2> QED BY <1>5, <2>1, <2>3, <2>4 DEF Table
<1>7. Longer(b, other, op) = [c EXCEPT !.mem = m]
  BY DEF Longer, Redrawn, less, n, l
<1>8. v \in Seq(Bit) /\ Len(v) = n
  <2>1. \A k \in 1 .. n : v[k] \in Bit
    BY <1>6
  <2>2. v \in [1 .. n -> Bit]
    BY <2>1
  <2> HIDE DEF v
  <2> QED BY <1>1, <2>2
<1>9. c.len = n /\ DOMAIN c.mem = 1 .. Len(c.mem) /\ Len(c.mem) \in Nat
  BY <1>1, SoundNew, TextIs DEF bits_new
<1> HIDE DEF f, v, c
<1>10. m = d
  <2>1. \A k \in DOMAIN c.mem : k <= n => k \in 1 .. n
    BY <1>1, <1>9
  <2>2. \A k \in DOMAIN c.mem : (IF k <= c.len THEN f(k - 1) ELSE 0) = (IF k <= n THEN v[k] ELSE 0)
    BY <1>6, <1>9, <2>1
  <2> QED BY <2>2
<1>11. Text([c EXCEPT !.mem = d]) = v
  BY <1>1, <1>8, DrawnText DEF c
<1> HIDE DEF m, d
<1>12. Text(Longer(b, other, op)) = v
  BY <1>7, <1>10, <1>11
<1>13. v = Both(w, beside, n, op)
  BY DEF v, Both
<1> QED BY <1>12, <1>13 DEF w, u, beside, n

\* Of the bits of two strings one.
LEMMA BitwiseText ==
  ASSUME NEW b, Sound(b), NEW other, Sound(other), NEW op, Table(op)
  PROVE  LET wide == Wide(Text(b), Len(Text(other)))
             beside == Wide(Text(other), Len(Text(b)))
         IN  Text(bits_bitwise(b, other, op)) = [k \in DOMAIN wide |-> op[wide[k]][beside[k]]]
<1> DEFINE w == Text(b)
           u == Text(other)
           wide == Wide(w, Len(u))
           beside == Wide(u, Len(w))
<1>1. b.len \in Nat /\ Len(w) = b.len /\ w \in Seq(Bit) /\ DOMAIN w = 1 .. b.len
  BY TextIs
<1>2. other.len \in Nat /\ Len(u) = other.len /\ u \in Seq(Bit) /\ DOMAIN u = 1 .. other.len
  BY TextIs
<1> HIDE DEF w, u
<1>3. CASE b.len > other.len
  <2>1. bits_bitwise(b, other, op) = Longer(b, other, op)
    BY <1>3 DEF bits_bitwise, Longer, Redrawn
  <2>2. wide = w
    BY <1>1, <1>2, <1>3, WideIs
  <2>3. other.len <= b.len
    BY <1>1, <1>2, <1>3
  <2>4. Text(bits_bitwise(b, other, op)) = [k \in 1 .. b.len |-> op[w[k]][beside[k]]]
    <3>1. Text(bits_bitwise(b, other, op)) = Both(w, Wide(u, b.len), b.len, op)
      BY <2>1, <2>3, LongerText DEF w, u
    <3> QED BY <1>1, <3>1 DEF Both
  <2> HIDE DEF wide, beside
  <2> QED BY <1>1, <2>2, <2>4 DEF w, u, wide, beside
<1>4. CASE ~(b.len > other.len)
  <2>1. bits_bitwise(b, other, op) = Longer(other, b, op)
    BY <1>4 DEF bits_bitwise, Longer, Redrawn
  <2>2. beside = u
    BY <1>1, <1>2, <1>4, WideIs
  <2>3. b.len <= other.len
    BY <1>1, <1>2, <1>4
  <2>4. Text(bits_bitwise(b, other, op)) = [k \in 1 .. other.len |-> op[u[k]][wide[k]]]
    <3>1. Text(bits_bitwise(b, other, op)) = Both(u, Wide(w, other.len), other.len, op)
      BY <2>1, <2>3, LongerText DEF w, u
    <3> QED BY <1>2, <3>1 DEF Both
  <2>5. DOMAIN wide = 1 .. other.len /\ \A k \in 1 .. other.len : wide[k] \in Bit
    <3>1. (IF Len(w) < Len(u) THEN Len(u) - Len(w) ELSE 0) + Len(w) = other.len
      BY <1>1, <1>2, <2>3
    <3> QED BY <1>1, <1>2, <3>1, WideIs
  <2>6. \A k \in 1 .. other.len : u[k] \in Bit
    BY <1>2
  <2> HIDE DEF wide, beside
  <2>7. \A k \in 1 .. other.len : op[u[k]][wide[k]] = op[wide[k]][beside[k]]
    BY <2>2, <2>5, <2>6 DEF Table
  <2> QED BY <2>4, <2>5, <2>7 DEF w, u, wide, beside
<1> QED BY <1>3, <1>4

LEMMA Tables == Table(Or) /\ Table(And)
<1>1. /\ \A x, y \in {0, 1} : Or[x][y] = IF x + y > 0 THEN 1 ELSE 0
      /\ \A x, y \in {0, 1} : And[x][y] = x * y
  BY DEF Or, And, Bit
<1>2. /\ \A x \in {0, 1} : x * 0 = 0 /\ 0 * x = 0
      /\ 1 * 1 = 1
  OBVIOUS
<1>3. /\ Or[0][0] = 0 /\ Or[0][1] = 1 /\ Or[1][0] = 1 /\ Or[1][1] = 1
      /\ And[0][0] = 0 /\ And[0][1] = 0 /\ And[1][0] = 0 /\ And[1][1] = 1
  BY <1>1, <1>2
<1> QED BY <1>3 DEF Table, Bit

\* Bits that are read: as they are, without a sign.
LEMMA ReadText ==
  ASSUME NEW w \in Seq(Bit)
  PROVE  LET c == bits_from_bin(w) IN
         Sound(c) /\ Text(c) = w /\ c.len = Len(w) /\ c.sign = FALSE
<1> DEFINE c == bits_new(Len(w))
           m == [k \in DOMAIN c.mem |-> IF k <= Len(w) /\ w[k] = 1 THEN 1 ELSE 0]
<1>1. Len(w) \in Nat /\ w = [k \in 1 .. Len(w) |-> w[k]] /\ \A k \in 1 .. Len(w) : w[k] \in Bit
  OBVIOUS
<1>2. Sound(c) /\ c.len = Len(w)
  BY <1>1, SoundNew DEF bits_new
<1>3. c.sign = FALSE
  BY DEF bits_new
<1>4. bits_from_bin(w) = With(c, m)
  BY DEF bits_from_bin, With
<1>5. Sound(bits_from_bin(w))
  BY SoundRead
<1>6. DOMAIN c.mem = 1 .. Len(c.mem) /\ Len(w) <= Len(c.mem) /\ Len(c.mem) \in Nat
  BY <1>2, TextIs
<1> HIDE DEF c
<1>7. \A k \in 1 .. Len(w) : m[k] = w[k]
  BY <1>1, <1>6 DEF Bit
<1> HIDE DEF m
<1>8. Text(With(c, m)) = w
  BY <1>1, <1>2, <1>4, <1>5, <1>7, Having, SameText DEF Filled
<1>9. With(c, m).len = Len(w) /\ With(c, m).sign = FALSE
  BY <1>2, <1>3, Having
<1> QED BY <1>4, <1>5, <1>8, <1>9

\* A sign is kept, so that strings of the same bits may differ.
LEMMA JoinedSign ==
  ASSUME NEW b, Sound(b), NEW o, Sound(o)
  PROVE  bits_eq(bits_concatz(b, o), bits_concatz(bits_from_bin(Text(b)), o)) <=> ~b.sign
<1> DEFINE c == bits_from_bin(Text(b))
           d == bits_concatz(b, o)
           e == bits_concatz(c, o)
<1>1. Text(b) \in Seq(Bit) /\ Len(Text(b)) = b.len
  BY TextIs
<1>2. Sound(c) /\ Text(c) = Text(b) /\ c.len = b.len /\ c.sign = FALSE
  BY <1>1, ReadText
<1> HIDE DEF c
<1>3. Text(d) = Text(b) \o Text(o) /\ d.len = b.len + o.len /\ d.sign = b.sign
  BY ConcatText
<1>4. Text(e) = Text(b) \o Text(o) /\ e.len = b.len + o.len /\ e.sign = FALSE
  BY <1>2, ConcatText
<1>5. b.sign \in BOOLEAN
  BY DEF Sound
<1> HIDE DEF d, e
<1>6. bits_eq(d, e) <=> b.sign = FALSE
  BY <1>3, <1>4 DEF bits_eq
<1> QED BY <1>5, <1>6 DEF c, d, e

------------------------------------------------------------------------------

\* Memory stays cleared behind the bits of the string.
LEMMA StaysSound ==
  /\ Init => Sound(bits)
  /\ Sound(bits) /\ [Next]_bits => Sound(bits)'
<1>1. Init => Sound(bits)
  BY BitsAssumption, SoundNew, SoundDrawn DEF Init
<1>2. Sound(bits) /\ [Next]_bits => Sound(bits)'
  <2> SUFFICES ASSUME Sound(bits), [Next]_bits PROVE Sound(bits')
    BY DEF Sound
  <2>1. CASE Concat
    BY <2>1, SoundOperand, SoundConcat DEF Concat
  <2>2. CASE Copy
    BY <2>2, SoundOperand, SoundCopy DEF Copy
  <2>3. CASE Invert
    BY <2>3, SoundInvert DEF Invert
  <2>4. bits.len \in Nat /\ MaxLen \in Int
    BY BitsAssumption DEF Sound
  <2>5. CASE Shift
    BY <2>4, <2>5, SoundShift DEF Shift
  <2>6. CASE Lengthen
    BY <2>4, <2>6, SoundLengthen DEF Lengthen
  <2>7. CASE Shorten
    BY <2>4, <2>7, SoundShorten DEF Shorten, Abs
  <2>8. CASE UNCHANGED bits
    BY <2>8
  <2> QED BY <2>1, <2>2, <2>3, <2>5, <2>6, <2>7, <2>8 DEF Next
<1> QED BY <1>1, <1>2

\* Whatever calls were made on a string, its hash is one of its bits: bits.c
\* clears the memory it takes and the bits it cuts off, and hashes whole bytes.
THEOREM HashIsOfBits == Spec => []HashesText
<1>1. Sound(bits) => HashesText
  BY Hashing DEF HashesText
<1> QED BY <1>1, StaysSound, PTL DEF Spec

\* Whatever calls were made on a string, each call of bits.c that inverts,
\* turns round, joins, combines, moves, lengthens or cuts it does to the bits
\* what it does to a sequence of them, and a string that is joined keeps its
\* sign; a negative rotation for the lengths that divide a word.
THEOREM CallsDoAsTheySay == Spec => []CallsAgree
<1>1. ASSUME Sound(bits) PROVE CallsAgree
  <2> USE <1>1
  <2> DEFINE w == Text(bits)
  <2>1. bits.len \in Nat /\ Len(w) = bits.len /\ MaxLen \in Int
    BY TextIs, BitsAssumption
  <2>2. Inverts
    BY InvertText DEF Inverts
  <2>3. Joins
    <3> SUFFICES ASSUME NEW o \in Operands
                 PROVE  /\ Text(bits_concatz(bits, o)) = w \o Text(o)
                        /\ Text(bits_concatz(o, bits)) = Text(o) \o w
                        /\ bits_eq(bits_concatz(bits, o), bits_concatz(bits_from_bin(w), o))
                             <=> ~bits.sign
      BY DEF Joins
    <3>1. Sound(o)
      BY SoundOperand
    <3> QED BY <3>1, ConcatText, JoinedSign
  <2>4. Combines
    <3> SUFFICES ASSUME NEW o \in Operands
                 PROVE  LET v == Text(o)
                            wide == Wide(w, Len(v))
                            beside == Wide(v, Len(w))
                        IN  /\ Text(bits_bitwise(bits, o, Or))
                                 = [k \in DOMAIN wide |-> Or[wide[k]][beside[k]]]
                            /\ Text(bits_bitwise(o, bits, And))
                                 = [k \in DOMAIN wide |-> And[wide[k]][beside[k]]]
      BY DEF Combines
    <3> DEFINE v == Text(o)
               wide == Wide(w, Len(v))
               beside == Wide(v, Len(w))
    <3>1. Sound(o)
      BY SoundOperand
    <3>2. Text(bits_bitwise(bits, o, Or)) = [k \in DOMAIN wide |-> Or[wide[k]][beside[k]]]
      BY <3>1, BitwiseText, Tables
    <3>3. Text(bits_bitwise(o, bits, And)) = [k \in DOMAIN beside |-> And[beside[k]][wide[k]]]
      BY <3>1, BitwiseText, Tables
    <3>4. /\ DOMAIN wide = DOMAIN beside
          /\ \A k \in DOMAIN wide : wide[k] \in Bit /\ beside[k] \in Bit
      <4>1. w \in Seq(Bit) /\ v \in Seq(Bit)
        BY <3>1, TextIs
      <4> HIDE DEF w, v
      <4> DEFINE more == IF Len(w) < Len(v) THEN Len(v) - Len(w) ELSE 0
                 less == IF Len(v) < Len(w) THEN Len(w) - Len(v) ELSE 0
      <4>2. Len(w) \in Nat /\ Len(v) \in Nat
        BY <4>1
      <4>3. DOMAIN wide = 1 .. more + Len(w) /\ \A k \in 1 .. more + Len(w) : wide[k] \in Bit
        BY <4>1, <4>2, WideIs
      <4>4. DOMAIN beside = 1 .. less + Len(v) /\ \A k \in 1 .. less + Len(v) : beside[k] \in Bit
        BY <4>1, <4>2, WideIs
      <4>5. more + Len(w) = less + Len(v)
        BY <4>2
      <4> HIDE DEF wide, beside, more, less
      <4> QED BY <4>3, <4>4, <4>5
    <3> HIDE DEF wide, beside
    <3>5. \A k \in DOMAIN wide : And[beside[k]][wide[k]] = And[wide[k]][beside[k]]
      BY <3>4, Tables DEF Table
    <3>6. [k \in DOMAIN beside |-> And[beside[k]][wide[k]]]
            = [k \in DOMAIN wide |-> And[wide[k]][beside[k]]]
      BY <3>4, <3>5
    <3> QED BY <3>2, <3>3, <3>6 DEF wide, beside
  <2>5. Shifts
    BY <2>1, ShiftText, RotateText DEF Shifts
  <2>6. Stretches
    <3> SUFFICES ASSUME NEW amount \in 0 .. MaxLen
                 PROVE  /\ Text(bits_shiftiz(bits, amount)) = w \o Zeros(amount)
                        /\ Text(bits_lengthenz(bits, amount)) = Padded(w, amount)
                        /\ amount \in 1 .. Len(w) =>
                             /\ Text(bits_shortenz(bits, amount)) = SubSeq(w, amount + 1, Len(w))
                             /\ Text(bits_shiftiz(bits, -amount)) = SubSeq(w, 1, Len(w) - amount)
      BY DEF Stretches
    <3>1. amount \in Nat
      BY <2>1
    <3>2. amount \in 1 .. Len(w) => amount \in 1 .. bits.len
      BY <2>1
    <3>3. /\ Text(bits_shiftiz(bits, amount)) = w \o Zeros(amount)
          /\ Text(bits_lengthenz(bits, amount)) = Padded(w, amount)
      BY <3>1, LengthenText
    <3>4. ASSUME amount \in 1 .. bits.len
          PROVE  /\ Text(bits_shortenz(bits, amount)) = SubSeq(w, amount + 1, Len(w))
                 /\ Text(bits_shiftiz(bits, -amount)) = SubSeq(w, 1, Len(w) - amount)
      BY <3>4, ShortenText
    <3> QED BY <3>2, <3>3, <3>4
  <2> QED BY <2>2, <2>3, <2>4, <2>5, <2>6 DEF CallsAgree
<1> QED BY <1>1, StaysSound, PTL DEF Spec

================================================================================
