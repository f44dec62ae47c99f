---------------------------------- MODULE Seeds --------------------------------
(***************************************************************************)
(* From a seed to the parameters of a curve: the hashing of ANSI X9.62 and *)
(* of Brainpool, on bit strings.  A hash has HASH bits, 160 there.         *)
(***************************************************************************)
EXTENDS Bits
LOCAL INSTANCE SequencesExt

HASH == BYTE

\* Some function of the bytes it is given.
bits_sha1(b) == Low((7 * Value(Hashed(b)) + 3 * Len(Hashed(b)) + 5) % 2^HASH, HASH)

\* The bits of strings f(1) to f(n), one after the other.
Blocks(f(_), n) == FlattenSeq([i \in 1 .. n |-> f(i)])

------------------------------------------------------------------------------
(* Brainpool, for a field of L bits.                                         *)

seed_v(L) == (L - 1) \div HASH
seed_w(L) == L - HASH * seed_v(L) - 1

brainpool_update_seed(s) ==
  bits_cpy(s, bits_from_i_len((bits_to_i(s) + 1) % 2^HASH, HASH))

brainpool_hash(s, w, v) ==
  LET block(i) == bits_sha1(bits_from_i_len((bits_to_i(s) + i) % 2^HASH, HASH))
      result == bits_shortenz(bits_from_bin(bits_sha1(s)), HASH - w)
  IN  bits_concatz(result, bits_from_bin(Blocks(block, v)))

------------------------------------------------------------------------------
(* ANSI X9.62, for a field of t bits.                                        *)

seed_s(t) == (t - 1) \div HASH
seed_h(t) == t - seed_s(t) * HASH

\* Fault: leading zeros are lost before hashing.
seed_process_short(seed, s, first) ==
  bits_concatz(first, bits_from_bin(Blocks(LAMBDA i :
    bits_sha1(bits_from_i((bits_to_i(seed) + i) % 2^seed.len)), s)))

seed_process(seed, s, first) ==
  LET inner(i) == bits_from_i((bits_to_i(seed) + i) % 2^seed.len)
      block(i) == bits_sha1(bits_lengthenz(inner(i), seed.len - inner(i).len))
  IN  bits_concatz(first, bits_from_bin(Blocks(block, s)))

\* The last h bits of the hash.
First(seed, t) == bits_shortenz(bits_from_bin(bits_sha1(seed)), HASH - seed_h(t))

\* r of a prime field: the first bit is cleared.
ansi_gen_equation_fp(seed, t) ==
  LET c0 == First(seed, t)
      W == seed_process(seed, seed_s(t), [c0 EXCEPT !.mem = <<0>> \o Tail(@)])
  IN  FoldLeft(LAMBDA r, i : r + At(W, i - 1) * 2^(t - i), 0, [i \in 1 .. t |-> i])

\* b of a binary field; of 0 the engine is sent back to another seed.
ansi_gen_equation_f2m(seed, t) == bits_to_i(seed_process(seed, seed_s(t), First(seed, t)))

------------------------------------------------------------------------------
(* Properties.                                                               *)

\* The hash of z as a string of n bits, whatever z has itself.
HashOf(z, n) == bits_sha1(bits_from_bin(Low(z % 2^n, n)))

LastBits(w, n) == SubSeq(w, Len(w) - n + 1, Len(w))

\* For a field of L bits and every seed, the all-ones one after which counting
\* starts again from 0 among them: Brainpool's p is of L bits, and its a and b
\* are of L - 1, ANSI's r is below 2^(L - 1) and its b is of L bits, and each is
\* the end of the seed's hash and the hashes of the numbers after the seed, of
\* as many bits as the seed has.
SeedsExact(L) ==
  \A n \in {HASH, HASH + 1, 2 * HASH} : \A z \in {0, 1, 5} \cup (2^n - 3 .. 2^n - 1) :
    LET seed == bits_from_bin(Low(z, n))
        hash(w, v) == LastBits(HashOf(z, n), w) \o Blocks(LAMBDA i : HashOf(z + i, n), v)
    IN  /\ n = HASH =>
             /\ \A w \in {seed_w(L), seed_w(L) + 1} :
                  Text(brainpool_hash(seed, w, seed_v(L))) = hash(w, seed_v(L))
             /\ Len(hash(seed_w(L), seed_v(L))) = L - 1
             /\ bits_eq(brainpool_update_seed(seed), bits_from_bin(Low((z + 1) % 2^n, n)))
        /\ Len(hash(seed_h(L), seed_s(L))) = L
        /\ ansi_gen_equation_f2m(seed, L) = Value(hash(seed_h(L), seed_s(L)))
        /\ ansi_gen_equation_fp(seed, L) =
             Value(hash(seed_h(L), seed_s(L))) % 2^(L - 1)
================================================================================
