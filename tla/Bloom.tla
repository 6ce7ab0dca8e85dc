-------------------------------- MODULE Bloom --------------------------------
(***************************************************************************)
(* The Bloom filter of src/src/sstable/bloom.rs: its sizing, the double    *)
(* hashing that turns a key's 128-bit hash into probe bits, insertion,     *)
(* lookup, and the checks with which a stored filter is accepted.          *)
(*                                                                         *)
(* The bit array is the set of the indices that are set, with its length   *)
(* in bytes beside it.  The widths of u32 and u64 are parameters: TLC's    *)
(* integers are narrower than either.                                      *)
(***************************************************************************)
EXTENDS Integers

CONSTANTS
  LowHash, HighHash,  \* each key's xxh3_128, split into its two halves
  U32, U64            \* how many values a u32 and a u64 have

ASSUME BloomAssumption ==
  /\ U32 \in Nat \ {0} /\ U64 \in Nat \ {0}
  /\ \A k \in DOMAIN LowHash : LowHash[k] \in 0 .. U64 - 1 /\ HighHash[k] \in 0 .. U64 - 1

LOCAL Larger(a, b) == IF a >= b THEN a ELSE b
LOCAL Clamp(n, lo, hi) == IF n < lo THEN lo ELSE IF n > hi THEN hi ELSE n

\* round(m / n * ln 2), with ln 2 to three places.
BestHashes(m, n) == (2 * m * 693 + n * 1000) \div (2 * n * 1000)

\* Mutant of NewFilter: the bits are not rounded up to whole bytes.
NewFilterUnrounded(expectedKeys, bitsPerKey) ==
  LET n == Larger(expectedKeys, 1)
      targetBits == Larger(n * bitsPerKey, 64)
  IN  [bits |-> {}, numBytes |-> (targetBits + 7) \div 8, numBits |-> targetBits % U32,
       numHashes |-> Clamp(BestHashes(targetBits % U32, n), 1, 30)]

\* BloomFilter::new; `as u32` keeps the low bits of the count.
NewFilter(expectedKeys, bitsPerKey) ==
  LET n == Larger(expectedKeys, 1)
      numBytes == (Larger(n * bitsPerKey, 64) + 7) \div 8
      numBits == (numBytes * 8) % U32
  IN  [bits |-> {}, numBytes |-> numBytes, numBits |-> numBits,
       numHashes |-> Clamp(BestHashes(numBits, n), 1, 30)]

\* hashes: the step is reduced to 1 .. m - 1, so that probes do not coincide.
Step(f, k) == (HighHash[k] % (f.numBits - 1)) + 1

\* probes: h1 + i * h2 in wrapping arithmetic, modulo the number of bits.
Probes(f, k) ==
  {((LowHash[k] + ((i * Step(f, k)) % U64)) % U64) % f.numBits : i \in 0 .. f.numHashes - 1}

InsertKey(f, k) == [f EXCEPT !.bits = @ \cup Probes(f, k)]

MayContain(f, k) == Probes(f, k) \subseteq f.bits

\* decode: the fields of encode, refused unless they fit each other.
Decodes(f) ==
  /\ f.numBits # 0 /\ f.numBits % 8 = 0
  /\ f.numHashes # 0
  /\ f.numBits \div 8 = f.numBytes
==============================================================================
