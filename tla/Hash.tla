-------------------------------- MODULE Hash --------------------------------
(***************************************************************************)
(* The hash functions of libzero (zero/hash.c, zero/hash.h).  The mixers   *)
(* multiply by odd constants and fold the upper half of a word into the    *)
(* lower; they are taken at a width of Bits, with the shifts in proportion *)
(* and the constants cut to it (they are written by their lower bits).     *)
(* Of the functions on strings it matters which bytes they read: the       *)
(* mixing of what is read is left out.                                     *)
(***************************************************************************)
EXTENDS Naturals, FiniteSets
LOCAL INSTANCE Bitwise

CONSTANTS HashBits,     \* width of a word, even
          KeyLengths,  \* the lengths of the keys that are hashed
          Primes    \* exponents s of the Mersenne primes 2^s - 1

ASSUME HashAssumption ==
    HashBits \in Nat \ {0} /\ HashBits % 2 = 0 /\ KeyLengths \subseteq Nat /\ Primes \subseteq Nat \ {0}

VARIABLES hashcall,  \* the word, the length or the number and prime
          hashed  \* what it is hashed to, the bytes read or the remainder

hashvars == <<hashcall, hashed>>

HashWords == 0 .. 2 ^ HashBits - 1
Times(a, b) == (a * (b % 2 ^ HashBits)) % 2 ^ HashBits
Fold(u, k) == u ^^ (u \div 2 ^ k)
HalfBits == HashBits \div 2
Of64(k) == (k * HashBits) \div 64
Of32(k) == (k * HashBits) \div 32
---------------------------------------------------------------------------
(* The mixers of words.                                                    *)

dkhash(u) == Times(u, 238516657)

\* tmhash32 is the same.
tmhash2(u) == Fold(Times(Fold(Times(Fold(u, HalfBits), 73244475), HalfBits), 73244475), HalfBits)

tmunhash2(u) == Fold(Times(Fold(Times(Fold(u, HalfBits), 295559667), HalfBits), 295559667), HalfBits)

tmhash64(u) ==
    Fold(Times(Fold(Times(Fold(u, Of64(30)), 216327609), Of64(27)), 53547499), Of64(31))

MurmurHash3Mixer(u) ==
    Fold(Times(Fold(Times(Fold(u, Of64(33)), 223710413), Of64(33)), 176548947), Of64(33))

hashint32(key) ==
    Fold(Times(Fold(Times(Fold(key, Of32(16)), 99338859), Of32(13)), 45264437), Of32(16))

Mixers == {"dkhash", "tmhash2", "tmhash64", "MurmurHash3Mixer", "hashint32"}
Mixed(f, u) ==
    CASE f = "dkhash" -> dkhash(u)
      [] f = "tmhash2" -> tmhash2(u)
      [] f = "tmhash64" -> tmhash64(u)
      [] f = "MurmurHash3Mixer" -> MurmurHash3Mixer(u)
      [] f = "hashint32" -> hashint32(u)
---------------------------------------------------------------------------
(* The bytes that are read of a key of len bytes.                          *)

\* Up to three bytes: the middle one, the first and the last.
hashloadu24(at, len) == {at, at + len \div 2, at + len - 1}
hashloadu32(at) == at .. at + 3

\* What is left after whole blocks is read with the bytes before it.
FanomLast(at, len) == hashloadu32(at + len - 8) \cup hashloadu32(at + len - 4)

fanom32permstr(len) ==
    CASE len = 0 -> {}
      [] len \in 1 .. 3 -> hashloadu24(0, len)
      [] len = 4 -> hashloadu32(0)
      [] len \in 5 .. 7 -> hashloadu32(0) \cup hashloadu24(4, len % 4)
      [] len = 8 -> hashloadu32(0) \cup hashloadu32(4)
      [] OTHER -> LET blocks == (len - 1) \div 8
                  IN  UNION {hashloadu32(8 * k) \cup hashloadu32(8 * k + 4) : k \in 0 .. blocks - 1}
                      \cup FanomLast(8 * blocks, len - 8 * blocks)

\* Words, a half word and a byte.
FNV1A_Hash_WHIZ(len) ==
    LET words == 4 * (len \div 4)
        half == IF len % 4 >= 2 THEN {words, words + 1} ELSE {}
        byte == IF len % 2 = 1 THEN {words + Cardinality(half)} ELSE {}
    IN  (0 .. words - 1) \cup half \cup byte

\* Strings, of which len is the place of the zero: hashpjw reads up to it, pphash
\* no more than two characters.
hashpjw(len) == 0 .. len
pphash(len) == IF len = 0 THEN {0} ELSE {0, 1}

\* A key of eight bytes is the pointer itself; for four there is nothing written,
\* and any other length is not looked at: the key is a string.
razohash(len) == IF len \in {4, 8} THEN {} ELSE 0 .. len
---------------------------------------------------------------------------
\* k % p for the Mersenne prime p = 2^s - 1.
mprimod(k, s) ==
    LET p == 2 ^ s - 1
        i == (k % 2 ^ s) + (k \div 2 ^ s)
    IN  IF i >= p THEN i - p ELSE i

HashInit ==
    /\ \/ hashcall \in [op : {"mix"}, u : HashWords]
       \/ hashcall \in [op : {"read"}, len : KeyLengths]
       \/ \E s \in Primes : hashcall \in [op : {"mod"}, s : {s}, k : 0 .. 2 ^ (2 * s) - 1]
    /\ hashed = <<>>

HashReturn ==
    /\ hashed = <<>>
    /\ hashed' = CASE hashcall.op = "mix" -> [f \in Mixers |-> Mixed(f, hashcall.u)]
                   [] hashcall.op = "read" -> <<fanom32permstr(hashcall.len), FNV1A_Hash_WHIZ(hashcall.len),
                                                       hashpjw(hashcall.len), pphash(hashcall.len), razohash(hashcall.len)>>
                   [] hashcall.op = "mod" -> <<mprimod(hashcall.k, hashcall.s)>>
    /\ UNCHANGED hashcall

HashSpec == HashInit /\ [][HashReturn]_hashvars
---------------------------------------------------------------------------
Images == [f \in Mixers |-> {Mixed(f, u) : u \in HashWords}]

\* No two words are hashed to the same one, and tmunhash2 finds the word that
\* tmhash2 hashed.
HashesApart ==
    hashcall.op = "mix" /\ hashed # <<>> =>
        /\ tmunhash2(hashed["tmhash2"]) = hashcall.u
        /\ \A f \in Mixers : Cardinality(Images[f]) = 2 ^ HashBits

\* Every byte of a key is read, and none behind or before it, for all lengths
\* around the sizes of words and blocks; of a string nothing is read behind its zero.
KeyRead ==
    hashcall.op = "read" /\ hashed # <<>> =>
        /\ \A k \in 1 .. 2 : hashed[k] = 0 .. hashcall.len - 1
        /\ \A k \in 3 .. 5 : hashed[k] \subseteq 0 .. hashcall.len

\* The remainder by a Mersenne prime, for all numbers below its square's words
\* but the last.
RemainderBelow ==
    hashcall.op = "mod" /\ hashed # <<>> /\ hashcall.k < 2 ^ (2 * hashcall.s) - 1 =>
        hashed[1] = hashcall.k % (2 ^ hashcall.s - 1)

=============================================================================
