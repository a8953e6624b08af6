------------------------------ MODULE VelhoBits ------------------------------
(***************************************************************************)
(* Words of 32 bits in the development tree (velho/bit.h, velho/divc.h):   *)
(* scans and counts by tables of bytes and by a product, and divisions by  *)
(* a product with a magic number; with the counts of zen/bitop.h and the   *)
(* shifts of the v0 machine (v0/shift.h).                                  *)
(*                                                                         *)
(* A word that is scanned is the set of its one-bits, as in Trix.  One     *)
(* that is divided has all 32 bits, beyond TLC's integers: it is a pair of *)
(* half words, and the product is done byte by byte.                       *)
(***************************************************************************)
EXTENDS BitTricks, TLC

CONSTANTS HalfPairs,   \* the words divided, <<high half, low half>>
          Counts       \* by how much the machine shifts

ASSUME VelhoAssumption ==
    HalfPairs \subseteq (0 .. 65535) \X (0 .. 65535) /\ Counts \subseteq 0 .. 31

VARIABLES velhocall,   \* the operation and its operands
          velhoret     \* what it returned

velhovars == <<velhocall, velhoret>>
---------------------------------------------------------------------------
\* What the generator prints for the byte num, from the builtins.
ByteBitsOf(num) == {i \in 0 .. 7 : (num \div 2 ^ i) % 2 = 1}
genparu8(num) == Cardinality(ByteBitsOf(num)) % 2
genclzu32(num) == IF num = 0 THEN 8 ELSE lzero32(ByteBitsOf(num)) - 24
genctzu32(num) == IF num = 0 THEN 8 ELSE tzero32(ByteBitsOf(num))
genhamu32(num) == Cardinality(ByteBitsOf(num))

bitparu8lut == [num \in 0 .. 255 |-> genparu8(num)]
bitclzu32lut == [num \in 0 .. 255 |-> genclzu32(num)]
bitctzu32lut == [num \in 0 .. 255 |-> genctzu32(num)]
bithamu32lut == [num \in 0 .. 255 |-> genhamu32(num)]

\* The place of a bit, from the five bits that the product has on top.
bitctzu32tab ==
    <<31, 0, 27, 1, 28, 13, 23, 2, 29, 21, 19, 14, 24, 16, 3, 7,
      30, 26, 12, 22, 20, 18, 15, 6, 25, 11, 17, 5, 10, 4, 9, 8>>
V0_CONST_CTZ32 == {1, 5, 6, 9, 11, 13, 14, 16, 19, 20, 21, 22, 23, 25, 26, 27}   \* 0x0ef96a62

\* Byte by byte from an end, as long as the byte is zero.
ScanFrom(s, tab, order) ==
    LET cnt[n \in 1 .. 4] ==
            LET byte == Octet(s, order[n])
            IN  tab[byte] + IF byte = 0 /\ n < 4 THEN cnt[n + 1] ELSE 0
    IN  IF s = {} THEN 32 ELSE cnt[1]
clzu32(s) == ScanFrom(s, bitclzu32lut, <<3, 2, 1, 0>>)
ctzu32lut(s) == ScanFrom(s, bitctzu32lut, <<0, 1, 2, 3>>)

\* The lowest bit alone, or none, is multiplied, which shifts the constant.
ctzu32(s) ==
    LET product == IF s = {} THEN {} ELSE ShiftLeft(V0_CONST_CTZ32, tzero32(s))
    IN  bitctzu32tab[1 + Digits(product, 27, 5)] + (IF s = {} THEN 1 ELSE 0)

\* Mutant: the correction for zero is left out.
ctzu32Bare(s) ==
    LET product == IF s = {} THEN {} ELSE ShiftLeft(V0_CONST_CTZ32, tzero32(s))
    IN  bitctzu32tab[1 + Digits(product, 27, 5)]

hamu32lut(s) ==
    bithamu32lut[Octet(s, 3)] + bithamu32lut[Octet(s, 2)]
        + bithamu32lut[Octet(s, 1)] + bithamu32lut[Octet(s, 0)]
hamu32(s) ==
    LET byte(k) == Quad(s, 2 * k) + Quad(s, 2 * k + 1)
        half(k) == byte(2 * k) + byte(2 * k + 1)
    IN  half(0) + half(1)

\* 0x6996 again.
paru8(b) == bytepar(b)
paru8lut(b) == bitparu8lut[b]

\* The counts of bitop.h add half bytes before they mask them, and then bytes
\* by shifts or by a product.
clz32(s) == lzero32b(s)
ham32mul(s) == (ByteOnes(s, 3) + ByteOnes(s, 2) + ByteOnes(s, 1) + ByteOnes(s, 0)) % 256
ham32nomul(s) == (ByteOnes(s, 0) + ByteOnes(s, 1) + (ByteOnes(s, 2) + ByteOnes(s, 3))) % 128

\* Its argument has 32 bits, so that the upper half of a long is lost.
ham64mul(s) == ham32mul(s \cap (0 .. 31))
ham64nomul(s) ==
    LET byte[k \in 0 .. 7] == ByteOnes(s, k)
    IN  (byte[0] + byte[1] + byte[2] + byte[3] + (byte[4] + byte[5] + byte[6] + byte[7])) % 128
---------------------------------------------------------------------------
\* The bytes 4 to 7 of the product of two words, which are its upper half.
BytesOf(pair) == [k \in 0 .. 3 |-> IF k < 2 THEN (pair[2] \div 256 ^ k) % 256
                                           ELSE (pair[1] \div 256 ^ (k - 2)) % 256]
UpperHalf(x, m) ==
    LET column(k) ==
            LET part(i) == IF k - i \in 0 .. 3 THEN x[i] * m[k - i] ELSE 0
            IN  part(0) + part(1) + part(2) + part(3)
        sum[k \in 0 .. 7] == column(k) + IF k = 0 THEN 0 ELSE sum[k - 1] \div 256
    IN  [k \in 4 .. 7 |-> sum[k] % 256]

\* Shifted by at least three bits the upper half is one of TLC's integers.
MagicQuotient(pair, magic, shift) ==
    LET high == UpperHalf(BytesOf(pair), magic)
    IN  high[7] * 2 ^ (24 - shift) + (high[6] * 65536 + high[5] * 256 + high[4]) \div 2 ^ shift

Magic(b3, b2, b1, b0) == (3 :> b3) @@ (2 :> b2) @@ (1 :> b1) @@ (0 :> b0)
DIVCU10_MAGIC_U32 == Magic(204, 204, 204, 205)
DIVCU60_MAGIC_U32 == Magic(136, 136, 136, 137)
DIVCU100_MAGIC_U32 == Magic(81, 235, 133, 31)
DIVCU400_MAGIC_U32 == Magic(81, 235, 133, 31)
DIVCU1000_MAGIC_U32 == Magic(16, 98, 77, 211)

divcu10(num) == MagicQuotient(num, DIVCU10_MAGIC_U32, 3)
divcu60(num) == MagicQuotient(num, DIVCU60_MAGIC_U32, 5)
divcu100(num) == MagicQuotient(num, DIVCU100_MAGIC_U32, 5)
divcu1000(num) == MagicQuotient(num, DIVCU1000_MAGIC_U32, 6)

\* num - q * d modulo 2^32, of which the lower half says all: a remainder is small.
LowerLess(num, q, d) == (num[2] - (q % 65536) * d) % 65536
modcu60(num) == LowerLess(num, divcu60(num), 60)
modcu400(num) == LowerLess(num, MagicQuotient(num, DIVCU400_MAGIC_U32, 7), 400)
---------------------------------------------------------------------------
\* Shifts of a word in a long of 64 bits; the low 32 are the machine's word.
\* The rotations bring ones in, whatever bits went out.
Word32(bits) == bits \cap (0 .. 31)
v0shl(cnt, word) == {i + cnt : i \in word}
v0shr(cnt, word) == {i - cnt : i \in {j \in word : j >= cnt}} \cap (0 .. 31 - cnt)
v0sar(cnt, word) ==
    LET down == {i - cnt : i \in {j \in word : j >= cnt}}
    IN  IF 31 \in word THEN down \cup (32 - cnt .. 63 - cnt) ELSE Word32(down)
v0rol(cnt, word) == {i + cnt : i \in word} \cup (0 .. cnt - 1)
v0ror(cnt, word) == {i - cnt : i \in {j \in word : j >= cnt}} \cup (32 - cnt .. 63 - cnt)
---------------------------------------------------------------------------
VelhoCalls ==
    [op : {"scan"}, s : Bitsets] \cup [op : {"wide"}, s : Bitsets, up : {{}, {0}, 0 .. 31}]
    \cup [op : {"byte"}, b : 0 .. 255] \cup [op : {"magic"}, num : HalfPairs]
    \cup [op : {"shift"}, cnt : Counts, word : {s \in Bitsets : Cardinality(s) # 3}]

VelhoReturns(c) ==
    CASE c.op = "scan" -> [lead |-> {clzu32(c.s), clz32(c.s)}, trail |-> {ctzu32lut(c.s), ctzu32(c.s)},
                           ones |-> {hamu32lut(c.s), hamu32(c.s), ham32mul(c.s), ham32nomul(c.s)}]
      [] c.op = "wide" -> LET long == c.s \cup {i + 32 : i \in c.up}
                          IN  <<ham64nomul(long), ham64mul(long)>>
      [] c.op = "byte" -> {paru8(c.b), paru8lut(c.b)}
      [] c.op = "magic" -> [d \in {10, 60, 100, 1000} |->
                              CASE d = 10 -> divcu10(c.num) [] d = 60 -> divcu60(c.num)
                                [] d = 100 -> divcu100(c.num) [] d = 1000 -> divcu1000(c.num)]
                           @@ (0 :> <<modcu60(c.num), modcu400(c.num)>>)
      [] c.op = "shift" -> [shl |-> v0shl(c.cnt, c.word), shr |-> v0shr(c.cnt, c.word),
                            sar |-> v0sar(c.cnt, c.word), rol |-> v0rol(c.cnt, c.word),
                            ror |-> v0ror(c.cnt, c.word)]

VelhoInit == velhocall \in VelhoCalls /\ velhoret = <<>>
VelhoReturn == velhoret = <<>> /\ velhoret' = <<VelhoReturns(velhocall)>> /\ UNCHANGED velhocall
---------------------------------------------------------------------------
\* Division of the pair by halves, the way it is done by hand.
PairDiv(num, d) == (num[1] \div d) * 65536 + ((num[1] % d) * 65536 + num[2]) \div d
PairMod(num, d) == ((num[1] % d) * 65536 + num[2]) % d

VelhoMeant(c, r) ==
    CASE c.op = "scan" ->
            r = [lead |-> {lzero32(c.s)}, trail |-> {tzero32(c.s)}, ones |-> {Cardinality(c.s)}]
      [] c.op = "wide" -> r = <<Cardinality(c.s) + Cardinality(c.up), Cardinality(c.s)>>
      [] c.op = "byte" -> r = {Cardinality(ByteBitsOf(c.b)) % 2}
      [] c.op = "magic" -> /\ \A d \in {10, 60, 100, 1000} : r[d] = PairDiv(c.num, d)
                           /\ r[0] = <<PairMod(c.num, 60), PairMod(c.num, 400)>>
      [] c.op = "shift" ->
            /\ Word32(r.shl) = {i \in 0 .. 31 : i - c.cnt \in c.word}
            /\ r.shr = {i \in 0 .. 31 : i + c.cnt \in c.word}
            /\ Word32(r.sar) = {i \in 0 .. 31 : (IF i + c.cnt > 31 THEN 31 ELSE i + c.cnt) \in c.word}
            /\ {(i + c.cnt) % 32 : i \in c.word} \subseteq r.rol
            /\ {(i - c.cnt) % 32 : i \in c.word} \subseteq r.ror

\* Every scan agrees with every other one and with the bits, zero included;
\* every magic number gives the exact quotient up to the last word of 32 bits;
\* a shift keeps the sign it has to keep.  The rotations hold only
\* one way: no bit is lost, but ones that went nowhere come in (clzu32, ctzu32, hamu32,
\* divcu10, modcu400, v0sar, v0rol).
VelhoHolds == velhoret # <<>> => VelhoMeant(velhocall, velhoret[1])
=============================================================================
