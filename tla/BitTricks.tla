------------------------------ MODULE BitTricks ------------------------------
(***************************************************************************)
(* The tricks with bits of zero/trix.h that Trix leaves: fields and single *)
(* bits, choices without a branch, rounding to powers of two, counts,      *)
(* parities and scans, the fields of a floating-point number, the greatest *)
(* common divisor.                                                         *)
(*                                                                         *)
(* Arithmetic is on words of Width bits, 0 .. WordSize - 1 as in Trix, and *)
(* bitwise on these by the operators of Bitwise.  Where the constants of   *)
(* the code fix the width a word is the set of its one-bits.               *)
(***************************************************************************)
EXTENDS Trix, Sequences
LOCAL INSTANCE Bitwise

VARIABLES trick,   \* the trick and its operands
          told     \* what it gave

trickvars == <<trick, told>>

Neg(n) == (-n) % WordSize
Flip(n) == WordSize - 1 - n
AllOnes(condition) == IF condition THEN WordSize - 1 ELSE 0
---------------------------------------------------------------------------
\* Fields of bits.

lo1bit(a) == a & Neg(a)
lobits(i, n) == i & (2 ^ n - 1)
hibits(i, n) == i & Flip(2 ^ (Width - n) - 1)
getbits(i, j, n) == lobits(i \div 2 ^ j, n)
mergebits(a, b, m) == a ^^ ((a ^^ b) & m)

\* A map of bits in bytes: the bit b & 7 of the byte b >> 3.
setbit(p, b) == [p EXCEPT ![b \div 8] = @ \cup {b % 8}]
clrbit(p, b) == [p EXCEPT ![b \div 8] = @ \ {b % 8}]
bitset(p, b) == b % 8 \in p[b \div 8]

\* Minus the condition is all ones or zero.
min2(a, b) == b ^^ ((a ^^ b) & AllOnes(a < b))
max2(a, b) == a ^^ ((a ^^ b) & AllOnes(a < b))
min3(a, b) == (b + (((a - b) % WordSize) & AllOnes(a < b))) % WordSize
max3(a, b) == (a - (((a - b) % WordSize) & AllOnes(a < b))) % WordSize
condsetbits(val, mask, cond) == val ^^ ((AllOnes(cond) ^^ val) & mask)
condsetbits2(val, mask, cond) == (val & Flip(mask)) | (AllOnes(cond) & mask)

\* The sign of a - b, which may have wrapped, chooses.
condltset(a, b, v1, v2) == (AllOnes(ToSigned((a - b) % WordSize) < 0) & (v1 ^^ v2)) ^^ v2

\* Meant for the lowest nb bits with their sign; but the mask is what a
\* comparison of 1 with nb gives, less one: no bit, or for one bit every bit.
sign(x, nb) ==
    LET low == x & (IF 1 < nb THEN 0 ELSE WordSize - 1) IN ToSigned(((low ^^ (2 ^ (nb - 1))) - 2 ^ (nb - 1)) % WordSize)

\* An arithmetic shift by the whole width gives -1 or 0.
zeroabs(a) ==
    LET s == AllOnes(a < 0) IN ToSigned((((a % WordSize) ^^ s) - s) % WordSize)

\* Three assignments; a and b are different variables.
swapi(a, b) ==
    LET a1 == a ^^ b  b1 == b ^^ a1  a2 == a1 ^^ b1 IN <<a2, b1>>

swap32(a, b) == LET tmp == a  a1 == b  b1 == tmp IN <<a1, b1>>

gtepow2(u, p2) == (u & Neg(p2)) # 0
modpow2(a, b2) == a & (b2 - 1)
align1(a, b2) == a & Flip(b2 - 1)
align2(a, b2) == a & Neg(b2)
rounddown2(a, b2) == a & Flip(b2 - 1)
roundup2(a, b2) == ((a + (b2 - 1)) % WordSize) & Neg(b2)
uavg(a, b) == (a & b) + ((a ^^ b) \div 2)
divceil(a, b) == ((a + b - 1) % WordSize) \div b
divround(a, b) == ((a + (b \div 2)) % WordSize) \div b

\* The byte of an over-large half word, and its saturation: the complement of
\* a zero is one, and one less is all ones or zero.
HalfTop == 2 ^ (Width \div 2) - 1
satu8(x) == IF x <= HalfTop THEN x ELSE HalfTop
sat8b(x) == ToSigned(condltset(x, HalfTop, x % WordSize, HalfTop))
satu8b(x16) == (x16 | AllOnes(x16 \div 2 ^ (Width \div 2) # 0)) % 2 ^ (Width \div 2)
---------------------------------------------------------------------------
\* Words of 32 bits.

\* The value of a field of bits, for at most 30 of them.
Digits(s, lo, n) ==
    LET f[i \in 0 .. n] == IF i = 0 THEN 0 ELSE f[i - 1] + (IF lo + i - 1 \in s THEN 2 ^ (i - 1) ELSE 0)
    IN  f[n]

\* The ones subtracted from every byte: a byte that gets below zero borrows
\* from the next.  With the seven low bits of every byte added apart none does.
Octet(s, k) == Digits(s, 8 * k, 8)
haszero32(s) ==
    LET borrow[k \in 0 .. 3] == IF k = 0 THEN 0 ELSE IF Octet(s, k - 1) < 1 + borrow[k - 1] THEN 1 ELSE 0
    IN  {8 * k + 7 : k \in {i \in 0 .. 3 :
            8 * i + 7 \notin s /\ (Octet(s, i) - 1 - borrow[i]) % 256 >= 128}}
haszero32b(s) == {8 * k + 7 : k \in {i \in 0 .. 3 :
    Digits(s, 8 * i, 7) + 127 < 128 /\ 8 * i + 7 \notin s}}

\* Fields of two bits, four bits and a byte each hold their count; the counts
\* of the bytes are added by two shifts, or by a product.
Pair(s, i) == Digits(s, 2 * i, 2) - Digits(s, 2 * i + 1, 1)
Quad(s, i) == Pair(s, 2 * i + 1) + Pair(s, 2 * i)
ByteOnes(s, i) == (Quad(s, 2 * i + 1) + Quad(s, 2 * i)) % 16
onebits_32a(s) == (ByteOnes(s, 0) + ByteOnes(s, 1) + (ByteOnes(s, 2) + ByteOnes(s, 3))) % 64
onebits_32b(s) == (ByteOnes(s, 3) + ByteOnes(s, 2) + ByteOnes(s, 1) + ByteOnes(s, 0)) % 256

\* 0x6996 holds the parity of every half byte.
Parities == {1, 2, 4, 7, 8, 11, 13, 14}
bytepar(b) == IF (b ^^ (b \div 16)) & 15 \in Parities THEN 1 ELSE 0

\* tzero32c shifts once more when the lowest two bits of what is left are zero.
tzero32c(s) ==
    IF 0 \in s THEN 0
    ELSE LET a == TrailStep(TrailStep(TrailStep(<<s, 0>>, 16), 8), 4)
             b == TrailStep(a, 2)
             c == IF Low(a[1], 2) = {} THEN <<ShiftRight(b[1], 2), b[2]>> ELSE b
         IN  TrailStep(c, 1)[2]

\* 64 bits: a round more.
tzero64b(s) ==
    IF s = {} THEN 64 ELSE IF 0 \in s THEN 0
    ELSE TrailStep(TrailStep(TrailStep(TrailStep(TrailStep(TrailStep(<<s, 0>>, 32), 16), 8), 4), 2), 1)[2]

\* The scans of the compiler, with the zero that it leaves undefined.
tzero32(s) == IF s = {} THEN 32 ELSE CHOOSE i \in s : \A j \in s : i <= j
lzero32(s) == IF s = {} THEN 32 ELSE 31 - CHOOSE i \in s : \A j \in s : j <= i

\* The number of bits is the shift, and one more than that if u is no power
\* of two.  The long has 64 bits, so that no shift reaches its width.
ceilpow2l(s) ==
    LET tmp == 32 - lzero32(s)  shift == IF Cardinality(s) <= 1 THEN tmp ELSE tmp + 1
    IN  IF s = {} THEN {} ELSE {shift}

\* One more round than ceilpow2_32.
ceilpow2_64(s) ==
    LET low == Smear(Less1(s))  r == low \cup ShiftRight(low, 32)
        z == CHOOSE i \in 0 .. 64 : i \notin r /\ 0 .. i - 1 \subseteq r
    IN  IF Cardinality(s) <= 1 THEN s ELSE ((r \ (0 .. z - 1)) \cup {z}) \ {64}
---------------------------------------------------------------------------
\* The fields of a float: mantissa 0 .. 22, exponent 23 .. 30, sign 31.  To set
\* a field is to add its bits; the sign alone can be cleared.
fgetmant(f) == f \cap (0 .. 22)
fgetexp(f) == ShiftRight(f \cap (20 .. 30), 23)
fgetsign(f) == f \cap {31}
fsetmant(f, mant) == f \cup (mant \cap (0 .. 22))
fsetexp(f, exp) == f \cup ShiftLeft(exp, 23)
fsetsign(f, minus) == IF minus THEN f \cup {31} ELSE f \ {31}
ifabsf(f) == f \ {31}

\* Built up from nothing, as the callers do.
MakeFloat(minus, exp, mant) == fsetsign(fsetexp(fsetmant({}, mant), exp), minus)
fsetnan == 0 .. 30
fsetsnan == 0 .. 31

\* A double: mantissa 0 .. 51, exponent 52 .. 62, sign 63.  Its setters do not
\* mask what they add.
Up(s, n) == {i + n : i \in s}
dgetmant(d) == d \cap (0 .. 51)
dgetexp(d) == ShiftRight(d \cap (52 .. 62), 52)
dgetsign(d) == d \cap {63}
dsetmant(d, mant) == d \cup mant
dsetexp(d, exp) == d \cup Up(exp, 52)
dsetsign(d, minus) == IF minus THEN d \cup {63} ELSE d \ {63}
dsetnan == 0 .. 62
dsetsnan == 0 .. 63
ifabs(d) == d \ {63}
MakeDouble(minus, exp, mant) == dsetsign(dsetexp(dsetmant({}, mant), exp), minus)

\* A long double of 80 bits in 128: mantissa 0 .. 63, exponent 64 .. 78, sign
\* 79.  The word after the exponent's is taken for the sign's, which is padding.
ldgetmant(ld) == ld \cap (0 .. 63)
ldgetexp(ld) == ShiftRight(ld \cap (64 .. 78), 64)
ldgetsign(ld) == ld \cap {111}
ldsetmant(ld, mant) == (ld \ (0 .. 63)) \cup mant
ldsetexp(ld, exp) == ld \cup Up(exp \cap (0 .. 14), 64)
ldsetsign(ld, minus) == IF minus THEN ld \cup {111} ELSE ld \ (111 .. 127)
ldsetnan(ld) == (ld \ (0 .. 95)) \cup (0 .. 78)
ldsetsnan(ld) == (ld \ (0 .. 95)) \cup (0 .. 79)
MakeLongDouble(ld, minus, exp, mant) == ldsetsign(ldsetexp(ldsetmant(ld, mant), exp), minus)

\* The virtual machine's header (vc/math.h) has the same with a prefix, and a
\* sign of numbers of 128 bits that is read from bits nobody sets.
f_fset(minus, exp, mant) == MakeFloat(minus, exp, mant)
f_dset(minus, exp, mant) == MakeDouble(minus, exp, mant)
f_ldset80(ld, minus, exp, mant) == MakeLongDouble(ld, minus, exp, mant)
f_ldset128(ld, minus, exp, mant) == MakeLongDouble(ld, minus, exp, mant)
f_ldgetsign128(ld) == ld \cap {107, 109, 112}
---------------------------------------------------------------------------
\* 0x8889 / 2^21.
divu60b(x) == ((x * 34953) \div 65536) \div 32

\* a and b are exchanged after every remainder.
gcdu32(a, b) ==
    LET f[p \in Nat \X Nat] == IF p[2] = 0 THEN p[1] ELSE f[<<p[2], p[1] % p[2]>>] IN f[<<a, b>>]

satdivu32(a, b) == a \div b
leapyear2(u) == u % 4 = 0 /\ (u % 100 # 0 \/ u % 400 = 0)

\* The check of a product of long words against the range of an int, which has
\* half as many bits, and the two places where a power of two is let through.
IntTop == 2 ^ (Width \div 2 - 1) - 1
Power2(n) == \E k \in 0 .. Width - 2 : n = 2 ^ k
chkmulrng64(a, b, res) ==
    LET sig == SigBits(Magnitude(a)) + SigBits(Magnitude(b))
    IN  CASE a \in {0, 1} \/ b \in {0, 1} -> 0
          [] a \notin {0, 1} /\ b \notin {0, 1} /\ -IntTop - 1 \in {a, b} -> -1
          [] OTHER ->
                IF res = -IntTop - 1 /\ (Power2(a) \/ Power2(b)) THEN 0
                ELSE IF sig > Width \/ (sig = Width /\ Magnitude(a) > IntTop \div Magnitude(b)) THEN 1 ELSE 0

\* Subtracts as long as a is larger, so that b itself stays.
rem32(a, b) == IF a <= b THEN a ELSE LET r == a % b IN IF r = 0 THEN b ELSE r

\* The remainder of C has the sign of its first operand.
Quot(a, b) == IF (a < 0) = (b < 0) THEN Magnitude(a) \div Magnitude(b) ELSE -(Magnitude(a) \div Magnitude(b))
ratreduce(num, den) ==
    LET f[p \in Int \X Int] ==
            LET c == p[1] - p[2] * Quot(p[1], p[2]) IN IF c = 0 THEN p[2] ELSE f[<<p[2], c>>]
        g == f[<<num, den>>]
    IN  <<Quot(num, g), Quot(den, g)>>
---------------------------------------------------------------------------
Powers == {2 ^ k : k \in 0 .. Width - 1}

Tricks ==
    [op : {"pairs"}, a : Unsigned, b : Unsigned]
    \cup [op : {"merge"}, a : Unsigned, b : Unsigned, m : Unsigned]
    \cup [op : {"field"}, a : Unsigned, j : 0 .. Width - 1, n : 1 .. Width - 1]
    \cup [op : {"power"}, a : Unsigned, b : Powers]
    \cup [op : {"less"}, a : Signed, b : Signed] \cup [op : {"abs"}, a : Signed]
    \cup [op : {"bits"}, a : Bitsets] \cup [op : {"parity"}, a : 0 .. 255]
    \cup [op : {"map"}, a : 0 .. 23, b : 0 .. 23]
    \cup [op : {"float"}, minus : BOOLEAN, exp : {{}, {0, 7}, 0 .. 7}, mant : {s \cap (0 .. 22) : s \in Bitsets}]
    \cup [op : {"double"}, minus : BOOLEAN, exp : {{}, {0, 10}, 0 .. 10}, mant : Bitsets]
    \cup [op : {"year"}, a : Small] \cup [op : {"check64"}, a : Signed, b : Signed]
    \cup [op : {"sixty"}, a : Small \cap (0 .. 61439)]
    \cup [op : {"ratio"}, a : Signed, b : Signed \ {0}]

Gives(t) ==
    CASE t.op = "pairs" -> [min |-> {min2(t.a, t.b), min3(t.a, t.b)}, max |-> {max2(t.a, t.b), max3(t.a, t.b)},
                            swap |-> {swapi(t.a, t.b), swap32(t.a, t.b)}, avg |-> uavg(t.a, t.b), gcd |-> gcdu32(t.a, t.b),
                            sat |-> {satu8b(t.a), satu8(t.a)},
                            quot |-> IF t.b = 0 THEN <<>> ELSE <<divceil(t.a, t.b), divround(t.a, t.b),
                                                                rem32(t.a, t.b), satdivu32(t.a, t.b)>>]
      [] t.op = "merge" -> [merged |-> mergebits(t.a, t.b, t.m),
                            on |-> {condsetbits(t.a, t.m, TRUE), condsetbits2(t.a, t.m, TRUE)},
                            off |-> {condsetbits(t.a, t.m, FALSE), condsetbits2(t.a, t.m, FALSE)}]
      [] t.op = "field" -> [low |-> lobits(t.a, t.n), high |-> hibits(t.a, t.n), got |-> getbits(t.a, t.j, t.n),
                            signed |-> sign(t.a, t.n), lowest |-> lo1bit(t.a)]
      [] t.op = "power" -> [ge |-> gtepow2(t.a, t.b), mod |-> modpow2(t.a, t.b),
                            down |-> {align1(t.a, t.b), align2(t.a, t.b), rounddown2(t.a, t.b)}, up |-> roundup2(t.a, t.b)]
      [] t.op = "less" -> <<condltset(t.a, t.b, 1, 2), sat8b(t.a)>>
      [] t.op = "abs" -> zeroabs(t.a)
      [] t.op = "bits" -> [zero |-> haszero32(t.a), zeros |-> haszero32b(t.a),
                           count |-> {onebits_32a(t.a), onebits_32b(t.a)}, trail |-> tzero32c(t.a),
                           scan |-> <<tzero64b(t.a \cup {40}), tzero64b({i + 32 : i \in t.a}), tzero32(t.a), lzero32(t.a)>>,
                           ceil |-> ceilpow2l(t.a), ceil64 |-> ceilpow2_64(Up(t.a, 16))]
      [] t.op = "parity" -> bytepar(t.a)
      [] t.op = "map" -> LET p == setbit([k \in 0 .. 2 |-> {}], t.a)
                         IN  <<bitset(p, t.b), bitset(clrbit(setbit(p, t.b), t.b), t.a)>>
      [] t.op = "float" -> MakeFloat(t.minus, t.exp, t.mant)
      [] t.op = "double" -> [d |-> {MakeDouble(t.minus, t.exp, t.mant), f_dset(t.minus, t.exp, t.mant)},
                             f |-> f_fset(t.minus, t.exp \cap (0 .. 7), t.mant),
                             ld |-> {MakeLongDouble({}, t.minus, t.exp, Up(t.mant, 32)),
                                     f_ldset80({}, t.minus, t.exp, Up(t.mant, 32)),
                                     f_ldset128({}, t.minus, t.exp, Up(t.mant, 32))}]
      [] t.op = "year" -> leapyear2(t.a)
      [] t.op = "check64" -> chkmulrng64(t.a, t.b, ToSigned(t.a * t.b))
      [] t.op = "sixty" -> divu60b(t.a)
      [] t.op = "ratio" -> ratreduce(t.a, t.b)

TricksInit == trick \in Tricks /\ told = <<>>
Perform == told = <<>> /\ told' = <<Gives(trick)>> /\ UNCHANGED trick
---------------------------------------------------------------------------
\* What each trick stands for.
BitAt(n, i) == (n \div 2 ^ i) % 2
Smaller(a, b) == IF a <= b THEN a ELSE b
Larger(a, b) == IF a <= b THEN b ELSE a
ByteIs0(s, k) == s \cap (8 * k .. 8 * k + 7) = {}

Meant(t, r) ==
    CASE t.op = "pairs" ->
            /\ r.min = {Smaller(t.a, t.b)} /\ r.max = {Larger(t.a, t.b)} /\ r.swap = {<<t.b, t.a>>}
            /\ r.avg = (t.a + t.b) \div 2
            /\ \A d \in 1 .. Larger(t.a, t.b) :
                  (r.gcd % d = 0) <=> (t.a % d = 0 /\ t.b % d = 0)
            /\ r.sat = {Smaller(t.a, HalfTop)}
            /\ t.b # 0 /\ t.a + t.b < WordSize =>
                  /\ r.quot[1] * t.b \in t.a .. t.a + t.b - 1
                  /\ 2 * (r.quot[2] * t.b - t.a) \in -t.b + 1 .. t.b
                  /\ r.quot[3] \in 0 .. t.b /\ (t.a - r.quot[3]) % t.b = 0
                  /\ t.a - r.quot[4] * t.b \in 0 .. t.b - 1
      [] t.op = "merge" -> \A i \in 0 .. Width - 1 :
            LET in == BitAt(t.m, i) = 1
            IN  /\ BitAt(r.merged, i) = BitAt(IF in THEN t.b ELSE t.a, i)
                /\ \A x \in r.on : BitAt(x, i) = IF in THEN 1 ELSE BitAt(t.a, i)
                /\ \A x \in r.off : BitAt(x, i) = IF in THEN 0 ELSE BitAt(t.a, i)
      [] t.op = "field" ->
            /\ r.low = t.a % 2 ^ t.n /\ r.high = t.a - (t.a % 2 ^ (Width - t.n))
            /\ \A i \in 0 .. t.n - 1 : BitAt(r.got, i) = IF i + t.j < Width THEN BitAt(t.a, i + t.j) ELSE 0
            /\ r.signed = 0 \/ (t.n = 1 /\ (t.a = 1 => r.signed = -1))
            /\ IF t.a = 0 THEN r.lowest = 0
               ELSE r.lowest \in Powers /\ t.a % r.lowest = 0 /\ (t.a \div r.lowest) % 2 = 1
      [] t.op = "power" ->
            /\ r.ge = (t.a >= t.b) /\ r.mod = t.a % t.b /\ r.down = {t.a - (t.a % t.b)}
            /\ t.a + t.b <= WordSize => r.up % t.b = 0 /\ r.up \in t.a .. t.a + t.b - 1
      [] t.op = "less" -> /\ t.a - t.b \in Signed => r[1] = (IF t.a < t.b THEN 1 ELSE 2)
                          /\ t.a - HalfTop \in Signed => r[2] = Smaller(t.a, HalfTop)
      [] t.op = "abs" -> r = (IF t.a = IntMin THEN IntMin ELSE Magnitude(t.a))
      [] t.op = "bits" ->
            /\ (r.zero = {}) = (\A k \in 0 .. 3 : ~ByteIs0(t.a, k))
            /\ \A k \in 0 .. 3 : ByteIs0(t.a, k) <=> 8 * k + 7 \in r.zeros
            /\ r.count = {Cardinality(t.a)}
            /\ LET low == tzero32b(t.a)
               IN  /\ r.scan = <<IF t.a = {} THEN 40 ELSE low, 32 + low, low, lzero32b(t.a)>>
                   /\ t.a # {} /\ low % 4 < 2 => r.trail = low
            /\ \A j \in r.ceil : j = 32 - lzero32b(t.a) + (IF Cardinality(t.a) = 1 THEN 0 ELSE 1)
            /\ r.ceil64 = Up(ceilpow2_32(t.a) \cup (IF t.a # {} /\ ceilpow2_32(t.a) = {} THEN {32} ELSE {}), 16)
      [] t.op = "parity" -> r = Cardinality({i \in 0 .. 7 : BitAt(t.a, i) = 1}) % 2
      [] t.op = "map" -> r = <<t.a = t.b, t.a # t.b>>
      [] t.op = "float" ->
            /\ fgetmant(r) = t.mant /\ fgetexp(r) = t.exp /\ (fgetsign(r) # {}) = t.minus
            /\ ifabsf(r) = MakeFloat(FALSE, t.exp, t.mant)
      [] t.op = "double" ->
            /\ \A d \in r.d : /\ dgetmant(d) = t.mant /\ dgetexp(d) = t.exp /\ (dgetsign(d) # {}) = t.minus
                             /\ ifabs(d) = d \ dgetsign(d)
            /\ fgetsign(r.f) # {} <=> t.minus
            /\ \A ld \in r.ld : /\ ldgetmant(ld) = Up(t.mant, 32) /\ ldgetexp(ld) = t.exp
                               /\ (ldgetsign(ld) # {}) = t.minus /\ 79 \notin ld
                               /\ f_ldgetsign128(ld) = {}
                               /\ ldgetexp(ldsetnan(ld)) = 0 .. 14 /\ 79 \in ldsetsnan(ld)
            /\ fgetexp(fsetnan) = 0 .. 7 /\ dgetexp(dsetnan) = 0 .. 10
            /\ fgetsign(fsetsnan) # {} /\ dgetsign(dsetsnan) # {}
      [] t.op = "year" -> r = leapyear(t.a)
      [] t.op = "check64" ->
            /\ (t.a * t.b \notin Signed /\ r = 0) => ToSigned(t.a * t.b) = -IntTop - 1
            /\ (r # 0 /\ t.a * t.b \in Signed) =>
                  -IntTop - 1 \in {t.a, t.b} \/ t.a * t.b = IntMin \/ SigBits(Magnitude(t.a)) + SigBits(Magnitude(t.b)) = Width
      [] t.op = "sixty" -> r = t.a \div 60
      [] t.op = "ratio" -> r[1] * t.b = r[2] * t.a /\ gcdu32(Magnitude(r[1]), Magnitude(r[2])) = 1

\* Every trick does what its name says, at every edge of the word: choices
\* and averages do not wrap, the counts of bits do not spill from one field to
\* the next, a zero byte is seen where there is one.  A field of two bits
\* or more loses its sign and its bits (sign).  The rounded quotients
\* and multiples hold as long as the sum does not wrap; tzero32c only while
\* its second shift meets no bit, and ceilpow2l gives the power of two above the
\* word, or the one after that.  The fields of a long double come back as they
\* were put, but the sign is not the number's (bit 79).  The check of a long
\* product misses only one whose rest is the least int, and objects to some in
\* range: the least long, one that just fills it, any with the least int (min2, uavg, roundup2, haszero32, onebits_32a, fsetexp, ratreduce).
TricksHold == told # <<>> => Meant(trick, told[1])
=============================================================================
