-------------------------------- MODULE Trix --------------------------------
(***************************************************************************)
(* The arithmetic of zero/trix.h: division and remainder by constants with *)
(* shifts and adds, counts and scans of bits, saturating operations, the   *)
(* check of a product for overflow.  Right shifts are \div by a power of   *)
(* two (on two's complement they round down, as \div does), a word whose   *)
(* bits matter is the set of its one-bits, and a width is a parameter      *)
(* where the operation wraps at it.                                        *)
(*                                                                         *)
(* A caller asks for one operation after the other; the state is the last  *)
(* question and its answer.                                                *)
(***************************************************************************)
EXTENDS Integers, FiniteSets

CONSTANTS Words,     \* the 32-bit words the callers divide
          Bitsets,   \* the 32-bit words, as sets of one-bits, the callers scan
          Width      \* the width of the words that are added and multiplied (32)

U32 == {x \in Nat : x \div 65536 < 65536}

ASSUME TrixAssumption ==
    /\ Words \subseteq U32
    /\ Bitsets \subseteq SUBSET (0 .. 31)
    /\ Width \in Nat \ {0, 1}

VARIABLES asked,   \* the operation and its operands
          answer   \* what it returned

trixvars == <<asked, answer>>
---------------------------------------------------------------------------
\* Division by constants (unsigned long holds the 32-bit word exactly).

divu7(x) ==
    LET q1 == (x \div 2) + (x \div 16)
        q2 == q1 + (q1 \div 64)
        q == (q2 + (q2 \div 4096) + (q2 \div 16777216)) \div 4
    IN  q + ((x - q * 7 + 1) \div 8)

divu9(x) ==
    LET q1 == x - (x \div 8)
        q2 == q1 + (q1 \div 64)
        q == (q2 + (q2 \div 4096) + (q2 \div 16777216)) \div 8
    IN  q + ((x - q * 9 + 7) \div 16)

\* Mutant: the estimate is corrected with the remainder rounded down.
divu10down(x) ==
    LET q1 == (x \div 2) + (x \div 4)
        q2 == q1 + (q1 \div 16)
        q3 == q2 + (q2 \div 256)
        q == (q3 + (q3 \div 65536)) \div 8
    IN  q + ((x - q * 10 + 5) \div 16)

divu10(x) ==
    LET q1 == (x \div 2) + (x \div 4)
        q2 == q1 + (q1 \div 16)
        q3 == q2 + (q2 \div 256)
        q == (q3 + (q3 \div 65536)) \div 8
    IN  q + ((x - q * 10 + 6) \div 16)

divu100(x) ==
    LET q1 == (x \div 2) + (x \div 8) + (x \div 64) - (x \div 1024)
                + (x \div 4096) + (x \div 8192) - (x \div 65536)
        q == (q1 + (q1 \div 1048576)) \div 64
    IN  q + ((x - q * 100 + 28) \div 128)

divu1000(x) ==
    LET t == (x \div 128) + (x \div 256) + (x \div 4096)
        q == ((x \div 2) + t + (x \div 32768) + (t \div 2048) + (t \div 16384)) \div 512
    IN  q + ((x - q * 1000 + 24) \div 1024)

\* 0x431bde83 / 2^50, in 64 bits.
divu1000000(x) == (x * 1125899907) \div (1048576 * 1073741824)

\* x >> 31 is -1 for a negative 32-bit value: d - 1 is added to it.
Biased(x, d) == IF x < 0 THEN x + (d - 1) ELSE x

divs10(s) == divu10(Biased(s, 10))

divs100(s) == divu100(Biased(s, 100))

\* Two terms more than divu1000 has.
divs1000(s) ==
    LET x == Biased(s, 1000)
        t == (x \div 128) + (x \div 256) + (x \div 4096)
        q == ((x \div 2) + t + (x \div 32768) + (t \div 2048) + (t \div 16384)
                + (x \div 67108864) + (t \div 2097152)) \div 512
    IN  q + ((x - q * 1000 + 24) \div 1024)

modu7(u) == u - divu7(u) * 7
modu9(u) == u - divu9(u) * 9
modu10(u) == u - divu10(u) * 10
modu100(u) == u - divu100(u) * 100
modu400(u) == u - (divu100(u) \div 4) * 400

leapyear(u) == u % 4 = 0 /\ (modu100(u) # 0 \/ modu400(u) = 0)

\* The digits of the word in base b * b and then in base b have the same
\* remainder by b - 1 as the word.
DigitSum(x, b) == (x \div b) + (x % b)
LessTwice(x, d) == IF x < d THEN x ELSE IF x < 2 * d THEN x - d ELSE x - 2 * d

mod15u32(x) == LessTwice(DigitSum(DigitSum(DigitSum(x, 65536), 256), 16), 15)
mod255u32(x) == LessTwice(DigitSum(DigitSum(x, 65536), 256), 255)
mod65535u32(x) == LessTwice(DigitSum(x, 65536), 65535)
---------------------------------------------------------------------------
\* Bits.  Low(s, n) are the n lowest bits of s; a shift of a 32-bit word
\* drops the bits that leave it.

Low(s, n) == s \cap (0 .. n - 1)
ShiftRight(s, n) == {i - n : i \in {j \in s : j >= n}}
ShiftLeft(s, n) == {i + n : i \in {j \in s : j + n < 32}}

\* One round of tzero32b: no bit in the lower half, so count and drop it.
TrailStep(st, half) ==
    IF Low(st[1], half) = {} THEN <<ShiftRight(st[1], half), st[2] + half>> ELSE st

tzero32b(s) ==
    IF s = {} THEN 32
    ELSE IF 0 \in s THEN 0
    ELSE TrailStep(TrailStep(TrailStep(TrailStep(TrailStep(<<s, 0>>, 16), 8), 4), 2), 1)[2]

LeadStep(st, half) ==
    IF st[1] \cap (32 - half .. 31) = {}
    THEN <<ShiftLeft(st[1], half), st[2] + half>> ELSE st

lzero32b(s) ==
    IF s = {} THEN 32
    ELSE LeadStep(LeadStep(LeadStep(LeadStep(LeadStep(<<s, 0>>, 16), 8), 4), 2), 1)[2]

\* The copies of the bits below the highest: r |= r >> 1, 2, 4, 8, 16.
Smear(s) ==
    LET or(r, n) == r \cup ShiftRight(r, n)
    IN  or(or(or(or(or(s, 1), 2), 4), 8), 16)

\* One less: the lowest one-bit falls and those below it rise.  One more:
\* the lowest zero-bit rises and those below it fall.
Less1(s) == LET m == CHOOSE i \in s : \A j \in s : i <= j IN (s \ {m}) \cup (0 .. m - 1)
More1(s) ==
    LET z == CHOOSE i \in 0 .. 32 : i \notin s /\ 0 .. i - 1 \subseteq s
    IN  ((s \ (0 .. z - 1)) \cup {z}) \ {32}

ceilpow2_32(s) == IF Cardinality(s) <= 1 THEN s ELSE More1(Smear(Less1(s)))
---------------------------------------------------------------------------
\* Words of the given width: unsigned ones are 0 .. WordSize - 1.

WordSize == 2 ^ Width
IntMin == -(2 ^ (Width - 1))
IntMax == 2 ^ (Width - 1) - 1
Unsigned == 0 .. WordSize - 1
Signed == IntMin .. IntMax
ToSigned(n) == ((n - IntMin) % WordSize) + IntMin

\* The sum is or-ed with all ones if it wrapped.
sataddu32(a, b) ==
    LET res == (a + b) % WordSize IN IF res < a THEN WordSize - 1 ELSE res

\* The difference is and-ed with all ones if it is less than a.
satsubu32(a, b) ==
    LET res == (a - b) % WordSize IN IF res < a THEN res ELSE 0

satmulu32(a, b) ==
    LET hi == (a * b) \div WordSize IN IF hi # 0 THEN WordSize - 1 ELSE (a * b) % WordSize

powerof2(n) == \E k \in 0 .. Width - 2 : n = 2 ^ k
Magnitude(n) == IF n < 0 THEN -n ELSE n
SigBits(n) == CHOOSE k \in 0 .. Width : n < 2 ^ k /\ (k > 0 => n >= 2 ^ (k - 1))

\* Mutant: products whose bits just fill a word are let through.
chkmulrng32lax(a, b, res) ==
    IF a \in {0, 1} \/ b \in {0, 1} THEN 0
    ELSE IF a = IntMin \/ b = IntMin THEN -1
    ELSE IF res = IntMin /\ (powerof2(a) \/ powerof2(b)) THEN 0
    ELSE IF SigBits(Magnitude(a)) + SigBits(Magnitude(b)) > Width THEN 1
    ELSE 0

\* The check of a product, given the wrapped product: 0 is in order.
chkmulrng32(a, b, res) ==
    LET sig == SigBits(Magnitude(a)) + SigBits(Magnitude(b))
    IN  IF a \in {0, 1} \/ b \in {0, 1} THEN 0
        ELSE IF a = IntMin \/ b = IntMin THEN -1
        ELSE IF res = IntMin /\ (powerof2(a) \/ powerof2(b)) THEN 0
        ELSE IF sig > Width \/ (sig = Width /\ Magnitude(a) > IntMax \div Magnitude(b)) THEN 1
        ELSE 0
---------------------------------------------------------------------------
DivU == {7, 9, 10, 100, 1000}
DivS == {10, 100, 1000}
ModU == {7, 9, 10, 100, 400}
ModSum == {15, 255, 65535}

Minus(S) == {-x : x \in S}
Small == {x \in Words : x <= 2147483647}

Questions ==
    [op : {"divu"}, a : Words, b : DivU] \cup [op : {"divs"}, a : Small \cup Minus(Small), b : DivS]
    \cup [op : {"modu"}, a : Words, b : ModU] \cup [op : {"modsum"}, a : Words, b : ModSum]
    \cup [op : {"leap"}, a : Words]
    \cup [op : {"trail", "lead", "ceil"}, a : Bitsets]
    \cup [op : {"add", "sub", "mul"}, a : Unsigned, b : Unsigned]
    \cup [op : {"check"}, a : Signed, b : Signed]

\* The function each question calls.
Returns(q) ==
    CASE q.op = "divu" /\ q.b = 7 -> divu7(q.a)
      [] q.op = "divu" /\ q.b = 9 -> divu9(q.a)
      [] q.op = "divu" /\ q.b = 10 -> divu10(q.a)
      [] q.op = "divu" /\ q.b = 100 -> divu100(q.a)
      [] q.op = "divu" /\ q.b = 1000 -> divu1000(q.a)
      [] q.op = "divs" /\ q.b = 10 -> divs10(q.a)
      [] q.op = "divs" /\ q.b = 100 -> divs100(q.a)
      [] q.op = "divs" /\ q.b = 1000 -> divs1000(q.a)
      [] q.op = "modu" /\ q.b = 7 -> modu7(q.a)
      [] q.op = "modu" /\ q.b = 9 -> modu9(q.a)
      [] q.op = "modu" /\ q.b = 10 -> modu10(q.a)
      [] q.op = "modu" /\ q.b = 100 -> modu100(q.a)
      [] q.op = "modu" /\ q.b = 400 -> modu400(q.a)
      [] q.op = "modsum" /\ q.b = 15 -> mod15u32(q.a)
      [] q.op = "modsum" /\ q.b = 255 -> mod255u32(q.a)
      [] q.op = "modsum" /\ q.b = 65535 -> mod65535u32(q.a)
      [] q.op = "leap" -> leapyear(q.a)
      [] q.op = "trail" -> tzero32b(q.a)
      [] q.op = "lead" -> lzero32b(q.a)
      [] q.op = "ceil" -> ceilpow2_32(q.a)
      [] q.op = "add" -> sataddu32(q.a, q.b)
      [] q.op = "sub" -> satsubu32(q.a, q.b)
      [] q.op = "mul" -> satmulu32(q.a, q.b)
      [] q.op = "check" -> chkmulrng32(q.a, q.b, ToSigned(q.a * q.b))

TrixInit == asked \in Questions /\ answer = <<>>

Return == answer = <<>> /\ answer' = <<Returns(asked)>> /\ UNCHANGED asked

TrixSpec == TrixInit /\ [][Return]_trixvars
---------------------------------------------------------------------------
\* The division of a signed word truncates towards zero.
Truncated(a, d) == IF a < 0 THEN -((-a) \div d) ELSE a \div d

Exact(q, r) ==
    CASE q.op = "divu" -> r = q.a \div q.b
      [] q.op = "divs" -> r = Truncated(q.a, q.b)
      [] q.op = "modu" \/ (q.op = "modsum" /\ q.b = 65535) -> r = q.a % q.b
      [] q.op = "modsum" /\ q.b # 65535 -> r % q.b = q.a % q.b
      [] q.op = "leap" -> r = (q.a % 4 = 0 /\ (q.a % 100 # 0 \/ q.a % 400 = 0))
      [] OTHER -> TRUE

\* Every division and remainder by shifts and adds is the exact one, for
\* every 32-bit operand (divu7 to divs1000, modu7 to leapyear, mod65535u32).
\* The digit sums of mod15u32 and mod255u32 have the right remainder, but two
\* subtractions do not always reduce them: mod15u32(65535) is 15.
QuotientsExact == answer # <<>> => Exact(asked, answer[1])

Scanned(q, r) ==
    LET ones == q.a
    IN  CASE q.op = "trail" -> r \in 0 .. 32 /\ (0 .. r - 1) \cap ones = {} /\ (r = 32 \/ r \in ones)
          [] q.op = "lead" ->
                r \in 0 .. 32 /\ (32 - r .. 31) \cap ones = {} /\ (r = 32 \/ 31 - r \in ones)
          [] q.op = "ceil" ->
                \/ Cardinality(ones) <= 1 /\ r = ones
                \/ \E n \in ones : (\A i \in ones : i <= n) /\ r = {n + 1} \ {32}
          [] OTHER -> TRUE

\* The halving scans stop at the lowest and the highest one-bit of every
\* word, and the smeared word rounds up to a power of two (tzero32b,
\* lzero32b, ceilpow2_32).
ScansExact == answer # <<>> => Scanned(asked, answer[1])

Clipped(q, r) ==
    CASE q.op = "add" -> r = (IF q.a + q.b < WordSize THEN q.a + q.b ELSE WordSize - 1)
      [] q.op = "sub" /\ q.b # 0 -> r = (IF q.a > q.b THEN q.a - q.b ELSE 0)
      [] q.op = "mul" -> r = (IF q.a * q.b < WordSize THEN q.a * q.b ELSE WordSize - 1)
      [] q.op = "check" ->
            /\ q.a * q.b \in Signed => r = 0
            /\ q.a * q.b \notin Signed /\ r = 0 => ToSigned(q.a * q.b) = IntMin
      [] OTHER -> TRUE

\* Where the result would leave the word, the saturating operations give the
\* nearest word (except a difference with subtrahend 0: satsubu32 gives 0),
\* and the check of a product never objects to one in range.  It lets one out
\* of range through only if what is left of it is the least word
\* (chkmulrng32, which the source marks as still to be verified).
EdgesHeld == answer # <<>> => Clipped(asked, answer[1])
===========================================================================
