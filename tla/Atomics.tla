------------------------------ MODULE Atomics ------------------------------
(***************************************************************************)
(* The atomic operations of libmach as their inline assembly does them     *)
(* (mach/x86/asm.h, mach/x86-64/asm.h) and as mach/mach.h describes them.  *)
(*                                                                         *)
(* An operand that is an output only ("=a", "=r") holds anything when the  *)
(* instruction reads it: Garbage.  Memory is the word that the operation   *)
(* is given and the word behind it, as one number: the first word is its   *)
(* low half.  An operation is the set of what it can do to the memory and  *)
(* return.                                                                 *)
(***************************************************************************)
EXTENDS Naturals, FiniteSetsExt

CONSTANTS ByteBits,  \* bits of a byte; a word has four bytes
          Garbage    \* what a register may hold that was not loaded

WordBits == 4 * ByteBits
Byte == 2 ^ ByteBits
Word == 2 ^ WordBits
WordRange == 0 .. Word - 1

ASSUME AtomicsAssumption ==
    /\ ByteBits \in Nat \ {0} /\ Garbage \subseteq WordRange

Lo(mem) == mem % Word
Hi(mem) == mem \div Word
PutLow(mem, w) == (Word * Hi(mem)) + (w % Word)
Bit(n, i) == (n \div 2 ^ i) % 2
With(n, i) == n + 2 ^ i * (1 - Bit(n, i))
Without(n, i) == n - 2 ^ i * Bit(n, i)
Did(a, b) == [mem |-> a, ret |-> b]
---------------------------------------------------------------------------
(* Adding and exchanging.                                                  *)

m_atominc(mem) == {Did(PutLow(mem, Lo(mem) + 1), 0)}
m_atomdec(mem) == {Did(PutLow(mem, Lo(mem) + Word - 1), 0)}

\* The memory gets val; the old word goes to its register, not to the result.
m_xchg32(mem, val) == {Did(PutLow(mem, val), g) : g \in Garbage \cup {Lo(mem)}}

\* rax is exchanged with the word, and val is never in it.
m_xchg64(mem) == {Did(PutLow(mem, g), Lo(mem)) : g \in Garbage}

\* What is added is eax, which val is not in either.
m_add(mem) == {Did(PutLow(mem, Lo(mem) + g), g) : g \in Garbage}
m_xadd(mem) == {Did(PutLow(mem, Lo(mem) + g), Lo(mem)) : g \in Garbage}
---------------------------------------------------------------------------
(* Comparing and exchanging.                                               *)

\* Mutant: the instruction for bytes is used for words.
CmpxchgByte(mem, want, val) ==
    {Did(IF Lo(mem) % Byte = want % Byte THEN (mem - (mem % Byte)) + (val % Byte) ELSE mem, Lo(mem))}

m_cmpxchg(mem, want, val) ==
    {Did(IF Lo(mem) = want THEN PutLow(mem, val) ELSE mem, Lo(mem))}

\* One byte; the rest of the register the result comes from was never loaded,
\* and the conversion of the result cuts it off.
m_cmpxchg8(mem, want, val) ==
    LET old == mem % Byte
    IN  {Did(IF old = want THEN mem - old + val ELSE mem, (Byte * g + old) % Byte) : g \in Garbage}

\* The test for success around both.
Success(outcomes, want) ==
    {Did(o.mem, IF o.ret = want THEN 1 ELSE 0) : o \in outcomes}

\* Two words; setz writes the low byte of the result.
m_cmpxchg128(mem, want, val) ==
    {Did(IF mem = want THEN val ELSE mem,
           (g - (g % Byte)) + IF mem = want THEN 1 ELSE 0) : g \in Garbage}
---------------------------------------------------------------------------
(* Bits.                                                                   *)

m_setbit32(mem, ndx) == {Did(With(mem, ndx), 0)}

\* The mask is for the word, and is applied ndx / 8 bytes after it.
m_clrbit32(mem, ndx) == {Did(Without(mem, ndx + ByteBits * (ndx \div ByteBits)), 0)}
m_flipbit32(mem, ndx) == {Did(With(mem, ndx + ByteBits * (ndx \div ByteBits)), 0)}

\* The instructions of these two are each other's.
m_setbit64(mem, ndx) == {Did(Without(mem, ndx), 0)}
m_clrbit64(mem, ndx) == {Did(With(mem, ndx), 0)}

m_flipbit64(mem, ndx) ==
    {Did(IF Bit(mem, ndx) = 1 THEN Without(mem, ndx) ELSE With(mem, ndx), 0)}

\* The result is incremented if the bit was set; its zero is not loaded.
m_cmpsetbit(mem, ndx) == {Did(With(mem, ndx), (g + Bit(mem, ndx)) % Word) : g \in Garbage}
m_cmpclrbit(mem, ndx) == {Did(Without(mem, ndx), (g + Bit(mem, ndx)) % Word) : g \in Garbage}

\* The builtins of the compiler return the new word.
Or(a, b) == MapThenSumSet(LAMBDA i : 2 ^ i * (IF Bit(a, i) + Bit(b, i) = 0 THEN 0 ELSE 1), 0 .. WordBits - 1)
And(a, b) == MapThenSumSet(LAMBDA i : 2 ^ i * Bit(a, i) * Bit(b, i), 0 .. WordBits - 1)
m_atomor(mem, mask) == {Did(PutLow(mem, Or(Lo(mem), mask)), Or(Lo(mem), mask))}
m_atomand(mem, mask) == {Did(PutLow(mem, And(Lo(mem), mask)), And(Lo(mem), mask))}

\* Bit scans leave their result alone when there is no bit; it was not loaded.
m_bsf(mem) ==
    LET ones == {i \in 0 .. WordBits - 1 : Bit(mem, i) = 1}
    IN  {Did(mem, r) : r \in IF ones = {} THEN Garbage ELSE {i \in ones : Lo(mem) % 2 ^ i = 0}}
m_bsr(mem) ==
    LET ones == {i \in 0 .. WordBits - 1 : Bit(mem, i) = 1}
    IN  {Did(mem, r) : r \in IF ones = {} THEN Garbage ELSE {i \in ones : Lo(mem) \div 2 ^ i = 1}}

\* On 64 bits the scans see both words.
m_bsf64(mem) ==
    LET ones == {i \in 0 .. 2 * WordBits - 1 : Bit(mem, i) = 1}
    IN  {Did(mem, r) : r \in IF ones = {} THEN Garbage ELSE {i \in ones : mem % 2 ^ i = 0}}
m_bsr64(mem) ==
    LET ones == {i \in 0 .. 2 * WordBits - 1 : Bit(mem, i) = 1}
    IN  {Did(mem, r) : r \in IF ones = {} THEN Garbage ELSE {i \in ones : mem \div 2 ^ i = 1}}
=============================================================================
