---------------------------- MODULE AtomicCalls ----------------------------
(***************************************************************************)
(* Calls of the atomic operations, and what mach/mach.h and the comments   *)
(* on them say of the memory and of the result.                            *)
(***************************************************************************)
EXTENDS Atomics

CONSTANTS Ops,   \* the operations that are called
          Mems,  \* the memory they are called on
          Args   \* the words that they are given

ASSUME CallsAssumption ==
    Args \subseteq WordRange /\ Mems \subseteq 0 .. Word * Word - 1

VARIABLES atomcall,   \* the operation, its operands and the memory before it
          atomdid  \* the memory after it and what it returned

atomvars == <<atomcall, atomdid>>

Outcomes(q) ==
    CASE q.op = "m_atominc" -> m_atominc(q.mem)
      [] q.op = "m_atomdec" -> m_atomdec(q.mem)
      [] q.op = "m_xchg32" -> m_xchg32(q.mem, q.val)
      [] q.op = "m_xchg64" -> m_xchg64(q.mem)
      [] q.op = "m_add32" -> m_add(q.mem)
      [] q.op = "m_xadd64" -> m_xadd(q.mem)
      [] q.op = "m_fetchswap" -> m_cmpxchg(q.mem, q.want, q.val)
      [] q.op = "m_cmpswap" -> Success(m_cmpxchg(q.mem, q.want, q.val), q.want)
      [] q.op = "m_cmpswapb" -> Success(m_cmpxchg8(q.mem, q.want % Byte, q.val % Byte), q.want % Byte)
      [] q.op = "m_cmpswapdbl" -> m_cmpxchg128(q.mem, q.wants, q.vals)
      [] q.op = "m_setbit32" -> m_setbit32(q.mem, q.ndx)
      [] q.op = "m_clrbit32" -> m_clrbit32(q.mem, q.ndx)
      [] q.op = "m_flipbit32" -> m_flipbit32(q.mem, q.ndx)
      [] q.op = "m_setbit64" -> m_setbit64(q.mem, q.ndx)
      [] q.op = "m_clrbit64" -> m_clrbit64(q.mem, q.ndx)
      [] q.op = "m_flipbit64" -> m_flipbit64(q.mem, q.ndx)
      [] q.op = "m_cmpsetbit" -> m_cmpsetbit(q.mem, q.ndx)
      [] q.op = "m_cmpclrbit" -> m_cmpclrbit(q.mem, q.ndx)
      [] q.op = "m_atomor" -> m_atomor(q.mem, q.val)
      [] q.op = "m_atomand" -> m_atomand(q.mem, q.val)
      [] q.op = "m_scanlo1bit" -> m_bsf(q.mem)
      [] q.op = "m_scanhi1bit" -> m_bsr(q.mem)
      [] q.op = "m_bsf64" -> m_bsf64(q.mem)
      [] q.op = "m_bsr64" -> m_bsr64(q.mem)

Alone == {"m_atominc", "m_atomdec", "m_scanlo1bit", "m_scanhi1bit", "m_bsf64", "m_bsr64"}
Valued == {"m_xchg32", "m_xchg64", "m_add32", "m_xadd64", "m_atomor", "m_atomand"}
Swaps == {"m_fetchswap", "m_cmpswap", "m_cmpswapb"}
Doubles == {"m_cmpswapdbl"}
BitOps == {"m_setbit32", "m_clrbit32", "m_flipbit32", "m_setbit64", "m_clrbit64", "m_flipbit64",
           "m_cmpsetbit", "m_cmpclrbit"}

AtomInit == atomcall = [op |-> "none"] /\ atomdid = <<>>

Ask(q) == atomcall' = q /\ atomdid' \in Outcomes(q)

AskAlone == \E op \in Ops \cap Alone, mem \in Mems : Ask([op |-> op, mem |-> mem])
AskValued ==
    \E op \in Ops \cap Valued, mem \in Mems, val \in Args :
        Ask([op |-> op, mem |-> mem, val |-> val])
AskSwap ==
    \E op \in Ops \cap Swaps, mem \in Mems, want, val \in Args :
        Ask([op |-> op, mem |-> mem, want |-> want, val |-> val])
AskDouble ==
    \E op \in Ops \cap Doubles, mem, wants, vals \in Mems :
        Ask([op |-> op, mem |-> mem, wants |-> wants, vals |-> vals])
AskBit ==
    \E op \in Ops \cap BitOps, mem \in Mems, ndx \in 0 .. WordBits - 1 :
        Ask([op |-> op, mem |-> mem, ndx |-> ndx])

\* One call; it finds nothing that an earlier one left but the memory.
AtomNext ==
    atomcall.op = "none" /\ (AskAlone \/ AskValued \/ AskSwap \/ AskDouble \/ AskBit)

AtomSpec == AtomInit /\ [][AtomNext]_atomvars
---------------------------------------------------------------------------
(* What mach.h says of the memory, and of the result.                      *)

Equal(q) == Lo(q.mem) = q.want
SaidMemory(q) ==
    CASE q.op = "m_atominc" -> PutLow(q.mem, Lo(q.mem) + 1)
      [] q.op = "m_atomdec" -> PutLow(q.mem, Lo(q.mem) + Word - 1)
      [] q.op \in {"m_xchg32", "m_xchg64"} -> PutLow(q.mem, q.val)
      [] q.op \in {"m_add32", "m_xadd64"} -> PutLow(q.mem, Lo(q.mem) + q.val)
      [] q.op \in {"m_fetchswap", "m_cmpswap"} -> IF Equal(q) THEN PutLow(q.mem, q.val) ELSE q.mem
      [] q.op = "m_cmpswapb" ->
            IF q.mem % Byte = q.want % Byte THEN (q.mem - (q.mem % Byte)) + (q.val % Byte) ELSE q.mem
      [] q.op = "m_cmpswapdbl" -> IF q.mem = q.wants THEN q.vals ELSE q.mem
      [] q.op \in {"m_setbit32", "m_setbit64", "m_cmpsetbit"} ->
            q.mem + IF Bit(q.mem, q.ndx) = 0 THEN 2 ^ q.ndx ELSE 0
      [] q.op \in {"m_clrbit32", "m_clrbit64", "m_cmpclrbit"} ->
            q.mem - IF Bit(q.mem, q.ndx) = 1 THEN 2 ^ q.ndx ELSE 0
      [] q.op \in {"m_flipbit32", "m_flipbit64"} ->
            IF Bit(q.mem, q.ndx) = 1 THEN q.mem - 2 ^ q.ndx ELSE q.mem + 2 ^ q.ndx
      [] q.op = "m_atomor" -> PutLow(q.mem, Lo(q.mem) + q.val - And(Lo(q.mem), q.val))
      [] q.op = "m_atomand" -> PutLow(q.mem, Lo(q.mem) + q.val - Or(Lo(q.mem), q.val))
      [] OTHER -> q.mem

\* The operations whose assembly does not leave in memory what is said, or does
\* not return it, because of an operand that was not loaded, an address, or an
\* instruction that is another's.
OtherMemory == {"m_xchg64", "m_add32", "m_xadd64", "m_setbit64", "m_clrbit64", "m_clrbit32", "m_flipbit32"}
OtherResult == {"m_xchg32", "m_add32", "m_cmpswapdbl", "m_cmpsetbit", "m_cmpclrbit"}

\* Every other operation leaves in memory what its description says, whatever
\* the registers held, and does not touch the word behind its own.
MemorySaid ==
    atomcall.op \in OtherMemory \cup {"none"} \/ atomdid.mem = SaidMemory(atomcall)

Taken(q) == Bit(q.mem, q.ndx) = 1
Ones(q) == {i \in 0 .. WordBits - 1 : Bit(q.mem, i) = 1}
Ones64(q) == {i \in 0 .. 2 * WordBits - 1 : Bit(q.mem, i) = 1}
Agrees(q, ret) ==
    CASE q.op \in {"m_xchg32", "m_xchg64", "m_add32", "m_xadd64", "m_fetchswap"} -> ret = Lo(q.mem)
      [] q.op = "m_cmpswap" -> (ret # 0) = Equal(q)
      [] q.op = "m_cmpswapb" -> (ret # 0) = (q.mem % Byte = q.want % Byte)
      [] q.op = "m_cmpswapdbl" -> (ret # 0) = (q.mem = q.wants)
      [] q.op \in {"m_cmpsetbit", "m_cmpclrbit"} -> (ret # 0) = Taken(q)
      [] q.op = "m_scanlo1bit" -> Ones(q) = {} \/ ret = Min(Ones(q))
      [] q.op = "m_scanhi1bit" -> Ones(q) = {} \/ ret = Max(Ones(q))
      [] q.op = "m_bsf64" -> Ones64(q) = {} \/ ret = Min(Ones64(q))
      [] q.op = "m_bsr64" -> Ones64(q) = {} \/ ret = Max(Ones64(q))
      [] q.op = "m_atomor" ->
            \A i \in 0 .. WordBits - 1 : (Bit(ret, i) = 1) = (i \in Ones(q) \/ Bit(q.val, i) = 1)
      [] q.op = "m_atomand" ->
            \A i \in 0 .. WordBits - 1 : (Bit(ret, i) = 1) = (i \in Ones(q) /\ Bit(q.val, i) = 1)
      [] OTHER -> TRUE

\* Every other operation returns what its description says: the earlier word,
\* whether it succeeded, or the place of a bit; also when registers held anything.
ResultSaid ==
    atomcall.op \in OtherResult \cup {"none"} \/ Agrees(atomcall, atomdid.ret)
=============================================================================
