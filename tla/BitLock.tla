------------------------------ MODULE BitLock ------------------------------
(***************************************************************************)
(* Locks that are single bits of a word: mtlkbit and mtunlkbit of mt/lk.h, *)
(* and m_lkbit, m_trylkbit and m_unlkbit of mach/asm.h, on a 32-bit        *)
(* machine.  Every read of the word and every instruction is an action;    *)
(* the word has other bits, and there is a word behind it.                 *)
(*                                                                         *)
(* m_cmpsetbit32 increments a register that nothing has loaded, so what it *)
(* returns may be wrong in two ways; the history variables lost and stolen *)
(* name the locks to which that has happened.                              *)
(***************************************************************************)
EXTENDS Naturals, FiniteSets

CONSTANTS ByteBits,    \* bits of a byte; a word has four bytes
          BitThreads,  \* the threads
          Places,      \* the bits of the word that are locks
          Uses,        \* the locks that each thread uses
          Calls,       \* the functions that are called for each lock
          Rest,        \* the bits of the memory when no lock is taken
          Address      \* the bits that are set in the address of the word

WordBits == 4 * ByteBits
MemBits == 0 .. 2 * WordBits - 1

\* What the register of a result may hold before: zero, all ones, or something
\* that neither is nor becomes zero by an increment.
Registers == {"zero", "ones", "other"}

ASSUME BitAssumption ==
    /\ ByteBits \in Nat \ {0} /\ Places \subseteq 0 .. WordBits - 1
    /\ \A t \in BitThreads : Uses[t] \subseteq Places /\ Uses[t] # {}
    /\ \A p \in Places : Calls[p] \subseteq {"mtlkbit", "m_trylkbit", "m_lkbit"}
    /\ Rest \in [MemBits -> {0, 1}] /\ \A p \in Places : Rest[p] = 0

VARIABLES mem,    \* the bits of the word and of the word behind it
          bpc,    \* where each thread is
          place,  \* the lock it uses
          lost,   \* locks whose bit was set by a call that was told it was set before
          stolen  \* locks whose bit was set when a call was told that it was not

bitvars == <<mem, bpc, place, lost, stolen>>

BitInit ==
    /\ mem = Rest
    /\ bpc = [t \in BitThreads |-> "idle"]
    /\ place = [t \in BitThreads |-> CHOOSE p \in Uses[t] : TRUE]
    /\ lost = {} /\ stolen = {}

BitGo(t, p) == bpc' = [bpc EXCEPT ![t] = p]

\* A thread calls one of the functions for one of the locks.
CallBit(t) ==
    /\ bpc[t] = "idle"
    /\ \E p \in Uses[t] : \E f \in Calls[p] :
          BitGo(t, f) /\ place' = [place EXCEPT ![t] = p]
    /\ UNCHANGED <<mem, lost, stolen>>

\* m_cmpsetbit increments its result, which nothing has loaded, if the bit was set.
ComesToZero(reg, bit) == (reg = "zero" /\ bit = 0) \/ (reg = "ones" /\ bit = 1)

\* m_cmpsetbit on the thread's bit; a result of zero leads to p, others to q.
CmpSet(t, p, q) ==
    LET l == place[t]
    IN  /\ mem' = [mem EXCEPT ![l] = 1]
        /\ \E reg \in Registers :
              LET zero == ComesToZero(reg, mem[l])
              IN  /\ BitGo(t, IF zero THEN p ELSE q)
                  /\ lost' = IF mem[l] = 0 /\ ~zero THEN lost \cup {l} ELSE lost
                  /\ stolen' = IF mem[l] = 1 /\ zero THEN stolen \cup {l} ELSE stolen
        /\ UNCHANGED place

MtSpin(t) ==
    /\ bpc[t] = "mtlkbit" /\ mem[place[t]] = 0 /\ BitGo(t, "mt_set")
    /\ UNCHANGED <<mem, place, lost, stolen>>
MtSet(t) == bpc[t] = "mt_set" /\ CmpSet(t, "in", "mtlkbit")

Try(t) == bpc[t] = "m_trylkbit" /\ CmpSet(t, "in", "idle")

\* m_lkbit looks at the address of the word and goes on when the bit was set.
LkSpin(t) ==
    /\ bpc[t] = "m_lkbit" /\ place[t] \notin Address /\ BitGo(t, "m_set")
    /\ UNCHANGED <<mem, place, lost, stolen>>
LkSet(t) == bpc[t] = "m_set" /\ CmpSet(t, "m_lkbit", "in")

\* m_clrbit32 applies the mask for the word to the word ndx / 8 bytes after it.
BitUnlock(t) ==
    /\ bpc[t] = "in" /\ BitGo(t, "idle")
    /\ mem' = [mem EXCEPT ![place[t] + ByteBits * (place[t] \div ByteBits)] = 0]
    /\ lost' = lost \ {place[t]}
    /\ UNCHANGED <<place, stolen>>

BitContinue(t) == MtSpin(t) \/ MtSet(t) \/ Try(t) \/ LkSpin(t) \/ LkSet(t)

BitNext == \E t \in BitThreads : CallBit(t) \/ BitContinue(t) \/ BitUnlock(t)

\* The scheduler runs every thread, and who has a lock gives it back.
BitFair == \A t \in BitThreads : WF_bitvars(BitContinue(t)) /\ WF_bitvars(BitUnlock(t))

BitSpec == BitInit /\ [][BitNext]_bitvars /\ BitFair
---------------------------------------------------------------------------
Owners(p) == {t \in BitThreads : place[t] = p /\ bpc[t] = "in"}

\* The locks that nobody takes with m_lkbit.
MtPlaces == {p \in Places : "m_lkbit" \notin Calls[p]}

\* No two threads have the same lock, if nobody takes it with m_lkbit and it was
\* given to nobody as clear while it was set.
BitExclusion == \A p \in MtPlaces \ stolen : Cardinality(Owners(p)) <= 1

\* The bit of such a lock is set exactly while it is taken or lost, and nobody
\* has a lost one; what is in the rest of the word and behind it stays, whoever
\* uses the other locks and whatever the register held.
BitNamesOwner ==
    \A i \in MemBits \ (Places \ MtPlaces) :
        IF i \notin Places THEN mem[i] = Rest[i]
        ELSE i \notin stolen =>
                 mem[i] = Cardinality(Owners(i)) + (IF i \in lost THEN 1 ELSE 0)

\* When somebody waits for such a lock that is not lost, somebody gets it.
BitAwaited ==
    \E p \in MtPlaces \ lost :
        Owners(p) = {} /\ \E t \in BitThreads : place[t] = p /\ bpc[t] \in {"mtlkbit", "mt_set"}

SomeoneGetsBit == []<>~BitAwaited
=============================================================================
