----------------------------- MODULE FastMutex -----------------------------
(***************************************************************************)
(* The fast mutex of libmt (mt/mtx.h): a lock word that is 0 when free and *)
(* 1 when taken, spun on with plain reads, taken with compare-and-swap and *)
(* given back with a plain store after a full memory barrier.              *)
(*                                                                         *)
(* A plain store goes to the storing thread's buffer and reaches memory    *)
(* later; the stores of one buffer may drain in any order, which is weaker *)
(* than what x86 guarantees, so that what holds here is owed to the        *)
(* barrier of the code and not to the processor.                           *)
(*                                                                         *)
(* The mutex protects one shared counter, data, that every critical        *)
(* section reads and writes back incremented.                              *)
(***************************************************************************)
EXTENDS Naturals

CONSTANTS Threads,   \* the threads that share the mutex
          DataMod,   \* the protected counter wraps at DataMod
          Arch       \* whose mach/asm.h the library is built with

ASSUME DataModAssumption == DataMod \in Nat \ {0}
ASSUME ArchAssumption == Arch \in {"x86", "arm"}

INITVAL == 0
LKVAL == 1

Data == 0 .. DataMod - 1
NoVal == DataMod             \* a data buffer with nothing in it

Inc(v) == IF v = DataMod - 1 THEN 0 ELSE v + 1

VARIABLES pc,       \* where each thread is
          lk,       \* the lock word in memory
          lkbuf,    \* TRUE: the thread's store of INITVAL is still buffered
          data,     \* the protected counter in memory
          databuf,  \* the thread's buffered store to data, or NoVal
          reg,      \* the value the thread read from data
          total     \* history: how many critical sections stored to data

vars == <<pc, lk, lkbuf, data, databuf, reg, total>>

PCs == {"idle", "try_test", "try_cas", "spin", "cas",
        "enter", "store", "unlk", "release"}

\* The program points at which the code believes it holds the mutex.
InCS == {"enter", "store", "unlk", "release"}

\* mtinitfmtx: barrier, then *lp = MTMTXINITVAL, before the lock is shared.
Init ==
    /\ pc = [t \in Threads |-> "idle"]
    /\ lk = INITVAL
    /\ lkbuf = [t \in Threads |-> FALSE]
    /\ data = 0
    /\ databuf = [t \in Threads |-> NoVal]
    /\ reg = [t \in Threads |-> 0]
    /\ total = 0

Goto(t, p) == pc' = [pc EXCEPT ![t] = p]
---------------------------------------------------------------------------
(* Memory.                                                                 *)

\* A thread's plain read sees its own buffered store first.
ReadsFree(t) == lkbuf[t] \/ lk = INITVAL

Drained(t) == ~lkbuf[t] /\ databuf[t] = NoVal

\* Mutant: no barrier in mtunlkfmtx.
MembarNone(t) == TRUE

\* m_membar is mfence on x86 and only a compiler barrier on arm.
Membar(t) == Arch = "x86" => Drained(t)

\* What a successful m_cmpswap leaves in the word: the arm version swaps the
\* zeroed result register into memory and never stores val.
CasStores(val) == IF Arch = "x86" THEN val ELSE 0

\* Mutant: the word is swapped without being compared.
CasBlind(t) ==
    /\ Drained(t)
    /\ lk' = CasStores(LKVAL)

\* m_cmpswap(lp, MTMTXINITVAL, MTMTXLKVAL): locked, so the buffer is empty.
CasSucceeds(t) ==
    /\ Drained(t)
    /\ lk = INITVAL
    /\ lk' = CasStores(LKVAL)

CasFails(t) ==
    /\ Drained(t)
    /\ lk # INITVAL
    /\ UNCHANGED lk

DrainLk(t) ==
    /\ lkbuf[t]
    /\ lk' = INITVAL
    /\ lkbuf' = [lkbuf EXCEPT ![t] = FALSE]
    /\ UNCHANGED <<pc, data, databuf, reg, total>>

DrainData(t) ==
    /\ databuf[t] # NoVal
    /\ data' = databuf[t]
    /\ databuf' = [databuf EXCEPT ![t] = NoVal]
    /\ UNCHANGED <<pc, lk, lkbuf, reg, total>>
---------------------------------------------------------------------------
(* mttryfmtx: test, then one compare-and-swap; zero if already locked.     *)

CallTry(t) ==
    /\ pc[t] = "idle"
    /\ Goto(t, "try_test")
    /\ UNCHANGED <<lk, lkbuf, data, databuf, reg, total>>

TryTest(t) ==
    /\ pc[t] = "try_test"
    /\ Goto(t, IF ReadsFree(t) THEN "try_cas" ELSE "idle")
    /\ UNCHANGED <<lk, lkbuf, data, databuf, reg, total>>

\* Mutant: the result of m_cmpswap is taken the wrong way round.
TryCasInverted(t) ==
    /\ pc[t] = "try_cas"
    /\ \/ CasSucceeds(t) /\ Goto(t, "idle")
       \/ CasFails(t) /\ Goto(t, "enter")
    /\ UNCHANGED <<lkbuf, data, databuf, reg, total>>

TryCas(t) ==
    /\ pc[t] = "try_cas"
    /\ \/ CasSucceeds(t) /\ Goto(t, "enter")
       \/ CasFails(t) /\ Goto(t, "idle")
    /\ UNCHANGED <<lkbuf, data, databuf, reg, total>>
---------------------------------------------------------------------------
(* mtlkfmtx: spin on reads until the word is free, then compare-and-swap,  *)
(* and back to spinning if another thread was faster.                      *)

CallLock(t) ==
    /\ pc[t] = "idle"
    /\ Goto(t, "spin")
    /\ UNCHANGED <<lk, lkbuf, data, databuf, reg, total>>

Spin(t) ==
    /\ pc[t] = "spin"
    /\ ReadsFree(t)
    /\ Goto(t, "cas")
    /\ UNCHANGED <<lk, lkbuf, data, databuf, reg, total>>

Cas(t) ==
    /\ pc[t] = "cas"
    /\ \/ CasSucceeds(t) /\ Goto(t, "enter")
       \/ CasFails(t) /\ Goto(t, "spin")
    /\ UNCHANGED <<lkbuf, data, databuf, reg, total>>
---------------------------------------------------------------------------
(* The caller's critical section.                                          *)

Load(t) ==
    /\ pc[t] = "enter"
    /\ reg' = [reg EXCEPT ![t] = IF databuf[t] # NoVal THEN databuf[t] ELSE data]
    /\ Goto(t, "store")
    /\ UNCHANGED <<lk, lkbuf, data, databuf, total>>

Store(t) ==
    /\ pc[t] = "store"
    /\ databuf' = [databuf EXCEPT ![t] = Inc(reg[t])]
    /\ total' = Inc(total)
    /\ Goto(t, "unlk")
    /\ UNCHANGED <<lk, lkbuf, data, reg>>
---------------------------------------------------------------------------
(* mtunlkfmtx: full barrier, then the lazy store of MTMTXINITVAL.          *)

Unlock(t) ==
    /\ pc[t] = "unlk"
    /\ Membar(t)
    /\ Goto(t, "release")
    /\ UNCHANGED <<lk, lkbuf, data, databuf, reg, total>>

\* Mutant: the store that gives the lock back is missing.
ReleaseForgets(t) ==
    /\ pc[t] = "release"
    /\ Goto(t, "idle")
    /\ UNCHANGED <<lk, lkbuf, data, databuf, reg, total>>

Release(t) ==
    /\ pc[t] = "release"
    /\ lkbuf' = [lkbuf EXCEPT ![t] = TRUE]
    /\ Goto(t, "idle")
    /\ UNCHANGED <<lk, data, databuf, reg, total>>
---------------------------------------------------------------------------
\* What a thread must go on doing once it has called the library; whether it
\* ever calls again is its own choice.
Continue(t) ==
    \/ TryTest(t) \/ TryCas(t)
    \/ Spin(t) \/ Cas(t)
    \/ Load(t) \/ Store(t)
    \/ Unlock(t) \/ Release(t)

Drain(t) == DrainLk(t) \/ DrainData(t)

Next == \E t \in Threads : CallTry(t) \/ CallLock(t) \/ Continue(t) \/ Drain(t)

Spec == Init /\ [][Next]_vars

\* Every running thread is scheduled again and every buffered store drains.
FairSpec ==
    /\ Spec
    /\ \A t \in Threads : WF_vars(Continue(t)) /\ WF_vars(DrainLk(t)) /\ WF_vars(DrainData(t))
---------------------------------------------------------------------------
TypeOK ==
    /\ pc \in [Threads -> PCs]
    /\ lk \in {INITVAL, LKVAL}
    /\ lkbuf \in [Threads -> BOOLEAN]
    /\ data \in Data
    /\ databuf \in [Threads -> Data \cup {NoVal}]
    /\ reg \in [Threads -> Data]
    /\ total \in Data

\* Two threads are never both between a successful m_cmpswap and the store
\* that gives the lock back (mtlkfmtx, mttryfmtx, mtunlkfmtx).
MutualExclusion ==
    \A t, u \in Threads : pc[t] \in InCS /\ pc[u] \in InCS => t = u

\* Nothing a critical section stored is lost: a thread that has just taken
\* the mutex finds in memory all that the earlier owners wrote, because the
\* barrier of mtunlkfmtx orders their stores before the store to the lock.
NoLostUpdate ==
    \A t \in Threads : pc[t] = "enter" => data = total

\* The threads whose acquisition memory still shows, for the mapping below.
Owners == {t \in Threads : pc[t] \in InCS \/ lkbuf[t]}

Mode(t) ==
    IF pc[t] \in InCS THEN "in"
    ELSE IF pc[t] \in {"try_test", "try_cas"} THEN "try"
    ELSE IF pc[t] \in {"spin", "cas"} THEN "lock"
    ELSE "out"

\* The fast mutex is a lock: in particular mttryfmtx returns zero only at an
\* instant when another thread has the lock.
AbsLock == INSTANCE Lock WITH mode <- [t \in Threads |-> Mode(t)], owners <- Owners

ImplementsLock == AbsLock!Spec

\* While a thread spins in mtlkfmtx somebody always gets in: the mutex may
\* starve one thread but never all of them.
SomeoneEnters ==
    \A t \in Threads : pc[t] \in {"spin", "cas"} ~> \E u \in Threads : pc[u] = "enter"
===========================================================================
