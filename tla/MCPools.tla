------------------------------ MODULE MCPools ------------------------------
(* The concurrent parts of libmt, libzen and libprng, one at a time: which  *)
(* of them runs is chosen at the start, and the others stay in their       *)
(* initial states.                                                         *)
EXTENDS StkPool, HdrPool, Semaphore, RecMutex, RandLock, BitLock, Conditions, TLC

CONSTANTS t1, t2, t3, t4

VARIABLE pool

PoolsInit ==
    /\ pool \in {"stacks", "headers", "semaphore", "recursive", "random", "bits",
                "conditions"}
    /\ StkInit /\ HdrInit /\ RecInit /\ RandInit /\ BitInit /\ CondInit
    /\ SemInit /\ (pool # "semaphore" => val = 0)

OnlyStk == pool = "stacks"
           /\ UNCHANGED <<pool, hdrvars, semvars, recvars, randvars, bitvars, condvars>>
OnlyHdr == pool = "headers"
           /\ UNCHANGED <<pool, stkvars, semvars, recvars, randvars, bitvars, condvars>>
OnlySem == pool = "semaphore"
           /\ UNCHANGED <<pool, stkvars, hdrvars, recvars, randvars, bitvars, condvars>>
OnlyRec == pool = "recursive"
           /\ UNCHANGED <<pool, stkvars, hdrvars, semvars, randvars, bitvars, condvars>>
OnlyRand == pool = "random"
           /\ UNCHANGED <<pool, stkvars, hdrvars, semvars, recvars, bitvars, condvars>>
OnlyBit == pool = "bits"
           /\ UNCHANGED <<pool, stkvars, hdrvars, semvars, recvars, randvars, condvars>>

OnlyCond ==
    pool = "conditions" /\ UNCHANGED <<pool, stkvars, hdrvars, semvars, recvars, randvars, bitvars>>

PoolsNext ==
    \/ OnlyStk /\ StkNext
    \/ OnlyHdr /\ HdrNext
    \/ OnlySem /\ SemNext
    \/ OnlyRec /\ RecNext
    \/ OnlyRand /\ RandNext
    \/ OnlyBit /\ BitNext
    \/ OnlyCond /\ CondNext

poolsvars == <<pool, stkvars, hdrvars, semvars, recvars, randvars, bitvars, condvars>>

\* The fairness of the part that runs: StkFair, HdrFair, SemFair, RecFair,
\* RandFair, BitFair and CondFair.
Goes(t) ==
    \/ OnlyStk /\ t \in StkThreads /\ StkContinue(t)
    \/ OnlyHdr /\ t \in HdrThreads /\ HdrContinue(t)
    \/ OnlySem /\ t \in SemThreads /\ SemContinue(t)
    \/ OnlyRec /\ t \in RecThreads /\ RecContinue(t)
    \/ OnlyBit /\ t \in BitThreads /\ (BitContinue(t) \/ BitUnlock(t))
    \/ OnlyCond /\ t \in CondThreads /\ CondContinue(t)
Competes(t) ==
    \/ OnlyRec /\ t \in RecThreads /\ RecUnlock(t)
    \/ OnlyRand /\ t \in RandThreads /\ RandContinue(t)
PoolsFair == \A t \in {t1, t2, t3, t4} : WF_poolsvars(Goes(t)) /\ SF_poolsvars(Competes(t))

PoolsSpec == PoolsInit /\ [][PoolsNext]_poolsvars /\ PoolsFair
---------------------------------------------------------------------------
\* The heads, links and registers of the pools, the value and the words of the
\* locks and the index of the generator have their types (struct stkitem,
\* struct memhdr, struct mtsem, mtrecfmtx, randmt64curndx).
PoolsTypeOK == StkTypeOK /\ HdrTypeOK /\ SemTypeOK /\ RecTypeOK /\ RandTypeOK

\* One way leads to each item and header that is in a pool, forward and back; and
\* to each thread that sleeps on a condition, and to nobody else (stkpoolpush,
\* stkpoolpop, memgetbuf, memputbuf, mtsleepthr2).
LinksSound == StkKeeps /\ HdrLinks /\ SleepersQueued

\* One thread at a time has a recursive mutex that nobody nests, works on the
\* generator once its mutex is made, or has a bit of a word that m_cmpsetbit never
\* called clear while it was set (mttryrecfmtx, mtlkrecfmtx, _randmt64mtxinit,
\* mtlkbit, m_trylkbit).
OneInside == FlatExclusion /\ SettledExclusion /\ BitExclusion

\* What the locks are for: the units of a semaphore are accounted for and its
\* lock comes back, no word of the generator is read that is not there, a bit is set
\* only for its owner or after m_cmpsetbit has kept it from one, the other bits of a
\* lock's word stay, and who waits on a condition has its mutex
\* (mtwaitsem, sempost, randmt64, mtunlkbit, mtwaitcond).
GuardedHolds ==
    UnitsKept /\ LockReturned /\ IndexInside /\ BitNamesOwner /\ WaitsBlock

\* Somebody who works in a pool finishes; a unit goes to one who waits; a
\* mutex taken becomes free; a call of the generator returns; a bit that is not lost
\* is given to someone; and who was woken from a condition gets the mutex when it is free.
PoolsProgress ==
    \A t \in RandThreads :
        []<>~(StkUseful \/ HdrUseful \/ UnitAwaited \/ StillTaken \/ CallLasts(t) \/ BitAwaited
              \/ WokenLeft)
---------------------------------------------------------------------------
(* Two locks in the first byte of a word that holds a pointer besides; the *)
(* second is taken with m_lkbit.                                           *)
MCUses == (t1 :> {0}) @@ (t2 :> {0}) @@ (t3 :> {0, 1}) @@ (t4 :> {1})
MCCalls == (0 :> {"mtlkbit", "m_trylkbit"}) @@ (1 :> {"m_lkbit"})
MCRest == [i \in MemBits |-> IF i \in {2, 4, 6, 7, 13, 14} THEN 1 ELSE 0]
===========================================================================
