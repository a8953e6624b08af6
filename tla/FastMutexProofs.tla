------------------------- MODULE FastMutexProofs -------------------------
(***************************************************************************)
(* The fast mutex is exclusive, loses no update and implements the         *)
(* abstract lock, for any set of threads and any counter, on x86.          *)
(*                                                                         *)
(* MutualExclusion is not inductive: it says nothing of the stores still   *)
(* buffered after a release.  IInv adds them: an owner is a thread in its  *)
(* critical section or one whose releasing store has not drained, there    *)
(* is at most one, and the lock word says whether there is one; a thread   *)
(* whose data store is buffered stands before the barrier.                 *)
(***************************************************************************)
EXTENDS FastMutex, TLAPS

LockWord == (lk = LKVAL) <=> (Owners # {})

OneOwner == \A t, u \in Owners : t = u

ReleaseBuffered ==
    \A t \in Threads : lkbuf[t] => pc[t] \notin InCS /\ databuf[t] = NoVal

StoreBuffered ==
    \A t \in Threads :
        databuf[t] # NoVal => pc[t] = "unlk" /\ databuf[t] = total

DataCurrent ==
    /\ (\A t \in Threads : databuf[t] = NoVal) => data = total
    /\ \A t \in Threads : pc[t] = "store" => reg[t] = total

IInv ==
    /\ TypeOK
    /\ LockWord
    /\ OneOwner
    /\ ReleaseBuffered
    /\ StoreBuffered
    /\ DataCurrent
---------------------------------------------------------------------------
\* The protected counter stays in its range when it is incremented.
LEMMA IncType == \A v \in Data : Inc(v) \in Data
  BY DataModAssumption DEF Data, Inc

\* An empty data buffer cannot be taken for a value of the counter.
LEMMA NoValType == NoVal \notin Data
  BY DataModAssumption DEF Data, NoVal

\* mtinitfmtx establishes the inductive invariant.
LEMMA InitInv == Init => IInv
  <1> SUFFICES ASSUME Init PROVE IInv
    OBVIOUS
  <1>1. TypeOK
    BY DataModAssumption DEF Init, TypeOK, PCs, Data, INITVAL, LKVAL
  <1>2. Owners = {}
    BY DEF Init, Owners, InCS
  <1>3. LockWord /\ OneOwner
    BY <1>2 DEF Init, LockWord, OneOwner, INITVAL, LKVAL
  <1>4. ReleaseBuffered /\ StoreBuffered /\ DataCurrent
    BY DEF Init, ReleaseBuffered, StoreBuffered, DataCurrent
  <1> QED
    BY <1>1, <1>3, <1>4 DEF IInv

\* TypeOK is preserved by every step.
LEMMA TypePreserved == TypeOK /\ [Next]_vars => TypeOK'
  <1> SUFFICES ASSUME TypeOK, [Next]_vars PROVE TypeOK'
    OBVIOUS
  <1> USE DEF TypeOK, PCs, Goto, INITVAL, LKVAL
  <1>1. CASE UNCHANGED vars
    BY <1>1 DEF vars
  <1>2. ASSUME NEW t \in Threads, CallTry(t) \/ CallLock(t) PROVE TypeOK'
    BY <1>2 DEF CallTry, CallLock
  <1>3. ASSUME NEW t \in Threads, TryTest(t) \/ Spin(t) PROVE TypeOK'
    BY <1>3 DEF TryTest, Spin
  <1>4. ASSUME NEW t \in Threads, TryCas(t) \/ Cas(t) PROVE TypeOK'
    BY <1>4 DEF TryCas, Cas, CasSucceeds, CasFails, CasStores
  <1>5. ASSUME NEW t \in Threads, Load(t) PROVE TypeOK'
    BY <1>5 DEF Load
  <1>6. ASSUME NEW t \in Threads, Store(t) PROVE TypeOK'
    BY <1>6, IncType DEF Store
  <1>7. ASSUME NEW t \in Threads, Unlock(t) \/ Release(t) PROVE TypeOK'
    BY <1>7 DEF Unlock, Release
  <1>8. ASSUME NEW t \in Threads, DrainLk(t) \/ DrainData(t) PROVE TypeOK'
    BY <1>8 DEF DrainLk, DrainData
  <1> QED
    BY <1>1, <1>2, <1>3, <1>4, <1>5, <1>6, <1>7, <1>8
       DEF Next, Continue, Drain

\* The reads, the critical section and the barrier do not change who owns the
\* lock.  This and the next four lemmas are shared by the preservation proof
\* and the refinement proof.
LEMMA OwnersKept ==
  ASSUME TypeOK, NEW t \in Threads,
         \/ CallTry(t) \/ CallLock(t) \/ TryTest(t) \/ Spin(t)
         \/ Load(t) \/ Store(t) \/ Unlock(t) \/ DrainData(t)
  PROVE  Owners' = Owners
  BY DEF TypeOK, Owners, InCS, Goto, CallTry, CallLock, TryTest, Spin,
         Load, Store, Unlock, DrainData

\* A successful compare-and-swap makes the thread an owner.
LEMMA OwnerJoins ==
  ASSUME TypeOK, NEW t \in Threads, pc[t] \in {"try_cas", "cas"},
         Goto(t, "enter"), UNCHANGED lkbuf
  PROVE  Owners' = Owners \cup {t}
  BY DEF TypeOK, Owners, InCS, Goto

\* A failed compare-and-swap changes no owner.
LEMMA RefusedKeepsOwners ==
  ASSUME TypeOK, NEW t \in Threads, pc[t] \in {"try_cas", "cas"},
         Goto(t, "idle") \/ Goto(t, "spin"), UNCHANGED lkbuf
  PROVE  Owners' = Owners
  BY DEF TypeOK, Owners, InCS, Goto

\* Executing the releasing store does not yet give the lock back: the store
\* is only buffered.
LEMMA ReleaseKeepsOwners ==
  ASSUME TypeOK, NEW t \in Threads, Release(t)
  PROVE  Owners' = Owners
  BY DEF TypeOK, Owners, InCS, Goto, Release

\* The releasing store reaching memory ends the ownership.
LEMMA OwnerLeaves ==
  ASSUME TypeOK, ReleaseBuffered, NEW t \in Threads, DrainLk(t)
  PROVE  Owners' = Owners \ {t}
  BY DEF TypeOK, ReleaseBuffered, Owners, DrainLk
---------------------------------------------------------------------------
\* Every step of the x86 mutex preserves the invariant.
LEMMA StepInv ==
  ASSUME Arch = "x86", IInv, [Next]_vars
  PROVE  IInv'
  <1> USE DEF IInv
  <1>0. TypeOK'
    BY TypePreserved
  <1>1. CASE UNCHANGED vars
    BY <1>1 DEF vars, TypeOK, LockWord, OneOwner, Owners, ReleaseBuffered,
                StoreBuffered, DataCurrent
  <1>2. ASSUME NEW t \in Threads,
               CallTry(t) \/ CallLock(t) \/ TryTest(t) \/ Spin(t)
        PROVE  IInv'
    <2>1. Owners' = Owners
      BY <1>2, OwnersKept
    <2>2. LockWord' /\ OneOwner'
      BY <1>2, <2>1 DEF LockWord, OneOwner, CallTry, CallLock, TryTest, Spin
    <2>3. ReleaseBuffered' /\ StoreBuffered' /\ DataCurrent'
      BY <1>2 DEF TypeOK, ReleaseBuffered, StoreBuffered, DataCurrent, InCS,
                  Goto, CallTry, CallLock, TryTest, Spin
    <2> QED
      BY <1>0, <2>2, <2>3
  <1>3. ASSUME NEW t \in Threads, TryCas(t) \/ Cas(t), CasSucceeds(t)
        PROVE  IInv'
    <2>1. Goto(t, "enter") /\ UNCHANGED <<lkbuf, data, databuf, reg, total>>
      BY <1>3 DEF TryCas, Cas, CasSucceeds, CasFails
    <2>2. Owners = {} /\ Owners' = {t} /\ lk' = LKVAL
      <3>1. Owners' = Owners \cup {t}
        BY <1>3, <2>1, OwnerJoins DEF TryCas, Cas
      <3> QED
        BY <1>3, <3>1 DEF CasSucceeds, CasStores, LockWord, TypeOK, LKVAL, INITVAL
    <2>3. LockWord' /\ OneOwner'
      BY <2>2 DEF LockWord, OneOwner
    <2>4. ReleaseBuffered' /\ StoreBuffered' /\ DataCurrent'
      BY <1>3, <2>1 DEF TypeOK, ReleaseBuffered, StoreBuffered, DataCurrent,
                        Goto, CasSucceeds, Drained
    <2> QED
      BY <1>0, <2>3, <2>4
  <1>4. ASSUME NEW t \in Threads, TryCas(t) \/ Cas(t), CasFails(t)
        PROVE  IInv'
    <2>1. /\ Goto(t, "idle") \/ Goto(t, "spin")
          /\ UNCHANGED <<lk, lkbuf, data, databuf, reg, total>>
      BY <1>4 DEF TryCas, Cas, CasSucceeds, CasFails
    <2>2. Owners' = Owners
      BY <1>4, <2>1, RefusedKeepsOwners DEF TryCas, Cas
    <2>3. LockWord' /\ OneOwner'
      BY <2>1, <2>2 DEF LockWord, OneOwner
    <2>4. ReleaseBuffered' /\ StoreBuffered' /\ DataCurrent'
      BY <1>4, <2>1 DEF TypeOK, ReleaseBuffered, StoreBuffered, DataCurrent,
                        Goto, InCS, TryCas, Cas
    <2> QED
      BY <1>0, <2>3, <2>4
  <1>5. ASSUME NEW t \in Threads, Load(t) PROVE IInv'
    <2>1. Owners' = Owners
      BY <1>5, OwnersKept
    <2>2. LockWord' /\ OneOwner'
      BY <1>5, <2>1 DEF LockWord, OneOwner, Load
    <2>3. t \in Owners
      BY <1>5 DEF Load, Owners, InCS
    <2>4. \A u \in Threads : databuf[u] # NoVal => u \in Owners
      BY DEF StoreBuffered, Owners, InCS
    <2>5. data = total /\ databuf[t] = NoVal
      BY <1>5, <2>3, <2>4 DEF OneOwner, StoreBuffered, DataCurrent, Load
    <2>6. ReleaseBuffered' /\ StoreBuffered' /\ DataCurrent'
      BY <1>5, <2>5 DEF TypeOK, ReleaseBuffered, StoreBuffered, DataCurrent,
                        Goto, InCS, Load
    <2> QED
      BY <1>0, <2>2, <2>6
  <1>6. ASSUME NEW t \in Threads, Store(t) PROVE IInv'
    <2>1. Owners' = Owners
      BY <1>6, OwnersKept
    <2>2. LockWord' /\ OneOwner'
      BY <1>6, <2>1 DEF LockWord, OneOwner, Store
    <2>3. t \in Owners /\ ~lkbuf[t]
      BY <1>6 DEF Store, Owners, InCS, ReleaseBuffered
    <2>4. \A u \in Threads \ {t} : pc[u] \notin InCS /\ databuf[u] = NoVal
      BY <2>3 DEF Owners, OneOwner, StoreBuffered, InCS
    <2>5. databuf' = [databuf EXCEPT ![t] = total'] /\ total' \in Data
      BY <1>6, IncType DEF Store, DataCurrent, TypeOK
    <2>6. ReleaseBuffered'
      BY <1>6, <2>3 DEF TypeOK, ReleaseBuffered, Goto, InCS, Store
    <2>7. StoreBuffered' /\ DataCurrent'
      BY <1>6, <2>4, <2>5, NoValType DEF TypeOK, StoreBuffered, DataCurrent, Goto, InCS, Store
    <2> QED
      BY <1>0, <2>2, <2>6, <2>7
  <1>7. ASSUME NEW t \in Threads, Unlock(t) PROVE IInv'
    <2>1. Owners' = Owners
      BY <1>7, OwnersKept
    <2>2. LockWord' /\ OneOwner'
      BY <1>7, <2>1 DEF LockWord, OneOwner, Unlock
    <2>3. ReleaseBuffered' /\ StoreBuffered' /\ DataCurrent'
      BY <1>7 DEF TypeOK, ReleaseBuffered, StoreBuffered, DataCurrent,
                  Goto, InCS, Unlock, Membar, Drained
    <2> QED
      BY <1>0, <2>2, <2>3
  <1>8. ASSUME NEW t \in Threads, Release(t) PROVE IInv'
    <2>1. Owners' = Owners
      BY <1>8, ReleaseKeepsOwners
    <2>2. LockWord' /\ OneOwner'
      BY <1>8, <2>1 DEF LockWord, OneOwner, Release
    <2>3. ReleaseBuffered' /\ StoreBuffered' /\ DataCurrent'
      BY <1>8 DEF TypeOK, ReleaseBuffered, StoreBuffered, DataCurrent,
                  Goto, InCS, Release
    <2> QED
      BY <1>0, <2>2, <2>3
  <1>9. ASSUME NEW t \in Threads, DrainLk(t) PROVE IInv'
    <2>1. Owners = {t} /\ Owners' = {}
      BY <1>9, OwnerLeaves DEF DrainLk, Owners, OneOwner
    <2>2. LockWord' /\ OneOwner'
      BY <1>9, <2>1 DEF LockWord, OneOwner, DrainLk, LKVAL, INITVAL
    <2>3. ReleaseBuffered' /\ StoreBuffered' /\ DataCurrent'
      BY <1>9 DEF TypeOK, ReleaseBuffered, StoreBuffered, DataCurrent, DrainLk
    <2> QED
      BY <1>0, <2>2, <2>3
  <1>10. ASSUME NEW t \in Threads, DrainData(t) PROVE IInv'
    <2>1. Owners' = Owners
      BY <1>10, OwnersKept
    <2>2. LockWord' /\ OneOwner'
      BY <1>10, <2>1 DEF LockWord, OneOwner, DrainData
    <2>3. ReleaseBuffered' /\ StoreBuffered'
      BY <1>10 DEF TypeOK, ReleaseBuffered, StoreBuffered, DrainData
    <2>4. DataCurrent'
      BY <1>10 DEF TypeOK, StoreBuffered, DataCurrent, DrainData
    <2> QED
      BY <1>0, <2>2, <2>3, <2>4
  <1> QED
    BY <1>1, <1>2, <1>3, <1>4, <1>5, <1>6, <1>7, <1>8, <1>9, <1>10
       DEF Next, Continue, Drain, TryCas, Cas
---------------------------------------------------------------------------
\* The fast mutex always satisfies the inductive invariant on x86, for every
\* set of threads: mtlkfmtx, mttryfmtx and mtunlkfmtx together.
THEOREM Invariance ==
  ASSUME Arch = "x86"
  PROVE  Spec => []IInv
  <1>1. Init => IInv
    BY InitInv
  <1>2. IInv /\ [Next]_vars => IInv'
    BY StepInv
  <1> QED
    BY <1>1, <1>2, PTL DEF Spec

\* The lock word and the buffers keep their types whatever the processor: the
\* lock word is only ever 0 or 1.
THEOREM TypeCorrect == Spec => []TypeOK
  <1>1. Init => TypeOK
    BY InitInv DEF IInv
  <1>2. TypeOK /\ [Next]_vars => TypeOK'
    BY TypePreserved
  <1> QED
    BY <1>1, <1>2, PTL DEF Spec

\* Never two threads between a successful m_cmpswap and mtunlkfmtx's store.
THEOREM Exclusive ==
  ASSUME Arch = "x86"
  PROVE  Spec => []MutualExclusion
  <1>1. IInv => MutualExclusion
    BY DEF IInv, OneOwner, Owners, MutualExclusion
  <1> QED
    BY <1>1, Invariance, PTL

\* The barrier in mtunlkfmtx makes every critical section's stores visible to
\* the next owner.
THEOREM UpdatesKept ==
  ASSUME Arch = "x86"
  PROVE  Spec => []NoLostUpdate
  <1>1. IInv => NoLostUpdate
    <2> SUFFICES ASSUME IInv, NEW t \in Threads, pc[t] = "enter"
                 PROVE  data = total
      BY DEF NoLostUpdate
    <2>1. \A u \in Threads : databuf[u] = NoVal
      BY DEF IInv, OneOwner, Owners, InCS, StoreBuffered
    <2> QED
      BY <2>1 DEF IInv, DataCurrent
  <1> QED
    BY <1>1, Invariance, PTL
---------------------------------------------------------------------------
\* Every step of the mutex is a step of the abstract lock or leaves it alone.
LEMMA StepRefines ==
  ASSUME Arch = "x86", IInv, [Next]_vars
  PROVE  [AbsLock!Next]_(AbsLock!vars)
  <1> DEFINE mode == [t \in Threads |-> Mode(t)]
  <1> USE DEF IInv
  <1>1. CASE UNCHANGED vars
    <2>1. mode' = mode /\ Owners' = Owners
      BY <1>1 DEF vars, Mode, InCS, Owners
    <2> QED
      BY <2>1 DEF AbsLock!vars
  <1>2. ASSUME NEW t \in Threads, CallTry(t) \/ CallLock(t)
        PROVE  AbsLock!Call(t)
    <2>1. Owners' = Owners
      BY <1>2, OwnersKept
    <2>2. /\ mode[t] = "out"
          /\ \E m \in {"lock", "try"} : mode' = [mode EXCEPT ![t] = m]
      <3>1. CASE CallTry(t)
        <4>1. mode' = [mode EXCEPT ![t] = "try"]
          BY <3>1 DEF CallTry, Goto, Mode, InCS, TypeOK
        <4> QED
          BY <3>1, <4>1 DEF CallTry, Mode, InCS
      <3>2. CASE CallLock(t)
        <4>1. mode' = [mode EXCEPT ![t] = "lock"]
          BY <3>2 DEF CallLock, Goto, Mode, InCS, TypeOK
        <4> QED
          BY <3>2, <4>1 DEF CallLock, Mode, InCS
      <3> QED
        BY <1>2, <3>1, <3>2
    <2> QED
      BY <2>1, <2>2 DEF AbsLock!Call
  <1>3. ASSUME NEW t \in Threads, TryTest(t)
        PROVE  AbsLock!Refuse(t) \/ UNCHANGED AbsLock!vars
    <2>1. Owners' = Owners
      BY <1>3, OwnersKept
    <2>2. CASE ReadsFree(t)
      <3>1. mode' = mode
        BY <1>3, <2>2 DEF TryTest, Goto, Mode, InCS, TypeOK
      <3> QED
        BY <2>1, <3>1 DEF AbsLock!vars
    <2>3. CASE ~ReadsFree(t)
      <3>1. mode[t] = "try" /\ mode' = [mode EXCEPT ![t] = "out"]
        BY <1>3, <2>3 DEF TryTest, Goto, Mode, InCS, TypeOK
      <3>2. Owners # {} /\ t \notin Owners
        BY <1>3, <2>3 DEF TryTest, ReadsFree, LockWord, TypeOK, Owners, InCS
      <3> QED
        BY <2>1, <3>1, <3>2 DEF AbsLock!Refuse
    <2> QED
      BY <2>2, <2>3
  <1>4. ASSUME NEW t \in Threads, TryCas(t) \/ Cas(t), CasSucceeds(t)
        PROVE  AbsLock!Acquire(t)
    <2>1. Goto(t, "enter") /\ UNCHANGED lkbuf
      BY <1>4 DEF TryCas, Cas, CasSucceeds, CasFails
    <2>2. Owners = {} /\ Owners' = {t}
      <3>1. Owners' = Owners \cup {t}
        BY <1>4, <2>1, OwnerJoins DEF TryCas, Cas
      <3> QED
        BY <1>4, <3>1 DEF CasSucceeds, LockWord, LKVAL, INITVAL
    <2>3. mode[t] \in {"lock", "try"} /\ mode' = [mode EXCEPT ![t] = "in"]
      BY <1>4, <2>1 DEF TryCas, Cas, Goto, Mode, InCS, TypeOK
    <2> QED
      BY <2>2, <2>3 DEF AbsLock!Acquire
  <1>5. ASSUME NEW t \in Threads, TryCas(t), CasFails(t)
        PROVE  AbsLock!Refuse(t)
    <2>1. Goto(t, "idle") /\ UNCHANGED lkbuf
      BY <1>5 DEF TryCas, CasSucceeds, CasFails
    <2>2. Owners' = Owners
      BY <1>5, <2>1, RefusedKeepsOwners DEF TryCas
    <2>3. mode[t] = "try" /\ mode' = [mode EXCEPT ![t] = "out"]
      BY <1>5, <2>1 DEF TryCas, Goto, Mode, InCS, TypeOK
    <2>4. Owners # {} /\ t \notin Owners
      BY <1>5 DEF TryCas, CasFails, Drained, LockWord, TypeOK, Owners, InCS
    <2> QED
      BY <2>2, <2>3, <2>4 DEF AbsLock!Refuse
  <1>6. ASSUME NEW t \in Threads, Cas(t), CasFails(t)
        PROVE  UNCHANGED AbsLock!vars
    <2>1. Goto(t, "spin") /\ UNCHANGED lkbuf
      BY <1>6 DEF Cas, CasSucceeds, CasFails
    <2>2. Owners' = Owners
      BY <1>6, <2>1, RefusedKeepsOwners DEF Cas
    <2>3. mode' = mode
      BY <1>6, <2>1 DEF Cas, Goto, Mode, InCS, TypeOK
    <2> QED
      BY <2>2, <2>3 DEF AbsLock!vars
  <1>7. ASSUME NEW t \in Threads, Spin(t) \/ Load(t) \/ Store(t) \/ Unlock(t)
        PROVE  UNCHANGED AbsLock!vars
    <2>1. Owners' = Owners
      BY <1>7, OwnersKept
    <2>2. mode' = mode
      BY <1>7 DEF Spin, Load, Store, Unlock, Goto, Mode, InCS, TypeOK
    <2> QED
      BY <2>1, <2>2 DEF AbsLock!vars
  <1>8. ASSUME NEW t \in Threads, Release(t)
        PROVE  AbsLock!Leave(t)
    <2>1. Owners' = Owners
      BY <1>8, ReleaseKeepsOwners
    <2>2. mode[t] = "in" /\ mode' = [mode EXCEPT ![t] = "out"]
      BY <1>8 DEF Release, Goto, Mode, InCS, TypeOK
    <2> QED
      BY <2>1, <2>2 DEF AbsLock!Leave
  <1>9. ASSUME NEW t \in Threads, DrainLk(t)
        PROVE  AbsLock!Free(t)
    <2>1. t \in Owners /\ Owners' = Owners \ {t}
      BY <1>9, OwnerLeaves DEF DrainLk, Owners
    <2>2. mode[t] # "in" /\ mode' = mode
      BY <1>9 DEF DrainLk, ReleaseBuffered, Mode, InCS, TypeOK, PCs
    <2> QED
      BY <2>1, <2>2 DEF AbsLock!Free
  <1>10. ASSUME NEW t \in Threads, DrainData(t)
         PROVE  UNCHANGED AbsLock!vars
    <2>1. Owners' = Owners
      BY <1>10, OwnersKept
    <2>2. mode' = mode
      BY <1>10 DEF DrainData, Mode, InCS
    <2> QED
      BY <2>1, <2>2 DEF AbsLock!vars
  <1> QED
    BY <1>1, <1>2, <1>3, <1>4, <1>5, <1>6, <1>7, <1>8, <1>9, <1>10
       DEF Next, Continue, Drain, TryCas, Cas, AbsLock!Next

\* The fast mutex of mt/mtx.h implements the abstract lock.
THEOREM Refinement ==
  ASSUME Arch = "x86"
  PROVE  Spec => ImplementsLock
  <1>1. Init => AbsLock!Init
    BY DEF Init, AbsLock!Init, Mode, Owners, InCS
  <1>2. IInv /\ [Next]_vars => [AbsLock!Next]_(AbsLock!vars)
    BY StepRefines
  <1> QED
    BY <1>1, <1>2, Invariance, PTL DEF Spec, ImplementsLock, AbsLock!Spec
===========================================================================
