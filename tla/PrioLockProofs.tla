--------------------------- MODULE PrioLockProofs ---------------------------
(***************************************************************************)
(* Theorems about the priority lock, for every set of threads, every set   *)
(* of levels and every choice of original priorities.  Three facts carry   *)
(* them: only a thread that found the owner field empty writes itself      *)
(* there; a thread changes its registered priority only while its bit is   *)
(* off; and the mask is that of the registered priority wherever a thread  *)
(* tests waitbits with it.                                                 *)
(***************************************************************************)
EXTENDS PrioLock, TLAPS

\* MaskFollowsPrio, and also where a change of priority is looked for: the
\* mask is written there only when the two differ.
MaskIsPrio ==
    \A t \in Threads :
        pc[t] \in Enlisted \cup {"wait1", "check1", "cas", "enlist"} => mask[t] = prio[t]

IInv == TypeOK /\ OwnerHolds /\ NoGhostBits /\ MaskIsPrio

\* The lock is free at the start.
LEMMA InitInv == Init => IInv
<1> SUFFICES ASSUME Init PROVE IInv
  OBVIOUS
<1>1. TypeOK
  BY OrigAssumption DEF Init, TypeOK, PCs
<1>2. OwnerHolds
  BY ThreadsAssumption DEF Init, OwnerHolds, Holds
<1>3. NoGhostBits /\ MaskIsPrio
  BY DEF Init, NoGhostBits, MaskIsPrio, Enlisted
<1> QED
  BY <1>1, <1>2, <1>3 DEF IInv

\* Every step keeps the types: the owner found is a thread before anything is
\* lent to it.
LEMMA TypeStep == TypeOK /\ [Next]_vars => TypeOK'
<1> SUFFICES ASSUME TypeOK, [Next]_vars PROVE TypeOK'
  OBVIOUS
<1> USE DEF TypeOK, PCs, Goto
<1>1. ASSUME NEW t \in Threads, Set(t) PROVE TypeOK'
  BY <1>1 DEF Set
<1>2. ASSUME NEW t \in Threads, Call(t) PROVE TypeOK'
  BY <1>2 DEF Call
<1>3. ASSUME NEW t \in Threads, Start(t) PROVE TypeOK'
  BY <1>3 DEF Start
<1>4. ASSUME NEW t \in Threads, Wait1(t) PROVE TypeOK'
  BY <1>4 DEF Wait1
<1>5. ASSUME NEW t \in Threads, Check1(t) PROVE TypeOK'
  BY <1>5 DEF Check1
<1>6. ASSUME NEW t \in Threads, Cas(t) PROVE TypeOK'
  BY <1>6, OrigAssumption DEF Cas, Forget
<1>7. ASSUME NEW t \in Threads, Enlist(t) PROVE TypeOK'
  BY <1>7 DEF Enlist
<1>8. ASSUME NEW t \in Threads, Wait2(t) PROVE TypeOK'
  BY <1>8 DEF Wait2
<1>9. ASSUME NEW t \in Threads, Check2(t) PROVE TypeOK'
  BY <1>9 DEF Check2
<1>10. ASSUME NEW t \in Threads, Reread(t) PROVE TypeOK'
  BY <1>10 DEF Reread
<1>11. ASSUME NEW t \in Threads, Relist(t) PROVE TypeOK'
  BY <1>11 DEF Relist
<1>12. ASSUME NEW t \in Threads, Swap(t) PROVE TypeOK'
  BY <1>12 DEF Swap
<1>13. ASSUME NEW t \in Threads, Compare(t) PROVE TypeOK'
  BY <1>13 DEF Compare
<1>14. ASSUME NEW t \in Threads, Boost(t) PROVE TypeOK'
  BY <1>14 DEF Boost
<1>15. ASSUME NEW t \in Threads, Delist(t) PROVE TypeOK'
  BY <1>15, OrigAssumption DEF Delist, Forget
<1>16. ASSUME NEW t \in Threads, Release(t) PROVE TypeOK'
  BY <1>16 DEF Release
<1>17. ASSUME NEW t \in Threads, Restore(t) PROVE TypeOK'
  BY <1>17, OrigAssumption DEF Restore
<1>18. ASSUME UNCHANGED vars PROVE TypeOK'
  BY <1>18 DEF vars
<1> QED
  BY <1>1, <1>2, <1>3, <1>4, <1>5, <1>6, <1>7, <1>8, <1>9,
     <1>10, <1>11, <1>12, <1>13, <1>14, <1>15, <1>16, <1>17, <1>18 DEF Next, Continue

\* The owner field is overwritten only by its owner or when it is empty.
LEMMA OwnerStep == TypeOK /\ OwnerHolds /\ [Next]_vars => OwnerHolds'
<1> SUFFICES ASSUME TypeOK, OwnerHolds, [Next]_vars PROVE OwnerHolds'
  OBVIOUS
<1> USE DEF TypeOK, OwnerHolds, Holds, Goto
<1>1. ASSUME NEW t \in Threads, Set(t) PROVE OwnerHolds'
  BY <1>1 DEF Set
<1>2. ASSUME NEW t \in Threads, Call(t) PROVE OwnerHolds'
  BY <1>2 DEF Call
<1>3. ASSUME NEW t \in Threads, Start(t) PROVE OwnerHolds'
  BY <1>3 DEF Start
<1>4. ASSUME NEW t \in Threads, Wait1(t) PROVE OwnerHolds'
  BY <1>4 DEF Wait1
<1>5. ASSUME NEW t \in Threads, Check1(t) PROVE OwnerHolds'
  BY <1>5 DEF Check1
<1>6. ASSUME NEW t \in Threads, Cas(t) PROVE OwnerHolds'
  BY <1>6, ThreadsAssumption DEF Cas
<1>7. ASSUME NEW t \in Threads, Enlist(t) PROVE OwnerHolds'
  BY <1>7 DEF Enlist
<1>8. ASSUME NEW t \in Threads, Wait2(t) PROVE OwnerHolds'
  BY <1>8 DEF Wait2
<1>9. ASSUME NEW t \in Threads, Check2(t) PROVE OwnerHolds'
  BY <1>9 DEF Check2
<1>10. ASSUME NEW t \in Threads, Reread(t) PROVE OwnerHolds'
  BY <1>10 DEF Reread
<1>11. ASSUME NEW t \in Threads, Relist(t) PROVE OwnerHolds'
  BY <1>11 DEF Relist
<1>12. ASSUME NEW t \in Threads, Swap(t) PROVE OwnerHolds'
  BY <1>12, ThreadsAssumption DEF Swap
<1>13. ASSUME NEW t \in Threads, Compare(t) PROVE OwnerHolds'
  BY <1>13 DEF Compare
<1>14. ASSUME NEW t \in Threads, Boost(t) PROVE OwnerHolds'
  BY <1>14 DEF Boost
<1>15. ASSUME NEW t \in Threads, Delist(t) PROVE OwnerHolds'
  BY <1>15 DEF Delist
<1>16. ASSUME NEW t \in Threads, Release(t) PROVE OwnerHolds'
  BY <1>16, ThreadsAssumption DEF Release
<1>17. ASSUME NEW t \in Threads, Restore(t) PROVE OwnerHolds'
  BY <1>17 DEF Restore
<1>18. ASSUME UNCHANGED vars PROVE OwnerHolds'
  BY <1>18 DEF vars
<1> QED
  BY <1>1, <1>2, <1>3, <1>4, <1>5, <1>6, <1>7, <1>8, <1>9,
     <1>10, <1>11, <1>12, <1>13, <1>14, <1>15, <1>16, <1>17, <1>18 DEF Next, Continue

\* A thread that takes its bit off, or ceases to be enlisted, is the last to
\* need it: what remains has another level.
LEMMA BitsStep == TypeOK /\ NoGhostBits /\ [Next]_vars => NoGhostBits'
<1> SUFFICES ASSUME TypeOK, NoGhostBits, [Next]_vars PROVE NoGhostBits'
  OBVIOUS
<1> USE DEF TypeOK, NoGhostBits, Enlisted, Goto
<1>1. ASSUME NEW t \in Threads, Set(t) PROVE NoGhostBits'
  BY <1>1 DEF Set
<1>2. ASSUME NEW t \in Threads, Call(t) PROVE NoGhostBits'
  BY <1>2 DEF Call
<1>3. ASSUME NEW t \in Threads, Start(t) PROVE NoGhostBits'
  BY <1>3 DEF Start
<1>4. ASSUME NEW t \in Threads, Wait1(t) PROVE NoGhostBits'
  BY <1>4 DEF Wait1
<1>5. ASSUME NEW t \in Threads, Check1(t) PROVE NoGhostBits'
  BY <1>5 DEF Check1
<1>6. ASSUME NEW t \in Threads, Cas(t) PROVE NoGhostBits'
  BY <1>6 DEF Cas, Forget
<1>7. ASSUME NEW t \in Threads, Enlist(t) PROVE NoGhostBits'
  BY <1>7 DEF Enlist
<1>8. ASSUME NEW t \in Threads, Wait2(t) PROVE NoGhostBits'
  BY <1>8 DEF Wait2
<1>9. ASSUME NEW t \in Threads, Check2(t) PROVE NoGhostBits'
  BY <1>9 DEF Check2
<1>10. ASSUME NEW t \in Threads, Reread(t) PROVE NoGhostBits'
  BY <1>10 DEF Reread
<1>11. ASSUME NEW t \in Threads, Relist(t) PROVE NoGhostBits'
  BY <1>11 DEF Relist
<1>12. ASSUME NEW t \in Threads, Swap(t) PROVE NoGhostBits'
  BY <1>12 DEF Swap
<1>13. ASSUME NEW t \in Threads, Compare(t) PROVE NoGhostBits'
  BY <1>13 DEF Compare
<1>14. ASSUME NEW t \in Threads, Boost(t) PROVE NoGhostBits'
  BY <1>14 DEF Boost
<1>15. ASSUME NEW t \in Threads, Delist(t) PROVE NoGhostBits'
  BY <1>15 DEF Delist, Forget
<1>16. ASSUME NEW t \in Threads, Release(t) PROVE NoGhostBits'
  BY <1>16 DEF Release
<1>17. ASSUME NEW t \in Threads, Restore(t) PROVE NoGhostBits'
  BY <1>17 DEF Restore
<1>18. ASSUME UNCHANGED vars PROVE NoGhostBits'
  BY <1>18 DEF vars
<1> QED
  BY <1>1, <1>2, <1>3, <1>4, <1>5, <1>6, <1>7, <1>8, <1>9,
     <1>10, <1>11, <1>12, <1>13, <1>14, <1>15, <1>16, <1>17, <1>18 DEF Next, Continue

\* Priority and mask are read, or relisted, together.
LEMMA MaskStep == TypeOK /\ MaskIsPrio /\ [Next]_vars => MaskIsPrio'
<1> SUFFICES ASSUME TypeOK, MaskIsPrio, [Next]_vars PROVE MaskIsPrio'
  OBVIOUS
<1> USE DEF TypeOK, MaskIsPrio, Enlisted, Goto
<1>1. ASSUME NEW t \in Threads, Set(t) PROVE MaskIsPrio'
  BY <1>1 DEF Set
<1>2. ASSUME NEW t \in Threads, Call(t) PROVE MaskIsPrio'
  BY <1>2 DEF Call
<1>3. ASSUME NEW t \in Threads, Start(t) PROVE MaskIsPrio'
  BY <1>3 DEF Start
<1>4. ASSUME NEW t \in Threads, Wait1(t) PROVE MaskIsPrio'
  BY <1>4 DEF Wait1
<1>5. ASSUME NEW t \in Threads, Check1(t) PROVE MaskIsPrio'
  BY <1>5 DEF Check1
<1>6. ASSUME NEW t \in Threads, Cas(t) PROVE MaskIsPrio'
  BY <1>6 DEF Cas, Forget
<1>7. ASSUME NEW t \in Threads, Enlist(t) PROVE MaskIsPrio'
  BY <1>7 DEF Enlist
<1>8. ASSUME NEW t \in Threads, Wait2(t) PROVE MaskIsPrio'
  BY <1>8 DEF Wait2
<1>9. ASSUME NEW t \in Threads, Check2(t) PROVE MaskIsPrio'
  BY <1>9 DEF Check2
<1>10. ASSUME NEW t \in Threads, Reread(t) PROVE MaskIsPrio'
  BY <1>10 DEF Reread
<1>11. ASSUME NEW t \in Threads, Relist(t) PROVE MaskIsPrio'
  BY <1>11 DEF Relist
<1>12. ASSUME NEW t \in Threads, Swap(t) PROVE MaskIsPrio'
  BY <1>12 DEF Swap
<1>13. ASSUME NEW t \in Threads, Compare(t) PROVE MaskIsPrio'
  BY <1>13 DEF Compare
<1>14. ASSUME NEW t \in Threads, Boost(t) PROVE MaskIsPrio'
  BY <1>14 DEF Boost
<1>15. ASSUME NEW t \in Threads, Delist(t) PROVE MaskIsPrio'
  BY <1>15 DEF Delist, Forget
<1>16. ASSUME NEW t \in Threads, Release(t) PROVE MaskIsPrio'
  BY <1>16 DEF Release
<1>17. ASSUME NEW t \in Threads, Restore(t) PROVE MaskIsPrio'
  BY <1>17 DEF Restore
<1>18. ASSUME UNCHANGED vars PROVE MaskIsPrio'
  BY <1>18 DEF vars
<1> QED
  BY <1>1, <1>2, <1>3, <1>4, <1>5, <1>6, <1>7, <1>8, <1>9,
     <1>10, <1>11, <1>12, <1>13, <1>14, <1>15, <1>16, <1>17, <1>18 DEF Next, Continue

\* The inductive invariant, for the code with all of its steps interleaved.
THEOREM Invariance == Spec => []IInv
<1>1. IInv /\ [Next]_vars => IInv'
  BY TypeStep, OwnerStep, BitsStep, MaskStep DEF IInv
<1> QED
  BY InitInv, <1>1, PTL DEF Spec

\* The fields and locals of priolk.c keep their types; a loan is never made to
\* an owner that is not there.
THEOREM TypeCorrect == Spec => []TypeOK
<1>1. IInv => TypeOK
  BY DEF IInv
<1> QED
  BY <1>1, Invariance, PTL

\* The owner field names exactly the thread that is in its critical section.
THEOREM OwnerAlways == Spec => []OwnerHolds
<1>1. IInv => OwnerHolds
  BY DEF IInv
<1> QED
  BY <1>1, Invariance, PTL

\* Two threads are never in their critical sections (priolkget, priolkrel).
THEOREM Exclusive ==
    Spec => [](\A t, u \in Threads : pc[t] = "crit" /\ pc[u] = "crit" => t = u)
<1>1. IInv => \A t, u \in Threads : pc[t] = "crit" /\ pc[u] = "crit" => t = u
  BY DEF IInv, OwnerHolds, Holds
<1> QED
  BY <1>1, Invariance, PTL

\* Every bit of waitbits has a waiter that is going to take it off again.
THEOREM NoGhosts == Spec => []NoGhostBits
<1>1. IInv => NoGhostBits
  BY DEF IInv
<1> QED
  BY <1>1, Invariance, PTL

\* A waiting thread defers to exactly the levels above its registered one.
THEOREM MaskAlways == Spec => []MaskFollowsPrio
<1>1. IInv => MaskFollowsPrio
  BY DEF IInv, MaskIsPrio, MaskFollowsPrio
<1> QED
  BY <1>1, Invariance, PTL
=============================================================================
