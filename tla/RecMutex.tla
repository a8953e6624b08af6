------------------------------ MODULE RecMutex ------------------------------
(***************************************************************************)
(* The recursive mutex of libmt (mt/mtx.h): a word that is 0 when free.    *)
(* mttryrecfmtx stores the caller's identity and succeeds again for the    *)
(* thread it finds there; mtlkrecfmtx stores 1, like the fast mutex, and   *)
(* waits for a free word before anything else; one mtunlkrecfmtx frees the *)
(* word, however often it was taken.  How plain stores reach memory is     *)
(* looked at in FastMutex; here a store is one step.                       *)
(***************************************************************************)
EXTENDS Naturals, FiniteSets

CONSTANTS RecThreads,  \* the threads, which stand for their identities too
          MaxDepth     \* how deep a caller nests

INITVAL == 0
LKVAL == 1

ASSUME RecAssumption == MaxDepth \in Nat \ {0} /\ {INITVAL, LKVAL} \cap RecThreads = {}

VARIABLES recpc,  \* where each thread is
          word,   \* the lock word
          depth,  \* history: the calls of each thread that took it, less its unlocks
          nested  \* history: some thread took it again before its unlock

recvars == <<recpc, word, depth, nested>>

RecInit ==
    /\ recpc = [t \in RecThreads |-> "idle"]
    /\ word = INITVAL
    /\ depth = [t \in RecThreads |-> 0]
    /\ nested = FALSE

RecGoto(t, p) == recpc' = [recpc EXCEPT ![t] = p]

\* A call returns with the mutex.
Taken(t) ==
    /\ RecGoto(t, "idle")
    /\ depth' = [depth EXCEPT ![t] = @ + 1]
    /\ nested' = (nested \/ depth[t] > 0)

NotYet(t, p) == RecGoto(t, p) /\ UNCHANGED <<depth, nested>>

Swap(val) == word = INITVAL /\ word' = val

CallTry(t) == recpc[t] = "idle" /\ depth[t] < MaxDepth /\ NotYet(t, "try_test") /\ UNCHANGED word
CallLock(t) == recpc[t] = "idle" /\ depth[t] < MaxDepth /\ NotYet(t, "lk_spin") /\ UNCHANGED word
---------------------------------------------------------------------------
(* mttryrecfmtx: a swap if the word is free, then a look at whose it is.   *)

RecTryTest(t) ==
    /\ recpc[t] = "try_test"
    /\ NotYet(t, IF word = INITVAL THEN "try_cas" ELSE "try_own")
    /\ UNCHANGED word

TrySwap(t) ==
    /\ recpc[t] = "try_cas"
    /\ \/ Swap(t) /\ Taken(t)
       \/ word # INITVAL /\ NotYet(t, "try_own") /\ UNCHANGED word

\* Mutant: any owner will do.
TryOwnAny(t) ==
    /\ recpc[t] = "try_own"
    /\ IF word # INITVAL THEN Taken(t) ELSE NotYet(t, "idle")
    /\ UNCHANGED word

TryOwn(t) ==
    /\ recpc[t] = "try_own"
    /\ IF word = t THEN Taken(t) ELSE NotYet(t, "idle")
    /\ UNCHANGED word
---------------------------------------------------------------------------
(* mtlkrecfmtx: waits for a free word, also if the word is its own.        *)

Spin(t) == recpc[t] = "lk_spin" /\ word = INITVAL /\ NotYet(t, "lk_cas") /\ UNCHANGED word

LockSwap(t) ==
    /\ recpc[t] = "lk_cas"
    /\ \/ Swap(LKVAL) /\ Taken(t)
       \/ word # INITVAL /\ NotYet(t, "lk_own") /\ UNCHANGED word

LockOwn(t) ==
    /\ recpc[t] = "lk_own"
    /\ IF word = t THEN Taken(t) ELSE NotYet(t, "lk_spin")
    /\ UNCHANGED word
---------------------------------------------------------------------------
RecUnlock(t) ==
    /\ recpc[t] = "idle" /\ depth[t] > 0
    /\ word' = INITVAL
    /\ depth' = [depth EXCEPT ![t] = @ - 1]
    /\ UNCHANGED <<recpc, nested>>

RecContinue(t) ==
    \/ RecTryTest(t) \/ TrySwap(t) \/ TryOwn(t)
    \/ Spin(t) \/ LockSwap(t) \/ LockOwn(t)

RecNext == \E t \in RecThreads : CallTry(t) \/ CallLock(t) \/ RecContinue(t) \/ RecUnlock(t)

\* A thread inside a call is scheduled again, and a caller that has the mutex
\* does not only go on trying for it: in the end it unlocks.
RecFair == \A t \in RecThreads : WF_recvars(RecContinue(t)) /\ SF_recvars(RecUnlock(t))

RecSpec == RecInit /\ [][RecNext]_recvars /\ RecFair
---------------------------------------------------------------------------
RecPoints == {"idle", "try_test", "try_cas", "try_own", "lk_spin", "lk_cas", "lk_own"}

RecTypeOK ==
    /\ recpc \in [RecThreads -> RecPoints]
    /\ word \in {INITVAL, LKVAL} \cup RecThreads
    /\ depth \in [RecThreads -> 0 .. MaxDepth]
    /\ nested \in BOOLEAN

Holders == {t \in RecThreads : depth[t] > 0}

\* Until a thread takes the mutex twice, one at most has it, however it was
\* taken, and the word says so: a thread that has taken it with mttryrecfmtx
\* is named there.
FlatExclusion ==
    ~nested => /\ Cardinality(Holders) <= 1
               /\ (word = INITVAL) = (Holders = {})
               /\ word \in RecThreads => word \in Holders

\* Until then, too, a mutex that is taken becomes free again, unless its
\* holder waits for it.
StillTaken ==
    /\ word # INITVAL /\ ~nested
    /\ \A t \in Holders : recpc[t] \notin {"lk_spin", "lk_cas", "lk_own"}

FreedAgain == []<>~StillTaken
===========================================================================
