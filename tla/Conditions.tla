------------------------------ MODULE Conditions ------------------------------
(***************************************************************************)
(* Condition variables and the threads that sleep on them (mt/cond.c,      *)
(* mt/thr.c), with the fast mutex that mtwaitcond takes.                   *)
(*                                                                         *)
(* The queue of mt/deq.h, which is not there, is used as one that changes  *)
(* under its own lock; who is taken from it is left open.  What thr.c      *)
(* calls thrwake1 and thrwakeall is the mtwakethr1 and mtwakethrall that   *)
(* thr.h declares and cond.c calls.  Arguments are right: none is NULL,    *)
(* no time negative, no number zero, which are refused at once.  A mutex   *)
(* is unlocked by its owner or by anyone else, since it does not know its  *)
(* owner.                                                                  *)
(***************************************************************************)
EXTENDS Integers, FiniteSets

CONSTANTS CondThreads,  \* the threads
          CondCalls,    \* calls they make, all together
          SigMany,      \* how many mtsigcond wakes: 8 in the code
          NanoSleep     \* TRUE with clock_nanosleep, FALSE with the time of day

ASSUME CondAssumption ==
    /\ IsFiniteSet(CondThreads) /\ "free" \notin CondThreads
    /\ CondCalls \in Nat /\ SigMany \in Nat \ {0} /\ NanoSleep \in BOOLEAN

VARIABLES mtxowner,  \* who has taken the mutex, or "free"
          queued,    \* how often each thread is in the queue of the condition
          asleep,    \* the sleep flag of each thread
          cpc,       \* where each thread is
          sigs,      \* how many it is still to wake
          ncalls,    \* calls made
          strange,   \* unlocks by a thread that does not own the mutex
          returned   \* waits that have returned zero

condvars == <<mtxowner, queued, asleep, cpc, sigs, ncalls, strange, returned>>
mtxvars == <<mtxowner, strange>>
sleepvars == <<queued, asleep>>

CondInit ==
    /\ mtxowner = "free"
    /\ queued = [t \in CondThreads |-> 0] /\ asleep = [t \in CondThreads |-> FALSE]
    /\ cpc = [t \in CondThreads |-> "idle"] /\ sigs = [t \in CondThreads |-> 0]
    /\ ncalls = 0 /\ strange = 0 /\ returned = 0

Queued == {s \in CondThreads : queued[s] > 0}
To(t, place) == cpc' = [cpc EXCEPT ![t] = place]
TakeMutex(t) == mtxowner' = t /\ UNCHANGED strange
---------------------------------------------------------------------------
(* Calls.  A wait, with or without a time, begins with a try of the mutex. *)

CondCall(t) ==
    /\ cpc[t] = "idle" /\ ncalls < CondCalls
    /\ ncalls' = ncalls + 1
    /\ \/ \E place \in {"try", "trytimed", "wakeall", "lock"} : To(t, place) /\ UNCHANGED sigs
       \/ \E n \in {1, SigMany} : To(t, "wake") /\ sigs' = [sigs EXCEPT ![t] = n]
    /\ UNCHANGED <<mtxvars, sleepvars, returned>>

LockMutex(t) ==
    /\ cpc[t] = "lock" /\ mtxowner = "free" /\ TakeMutex(t) /\ To(t, "idle")
    /\ UNCHANGED <<sleepvars, sigs, ncalls, returned>>

UnlockMutex(t) ==
    /\ cpc[t] = "idle" /\ mtxowner # "free"
    /\ IF mtxowner = t THEN UNCHANGED <<strange, ncalls>>
       ELSE /\ ncalls < CondCalls /\ ncalls' = ncalls + 1
            /\ strange' = strange + 1
    /\ mtxowner' = "free" /\ UNCHANGED <<sleepvars, cpc, sigs, returned>>

\* Who has the mutex cannot wait: the try fails, -EPERM.
TryMutex(t) ==
    /\ cpc[t] \in {"try", "trytimed"}
    /\ IF mtxowner = "free"
       THEN TakeMutex(t) /\ To(t, IF cpc[t] = "try" THEN "push" ELSE "pushtimed")
       ELSE To(t, "idle") /\ UNCHANGED mtxvars
    /\ UNCHANGED <<sleepvars, sigs, ncalls, returned>>

\* The mutex stays taken while its owner sleeps.
PushSelf(t) ==
    /\ cpc[t] \in {"push", "pushtimed"}
    /\ queued' = [queued EXCEPT ![t] = @ + 1] /\ asleep' = [asleep EXCEPT ![t] = TRUE]
    /\ To(t, IF cpc[t] = "push" THEN "sleep" ELSE "timed")
    /\ UNCHANGED <<mtxvars, sigs, ncalls, returned>>

WokenUp(t) ==
    /\ cpc[t] = "sleep" /\ ~asleep[t] /\ To(t, "relock")
    /\ UNCHANGED <<mtxvars, sleepvars, sigs, ncalls, returned>>

\* A sleep with a time lasts for it, whoever wakes the thread.
TimeUp(t) ==
    /\ cpc[t] = "timed" /\ To(t, IF asleep[t] THEN "remove" ELSE "relock")
    /\ UNCHANGED <<mtxvars, sleepvars, sigs, ncalls, returned>>

\* clock_nanosleep returns its error and leaves errno, which is asked whether it was
\* interrupted: then the wait fails, -EINVAL, with the mutex taken.
Interrupted(t) ==
    /\ NanoSleep /\ cpc[t] = "timed" /\ To(t, IF asleep[t] THEN "removefail" ELSE "idle")
    /\ UNCHANGED <<mtxvars, sleepvars, sigs, ncalls, returned>>

\* Who is taken from the queue has its flag lowered.
Dequeue(s) == queued' = [queued EXCEPT ![s] = @ - 1] /\ asleep' = [asleep EXCEPT ![s] = FALSE]

\* The flag is looked at again under the lock of the queue.
RemoveSelf(t) ==
    /\ cpc[t] \in {"remove", "removefail"}
    /\ IF asleep[t] THEN Dequeue(t) ELSE UNCHANGED sleepvars
    /\ To(t, IF cpc[t] = "remove" THEN "relock" ELSE "idle")
    /\ UNCHANGED <<mtxvars, sigs, ncalls, returned>>

Relock(t) ==
    /\ cpc[t] = "relock" /\ mtxowner = "free" /\ TakeMutex(t) /\ To(t, "idle")
    /\ returned' = returned + 1 /\ UNCHANGED <<sleepvars, sigs, ncalls>>

\* One is taken from the queue and its flag lowered; or there is none.
WakeOne(t) ==
    /\ cpc[t] = "wake"
    /\ IF Queued = {} THEN To(t, "idle") /\ UNCHANGED <<sleepvars, sigs>>
       ELSE /\ \E s \in Queued : Dequeue(s)
            /\ sigs' = [sigs EXCEPT ![t] = @ - 1]
            /\ To(t, IF sigs[t] = 1 THEN "idle" ELSE "wake")
    /\ UNCHANGED <<mtxvars, ncalls, returned>>
WakeAll(t) ==
    /\ cpc[t] = "wakeall"
    /\ IF Queued = {} THEN To(t, "idle") /\ UNCHANGED sleepvars
       ELSE (\E s \in Queued : Dequeue(s)) /\ UNCHANGED cpc
    /\ UNCHANGED <<mtxvars, sigs, ncalls, returned>>

\* What a thread goes on with; a time that is not up is waited for.
CondContinue(t) ==
    \/ LockMutex(t) \/ TryMutex(t) \/ PushSelf(t) \/ WokenUp(t) \/ TimeUp(t) \/ Interrupted(t)
    \/ RemoveSelf(t) \/ Relock(t) \/ WakeOne(t) \/ WakeAll(t)
CondNext == \E t \in CondThreads : CondCall(t) \/ UnlockMutex(t) \/ CondContinue(t)
CondFair == \A t \in CondThreads : WF_condvars(CondContinue(t))
CondSpec == CondInit /\ [][CondNext]_condvars /\ CondFair
---------------------------------------------------------------------------
Blocked == {t \in CondThreads :
    cpc[t] \in {"push", "pushtimed", "sleep", "timed", "remove", "removefail", "relock"}}

\* Whoever has the flag up is in the queue, once, and nobody else is, though the flag
\* is read before the queue's lock is taken to remove it; and nobody who is not in a
\* wait is woken (mtsleepthr2, mtwakethr1).
SleepersQueued ==
    /\ \A t \in CondThreads : queued[t] = IF asleep[t] THEN 1 ELSE 0
    /\ \A t \in CondThreads : asleep[t] => cpc[t] \in {"sleep", "timed", "remove", "removefail"}

\* The mutex is taken all the time that a thread sleeps, so that only as many wait as
\* somebody else has unlocked it for, and one more; and every wait that returns zero
\* needed such an unlock (mtwaitcond, mtwaitcondabstime).
WaitsBlock ==
    /\ Cardinality(Blocked) <= strange - returned + 1
    /\ returned <= strange

\* Somebody has been woken and the mutex is free.
WokenLeft == \E t \in CondThreads : cpc[t] = "relock" /\ mtxowner = "free"
===============================================================================
